-------------------------- MODULE IoContext_proofs --------------------------
(***************************************************************************)
(* Proofs about IoContext, over poll and over io_uring, for any number of  *)
(* operations, waits and slots.                                            *)
(***************************************************************************)
EXTENDS IoContext, FiniteSetTheorems, SequenceTheorems, TLAPS

\* What a context is given, and what the completion ring holds.
PollEntry == [kind : {"io", "cancel"}, of : Ops] \cup [kind : {"nop"}, of : Waits]
TimerEntry == [kind : {"timer"}, of : Waits]
RingEntry == [kind : {"io", "cancel"}, of : Ops] \cup TimerEntry
Completion ==
    [kind : {"io"}, of : Ops, result : Results \cup {"ECANCELED"}]
        \cup [kind : {"cancel"}, of : Ops, result : {"ignored"}]
        \cup [kind : {"timer"}, of : Waits, result : {"value"}]

OpState ==
    [engaged : BOOLEAN, outstanding : 0..2, cancelled : BOOLEAN,
     result : Results \cup {"none", "ECANCELED"},
     outcome : Seq({"value", "error", "stopped"})]

\* One operation: before start(), while results are outstanding, and when the
\* receiver is completed, with the entries held for it.
OpOk(s, o, held, requested) ==
    /\ s \in OpState
    /\ ~s.engaged => s = Fresh /\ IoOf(o) \notin held /\ CancelOf(o) \notin held
    /\ s.engaged /\ s.outcome = <<>> =>
         /\ s.outstanding = (IF IoOf(o) \in held THEN 1 ELSE 0)
                          + (IF CancelOf(o) \in held THEN 1 ELSE 0)
         /\ s.outstanding # 0
         /\ s.result = "none" <=> IoOf(o) \in held
         /\ s.cancelled => CancelOf(o) \notin held
         /\ CancelOf(o) \in held \/ s.cancelled <=> o \in requested
    /\ s.outcome # <<>> =>
         /\ s.engaged /\ Len(s.outcome) = 1
         /\ IoOf(o) \notin held /\ CancelOf(o) \notin held
         /\ s.outstanding <= 1 /\ (o \notin requested => s.outstanding = 0)
         /\ s.outcome[1] = "value" <=> s.result = "value"
         /\ s.outcome[1] = "stopped" => o \in requested /\ s.cancelled
         /\ s.outcome[1] = "error" => s.result = "errno" /\ ~s.cancelled

WaitOk(how, w, held) ==
    /\ how = "queued" <=> NopOf(w) \in held \/ TimerOf(w) \in held
    /\ NopOf(w) \in held => TimerOf(w) \notin held

IoTypes ==
    /\ d_context \in {"poll", "ring"}
    /\ run \in {"idle", "running", "drained", "failed", "spinning", "undefined"}
    /\ again \in BOOLEAN
    /\ stopped \subseteq Ops
    /\ wait \in [Waits -> {"idle", "queued"}]
    /\ st \in [Ops -> OpState]

\* d_next_poll is lost when poll() returns false, and with it run().
Iterator ==
    /\ ~valid => again \/ run \in {"drained", "failed"}
    /\ run = "idle" => valid
    /\ d_context = "poll" /\ run = "undefined" => again

\* The stop requests but those whose callback was called and is yet to be entered.
Heard == stopped \ {o \in Ops : callback[o] = "called"}

OpsOk ==
    /\ \A o \in Ops : OpOk(st[o], o, Held, Heard)
    /\ \A w \in Waits : WaitOk(wait[w], w, Held)

Distinct(s) == \A i, j \in 1..Len(s) : s[i] = s[j] => i = j

\* Scheduled operations are behind those on a descriptor.
Behind(s) ==
    \A i, j \in 1..Len(s) : i < j /\ s[i].kind \in Scheduled => s[j].kind \in Scheduled

PollOk ==
    /\ ops \in Seq(PollEntry) /\ Distinct(ops) /\ Behind(ops)
    /\ timers \in Seq(TimerEntry) /\ Distinct(timers)

\* What a thread has not yet put into the submission ring.
Rest(a) == IF holder = a THEN Tail(todo[a]) ELSE todo[a]
Waiting == UNION {ToSet(Rest(a)) : a \in Threads}

Slots == 0..(Size - 1)
Ring == [head : 0..(Wrap - 1), tail : 0..(Wrap - 1), slot : [Slots -> RingEntry \cup {Empty}]]

RingTypes ==
    /\ sq \in Ring
    /\ cq \in Seq(Completion)
    /\ kernel \subseteq RingEntry /\ IsFiniteSet(kernel)
    /\ \A e \in kernel : e.kind # "cancel"
    /\ d_count \in Nat
    /\ todo \in [Threads -> Seq(RingEntry)]
    /\ holder \in Threads \cup {Nobody}
    /\ failures \in 0..MaxFailures

\* What a thread is submitting.
Submits(a) ==
    IF a = Context
    THEN {<<>>} \cup {<<IoOf(o)>> : o \in Ops} \cup {<<CancelOf(o), IoOf(o)>> : o \in Ops}
                \cup {<<TimerOf(w)>> : w \in Waits}
    ELSE {<<>>, <<CancelOf(a)>>}
Submitting ==
    /\ \A a \in Threads : todo[a] \in Submits(a)
    /\ holder # Nobody => todo[holder] # <<>> /\ Head(todo[holder]) \in SqEntries

\* The entries in slots and of results, each once.
Entries(f) == {f[i] : i \in 0..(Size - 1)} \ {Empty}
Once(f) == \A i, j \in Slots : f[i] = f[j] /\ f[i] # Empty => i = j
EntryOf(x) == [kind |-> x.kind, of |-> x.of]
Reported(c) == {[kind |-> c[i].kind, of |-> c[i].of] : i \in 1..Len(c)}
Unique(c) == \A i, j \in 1..Len(c) : EntryOf(c[i]) = EntryOf(c[j]) => i = j

\* Every entry is in one place.
OnePlace ==
    /\ \A e \in Waiting : e \notin SqEntries /\ e \notin kernel /\ e \notin CqEntries
    /\ \A e \in SqEntries : e \notin kernel /\ e \notin CqEntries
    /\ \A e \in kernel : e \notin CqEntries
    /\ \A a, b \in Threads, e \in RingEntry : e \in ToSet(Rest(a)) /\ e \in ToSet(Rest(b)) => a = b
    /\ Unique(cq) /\ Once(sq.slot)

\* The slots that are used are those from the head to the tail.
Window(r) ==
    \A j \in Slots : r.slot[Mask(r.head + j)] # Empty <=> j < Used(r)

\* An operation fails with ECANCELED when its cancellation has.
Canceled ==
    \A x \in ToSet(cq) : x.kind = "io" /\ x.result = "ECANCELED" =>
        CancelOf(x.of) \in CqEntries \/ st[x.of].cancelled

\* A callback that was called is that of an operation that was started, and is
\* dangling when that is gone.
Callbacks ==
    /\ callback \in [Ops -> {"none", "called", "dangling"}] /\ missed \subseteq Ops
    /\ \A o \in Ops : callback[o] = "called" => o \in stopped /\ st[o].engaged
    /\ \A o \in Ops : callback[o] = "dangling" => ~st[o].engaged

RingOk ==
    /\ RingTypes /\ Submitting /\ OnePlace /\ Window(sq) /\ Canceled /\ RingAccounts
    /\ Callbacks

IInv ==
    /\ IoTypes /\ Iterator /\ OpsOk
    /\ d_context = "poll" => RingInit /\ PollOk
    /\ d_context = "ring" => PollInit /\ RingOk

-----------------------------------------------------------------------------
(* Remainders                                                              *)

\* Division with remainder.
LEMMA Division ==
    ASSUME NEW x \in Nat, NEW n \in Nat \ {0}
    PROVE  /\ x \div n \in Nat /\ x % n \in 0..(n - 1)
           /\ x = (n * (x \div n)) + (x % n)
OBVIOUS

\* A multiple of n that is smaller than n is zero.
LEMMA Small ==
    ASSUME NEW k \in Int, NEW n \in Nat \ {0}, NEW r \in Int, r < n, -n < r, n * k = r
    PROVE  k = 0
<1>1. k >= 1 => n * k >= n
  OBVIOUS
<1>2. k <= -1 => n * k <= -n
  OBVIOUS
<1> QED BY <1>1, <1>2

\* The remainder is the only one.
LEMMA Remainder ==
    ASSUME NEW x \in Nat, NEW n \in Nat \ {0}, NEW q \in Int, NEW b \in Int, b = n * q,
           NEW r \in 0..(n - 1), x = b + r
    PROVE  x % n = r
<1>1. PICK d \in Nat, m \in 0..(n - 1) : x = (n * d) + m /\ m = x % n
  BY Division
<1>2. PICK a \in Int : a = n * d
  OBVIOUS
<1>3. x = a + m
  BY <1>1, <1>2
<1>4. n * (d - q) = a - b
  BY <1>2
<1>5. a - b = r - m /\ r - m < n /\ -n < r - m /\ r - m \in Int /\ d - q \in Int
  BY <1>3
<1>6. d - q = 0
  BY <1>4, <1>5, Small
<1>7. a - b = 0
  BY <1>4, <1>6
<1>8. r = m
  BY <1>5, <1>7
<1> QED BY <1>1, <1>8

\* Adding a multiple of n does not change the remainder.
LEMMA AddMultiple ==
    ASSUME NEW x \in Nat, NEW n \in Nat \ {0}, NEW y \in Nat, y % n = 0
    PROVE  (x + y) % n = x % n
<1>1. PICK d \in Nat, m \in 0..(n - 1) : x = (n * d) + m /\ m = x % n
  BY Division
<1>2. PICK e \in Nat, z \in 0..(n - 1) : y = (n * e) + z /\ z = y % n
  BY Division
<1>3. PICK a \in Int, b \in Int : a = n * d /\ b = n * e
  OBVIOUS
<1>4. n * (d + e) = a + b
  BY <1>3
<1>5. PICK c \in Int : c = n * (d + e) /\ c = a + b
  BY <1>4
<1>6. x = a + m /\ y = b
  BY <1>1, <1>2, <1>3
<1>7. PICK s \in Nat, k \in Int : s = x + y /\ k = d + e
  OBVIOUS
<1>8. s = c + m /\ c = n * k
  BY <1>5, <1>6, <1>7
<1>9. s % n = m
  BY <1>8, Remainder
<1> QED BY <1>1, <1>7, <1>9

\* Adding less than n wraps around once at most.
LEMMA AddSmall ==
    ASSUME NEW x \in Nat, NEW n \in Nat \ {0}, NEW j \in 0..(n - 1)
    PROVE  (x + j) % n = IF (x % n) + j < n THEN (x % n) + j ELSE ((x % n) + j) - n
<1>1. PICK d \in Nat, m \in 0..(n - 1) : x = (n * d) + m /\ m = x % n
  BY Division
<1>2. PICK a \in Int : a = n * d
  OBVIOUS
<1>3. x = a + m
  BY <1>1, <1>2
<1>4. PICK s \in Nat : s = x + j
  OBVIOUS
<1>5. CASE m + j < n
  <2>1. PICK r \in 0..(n - 1) : r = m + j
    BY <1>5
  <2>2. s = a + r
    BY <1>3, <1>4, <2>1
  <2>3. s % n = r
    BY <1>2, <2>2, Remainder
  <2> QED BY <1>1, <1>4, <1>5, <2>1, <2>3
<1>6. CASE ~(m + j < n)
  <2>1. PICK r \in 0..(n - 1) : r = (m + j) - n
    BY <1>6
  <2>2. PICK k \in Int : k = d + 1
    OBVIOUS
  <2>3. n * k = a + n
    BY <1>2, <2>2
  <2>4. PICK c \in Int : c = n * k /\ c = a + n
    BY <2>3
  <2>5. s = c + r
    BY <1>3, <1>4, <2>1, <2>4
  <2>6. s % n = r
    BY <2>4, <2>5, Remainder
  <2> QED BY <1>1, <1>4, <1>6, <2>1, <2>6
<1> QED BY <1>5, <1>6

-----------------------------------------------------------------------------
(* The submission ring                                                     *)

\* The slots counted from any place are all slots, each once.
LEMMA Around ==
    ASSUME NEW x \in Nat
    PROVE  /\ \A j \in Slots : Mask(x + j) \in Slots
           /\ \A j, k \in Slots : Mask(x + j) = Mask(x + k) => j = k
           /\ \A i \in Slots : \E j \in Slots : Mask(x + j) = i
<1>1. PICK n \in Nat \ {0} : n = Size
  BY RingAssumption
<1>2. PICK m \in 0..(n - 1) : m = x % n
  BY Division
<1>3. \A j \in 0..(n - 1) : (x + j) % n = IF m + j < n THEN m + j ELSE (m + j) - n
  BY <1>2, AddSmall
<1>4a. ASSUME NEW j \in 0..(n - 1) PROVE (x + j) % n \in 0..(n - 1)
  BY <1>3
<1>4b. ASSUME NEW j \in 0..(n - 1), NEW k \in 0..(n - 1), (x + j) % n = (x + k) % n
       PROVE  j = k
  <2>1. /\ (x + j) % n = IF m + j < n THEN m + j ELSE (m + j) - n
        /\ (x + k) % n = IF m + k < n THEN m + k ELSE (m + k) - n
    BY <1>3
  <2>2. (IF m + j < n THEN m + j ELSE (m + j) - n) = (IF m + k < n THEN m + k ELSE (m + k) - n)
    BY <2>1, <1>4b
  <2> QED BY <2>2
<1>5. ASSUME NEW i \in 0..(n - 1) PROVE \E j \in 0..(n - 1) : (x + j) % n = i
  <2>1. CASE m <= i
    <3>1. i - m \in 0..(n - 1) /\ m + (i - m) < n /\ m + (i - m) = i
      BY <2>1
    <3>2. (x + (i - m)) % n = i
      BY <1>3, <3>1
    <3> QED BY <3>1, <3>2
  <2>2. CASE ~(m <= i)
    <3>1. /\ (i - m) + n \in 0..(n - 1) /\ ~(m + ((i - m) + n) < n)
          /\ (m + ((i - m) + n)) - n = i
      BY <2>2
    <3>2. (x + ((i - m) + n)) % n = i
      BY <1>3, <3>1
    <3> QED BY <3>1, <3>2
  <2> QED BY <2>1, <2>2
<1> QED BY <1>1, <1>4a, <1>4b, <1>5 DEF Mask, Slots

\* The unsigned counters wrap around at a multiple of the size.
LEMMA Wrapping ==
    ASSUME NEW x \in Nat
    PROVE  Mask(x + Wrap) = Mask(x)
BY RingAssumption, AddMultiple DEF Mask

\* The counters of the ring: how many slots are used, and what the next tail
\* and head are.
LEMMA Counters ==
    ASSUME NEW h \in 0..(Wrap - 1), NEW t \in 0..(Wrap - 1)
    PROVE  /\ (t + Wrap - h) % Wrap = IF h <= t THEN t - h ELSE (t - h) + Wrap
           /\ (t + 1) % Wrap = IF t + 1 = Wrap THEN 0 ELSE t + 1
<1>1. PICK w \in Nat \ {0} : w = Wrap
  BY RingAssumption
<1>2. t % w = t /\ t \in Nat /\ h \in 0..(w - 1)
  <2>1. t = 0 + t /\ 0 = w * 0 /\ t \in 0..(w - 1) /\ t \in Nat
    BY <1>1
  <2> QED BY <1>1, <2>1, Remainder
<1>3. (t + 1) % w = IF t + 1 = w THEN 0 ELSE t + 1
  <2>1. CASE w = 1
    <3>1. t = 0
      BY <1>1, <2>1
    <3>2. 1 % 1 = 0
      OBVIOUS
    <3> QED BY <2>1, <3>1, <3>2
  <2>2. CASE w # 1
    <3>1. 1 \in 0..(w - 1)
      BY <2>2
    <3>2. (t + 1) % w = IF t + 1 < w THEN t + 1 ELSE (t + 1) - w
      BY <1>2, <3>1, AddSmall
    <3> QED BY <1>1, <3>2
  <2> QED BY <2>1, <2>2
<1>4. (t + w - h) % w = IF h <= t THEN t - h ELSE (t - h) + w
  <2>1. CASE h = 0
    <3>1. (t + w - h) % w = ((t + w) % w)
      BY <2>1, <1>2
    <3>2. w % w = 0
      OBVIOUS
    <3>3. (t + w) % w = t
      BY <1>2, <3>2, AddMultiple
    <3> QED BY <1>2, <2>1, <3>1, <3>3
  <2>2. CASE h # 0
    <3>1. PICK j \in 0..(w - 1) : j = w - h
      BY <1>2, <2>2
    <3>2. t + w - h = t + j
      BY <1>2, <3>1
    <3>3. (t + j) % w = IF t + j < w THEN t + j ELSE (t + j) - w
      BY <1>2, AddSmall
    <3> QED BY <1>2, <3>1, <3>2, <3>3
  <2> QED BY <2>1, <2>2
<1> QED BY <1>1, <1>3, <1>4

\* Where the tail is.
LEMMA TailPlace ==
    ASSUME NEW r \in Ring
    PROVE  /\ Used(r) \in 0..(Wrap - 1)
           /\ Mask(r.tail) = Mask(r.head + Used(r))
<1>1. PICK h \in 0..(Wrap - 1), t \in 0..(Wrap - 1) : h = r.head /\ t = r.tail
  BY DEF Ring
<1>2. Wrap \in Nat
  BY RingAssumption
<1>3. Used(r) = IF h <= t THEN t - h ELSE (t - h) + Wrap
  BY <1>1, Counters DEF Used
<1>4. Used(r) \in 0..(Wrap - 1)
  BY <1>2, <1>3
<1>5. CASE h <= t
  <2>1. h + Used(r) = t
    BY <1>2, <1>3, <1>5
  <2> QED BY <1>1, <1>4, <2>1
<1>6. CASE ~(h <= t)
  <2>1. h + Used(r) = t + Wrap /\ t \in Nat
    BY <1>2, <1>3, <1>6
  <2>2. Mask(t + Wrap) = Mask(t)
    BY <2>1, Wrapping
  <2> QED BY <1>1, <1>4, <2>1, <2>2
<1> QED BY <1>5, <1>6

\* The number of used slots after the tail or the head moved.
LEMMA Moved ==
    ASSUME NEW r \in Ring
    PROVE  /\ (r.tail + 1) % Wrap \in 0..(Wrap - 1)
           /\ (r.head + 1) % Wrap \in 0..(Wrap - 1)
           /\ Used(r) + 1 < Wrap =>
                (((r.tail + 1) % Wrap) + Wrap - r.head) % Wrap = Used(r) + 1
           /\ Used(r) # 0 =>
                (r.tail + Wrap - ((r.head + 1) % Wrap)) % Wrap = Used(r) - 1
           /\ \A j \in Nat : Mask(((r.head + 1) % Wrap) + j) = Mask(r.head + (j + 1))
<1>1. PICK h \in 0..(Wrap - 1), t \in 0..(Wrap - 1) : h = r.head /\ t = r.tail
  BY DEF Ring
<1>2. Wrap \in Nat /\ Wrap > 0
  BY RingAssumption
<1>3. Used(r) = IF h <= t THEN t - h ELSE (t - h) + Wrap
  BY <1>1, Counters DEF Used
<1>4. PICK u \in 0..(Wrap - 1) : u = Used(r) /\ u = IF h <= t THEN t - h ELSE (t - h) + Wrap
  BY <1>2, <1>3
<1>5. PICK i \in 0..(Wrap - 1) : i = (t + 1) % Wrap /\ i = IF t + 1 = Wrap THEN 0 ELSE t + 1
  BY <1>2, Counters
<1>6. PICK k \in 0..(Wrap - 1) : k = (h + 1) % Wrap /\ k = IF h + 1 = Wrap THEN 0 ELSE h + 1
  BY <1>2, Counters
<1>7. u + 1 < Wrap => (i + Wrap - h) % Wrap = u + 1
  <2>1. (i + Wrap - h) % Wrap = IF h <= i THEN i - h ELSE (i - h) + Wrap
    BY Counters
  <2>2. u + 1 < Wrap => (IF h <= i THEN i - h ELSE (i - h) + Wrap) = u + 1
    BY <1>2, <1>4, <1>5
  <2> QED BY <2>1, <2>2
<1>8. u # 0 => (t + Wrap - k) % Wrap = u - 1
  <2>1. (t + Wrap - k) % Wrap = IF k <= t THEN t - k ELSE (t - k) + Wrap
    BY Counters
  <2>2. u # 0 => (IF k <= t THEN t - k ELSE (t - k) + Wrap) = u - 1
    BY <1>2, <1>4, <1>6
  <2> QED BY <2>1, <2>2
<1>9. ASSUME NEW j \in Nat PROVE Mask(k + j) = Mask(h + (j + 1))
  <2>1. CASE h + 1 = Wrap
    <3>1. h + (j + 1) = j + Wrap /\ k + j = j
      BY <1>2, <1>6, <2>1
    <3> QED BY <3>1, Wrapping
  <2>2. CASE h + 1 # Wrap
    <3>1. h + (j + 1) = k + j
      BY <1>6, <2>2
    <3> QED BY <3>1
  <2> QED BY <2>1, <2>2
<1>10. /\ (r.tail + 1) % Wrap = i /\ (r.head + 1) % Wrap = k
       /\ Used(r) = u /\ r.head = h /\ r.tail = t
  BY <1>1, <1>4, <1>5, <1>6
<1> QED BY <1>7, <1>8, <1>9, <1>10

\* An entry is put into an empty slot, as long as not all are used.
LEMMA PutFacts ==
    ASSUME NEW r \in Ring, Window(r), Used(r) < Size, NEW e \in RingEntry,
           NEW q, q = Put(r, e)
    PROVE  /\ q \in Ring /\ Window(q) /\ Used(q) = Used(r) + 1
           /\ \E i \in Slots : r.slot[i] = Empty /\ q.slot = [r.slot EXCEPT ![i] = e]
<1>0. /\ Size \in Nat \ {0} /\ Wrap \in Nat /\ Size < Wrap
      /\ r.head \in Nat /\ r.slot \in [Slots -> RingEntry \cup {Empty}]
      /\ r = [head |-> r.head, tail |-> r.tail, slot |-> r.slot]
  BY RingAssumption DEF Ring
<1>1. PICK u \in Slots : u = Used(r)
  BY <1>0, TailPlace DEF Slots
<1>2. PICK i \in Slots : i = Mask(r.tail) /\ i = Mask(r.head + u)
  BY <1>0, <1>1, TailPlace, Around
<1>3. r.slot[i] = Empty
  BY <1>0, <1>1, <1>2 DEF Window, Slots
<1>4. /\ q.head = r.head /\ q.tail = (r.tail + 1) % Wrap
      /\ q.slot = [r.slot EXCEPT ![i] = e]
      /\ q = [head |-> r.head, tail |-> (r.tail + 1) % Wrap, slot |-> [r.slot EXCEPT ![i] = e]]
  BY <1>0, <1>2 DEF Put, Ring
<1>5. q \in Ring
  BY <1>0, <1>4, Moved DEF Ring
<1>6. Used(q) = u + 1
  <2>1. Used(r) + 1 < Wrap
    BY <1>0, <1>1 DEF Slots
  <2>2. (((r.tail + 1) % Wrap) + Wrap - r.head) % Wrap = Used(r) + 1
    BY <2>1, Moved
  <2>3. Used(q) = (q.tail + Wrap - q.head) % Wrap
    BY DEF Used
  <2> QED BY <1>1, <1>4, <2>2, <2>3
<1>7. e # Empty
  BY DEF RingEntry, TimerEntry, Empty
<1>8. Window(q)
  <2> SUFFICES ASSUME NEW j \in Slots
               PROVE  q.slot[Mask(q.head + j)] # Empty <=> j < Used(q)
    BY DEF Window
  <2>1. CASE j = u
    <3>1. q.slot[Mask(q.head + j)] = e
      BY <1>0, <1>2, <1>4, <2>1
    <3>2. j < Used(q)
      BY <1>6, <2>1 DEF Slots
    <3> QED BY <1>7, <3>1, <3>2
  <2>2. CASE j # u
    <3>1. Mask(r.head + j) # i /\ Mask(r.head + j) \in Slots
      BY <1>0, <1>2, <2>2, Around
    <3>2. q.slot[Mask(q.head + j)] = r.slot[Mask(r.head + j)]
      BY <1>0, <1>4, <3>1
    <3>3. j < Used(q) <=> j < u
      BY <1>6, <2>2 DEF Slots
    <3> QED BY <1>1, <3>2, <3>3 DEF Window
  <2> QED BY <2>1, <2>2
<1> QED BY <1>1, <1>3, <1>4, <1>5, <1>6, <1>8

\* q is r without the entry e at the head.
Taken(r, q, e) ==
    /\ q \in Ring /\ Window(q) /\ Used(q) = Used(r) - 1 /\ e \in RingEntry
    /\ \E i \in Slots : e = r.slot[i] /\ q.slot = [r.slot EXCEPT ![i] = Empty]

\* The entry at the head is taken.
LEMMA DropFacts ==
    ASSUME NEW r \in Ring, Window(r), Used(r) # 0, Used(r) <= Size,
           NEW q, q = Drop(r), NEW e, e = First(r)
    PROVE  Taken(r, q, e)
<1>0. /\ Size \in Nat \ {0} /\ Wrap \in Nat /\ Size < Wrap
      /\ r.head \in Nat /\ r.slot \in [Slots -> RingEntry \cup {Empty}]
      /\ r = [head |-> r.head, tail |-> r.tail, slot |-> r.slot]
  BY RingAssumption DEF Ring
<1>1. PICK u \in 0..Size : u = Used(r) /\ u # 0
  BY <1>0, TailPlace
<1>2. PICK i \in Slots : i = Mask(r.head) /\ i = Mask(r.head + 0)
  <2>1. 0 \in Slots /\ r.head + 0 = r.head
    BY <1>0 DEF Slots
  <2> QED BY <1>0, <2>1, Around
<1>3. First(r) = r.slot[i] /\ First(r) \in RingEntry
  <2>1. 0 \in Slots /\ 0 < u
    BY <1>0, <1>1 DEF Slots
  <2>2. r.slot[i] # Empty
    BY <1>1, <1>2, <2>1 DEF Window
  <2> QED BY <1>0, <1>2, <2>2 DEF First
<1>4. /\ q.head = (r.head + 1) % Wrap /\ q.tail = r.tail
      /\ q.slot = [r.slot EXCEPT ![i] = Empty]
      /\ q = [head |-> (r.head + 1) % Wrap, tail |-> r.tail, slot |-> [r.slot EXCEPT ![i] = Empty]]
  BY <1>0, <1>2 DEF Drop, Ring
<1>5. q \in Ring
  BY <1>0, <1>4, Moved DEF Ring
<1>6. Used(q) = u - 1
  BY <1>0, <1>1, <1>4, Moved DEF Used
<1>8. Window(q)
  <2> SUFFICES ASSUME NEW j \in Slots
               PROVE  q.slot[Mask(q.head + j)] # Empty <=> j < Used(q)
    BY DEF Window
  <2>0. Mask(q.head + j) = Mask(r.head + (j + 1)) /\ j \in Nat
    BY <1>4, Moved DEF Slots
  <2>1. CASE j + 1 = Size
    <3>1. Mask(r.head + Size) = Mask(r.head)
      <4>1. Size % Size = 0
        BY <1>0
      <4> QED BY <1>0, <4>1, AddMultiple DEF Mask
    <3>2. q.slot[Mask(q.head + j)] = Empty
      BY <1>0, <1>2, <1>4, <2>0, <2>1, <3>1
    <3>3. ~(j < Used(q))
      BY <1>0, <1>1, <1>6, <2>0, <2>1
    <3> QED BY <3>2, <3>3
  <2>2. CASE j + 1 # Size
    <3>1. j + 1 \in Slots /\ 0 \in Slots /\ j + 1 # 0
      BY <1>0, <2>2 DEF Slots
    <3>2. Mask(r.head + (j + 1)) # i /\ Mask(r.head + (j + 1)) \in Slots
      BY <1>0, <1>2, <3>1, Around
    <3>3. q.slot[Mask(q.head + j)] = r.slot[Mask(r.head + (j + 1))]
      BY <1>0, <1>4, <2>0, <3>2
    <3>4. j < Used(q) <=> j + 1 < u
      BY <1>6, <2>0
    <3> QED BY <1>1, <3>1, <3>3, <3>4 DEF Window
  <2> QED BY <2>1, <2>2
<1> QED BY <1>1, <1>3, <1>4, <1>5, <1>6, <1>8 DEF Taken

-----------------------------------------------------------------------------
(* The operation state                                                     *)

\* Only the entries of the operation itself matter.
LEMMA OpFrame ==
    ASSUME NEW s, NEW o, NEW h, NEW g, NEW p, NEW q, OpOk(s, o, h, p),
           IoOf(o) \in g <=> IoOf(o) \in h, CancelOf(o) \in g <=> CancelOf(o) \in h,
           o \in q <=> o \in p
    PROVE  OpOk(s, o, g, q)
BY DEF OpOk

\* start(), with or without a stop requested before.
LEMMA EngageOk ==
    ASSUME NEW s, NEW o, NEW h, NEW g, NEW p, OpOk(s, o, h, p), ~s.engaged,
           IoOf(o) \in g, CancelOf(o) \in g <=> o \in p
    PROVE  /\ o \in p => OpOk(Counted(Engaged(s)), o, g, p)
           /\ o \notin p => OpOk(Engaged(s), o, g, p)
<1>1. s = Fresh
  BY DEF OpOk
<1>2. /\ s \in OpState /\ s.cancelled = FALSE /\ s.result = "none" /\ s.outcome = <<>>
  BY <1>1 DEF OpOk, Fresh
<1>3. PICK e, c : e = Engaged(s) /\ c = Counted(e)
  OBVIOUS
<1>4. /\ e \in OpState /\ e.engaged = TRUE /\ e.outstanding = 1
      /\ e.cancelled = FALSE /\ e.result = "none" /\ e.outcome = <<>>
  <2>1. e = [s EXCEPT !.engaged = TRUE, !.outstanding = 1]
    BY <1>3 DEF Engaged
  <2>2. e \in OpState
    <3>1. 1 \in 0..2
      OBVIOUS
    <3>2. PICK b \in BOOLEAN, n \in 0..2 : b = TRUE /\ n = 1
      BY <3>1
    <3>3. [s EXCEPT !.engaged = b, !.outstanding = n] \in OpState
      BY <1>2 DEF OpState
    <3> QED BY <2>1, <3>2, <3>3
  <2>3. e.engaged = TRUE
    BY <1>2, <2>1 DEF OpState
  <2>4. e.outstanding = 1
    BY <1>2, <2>1 DEF OpState
  <2>5. e.cancelled = FALSE
    BY <1>2, <2>1 DEF OpState
  <2>6. e.result = "none" /\ e.outcome = <<>>
    BY <1>2, <2>1 DEF OpState
  <2> QED BY <2>2, <2>3, <2>4, <2>5, <2>6
<1>4a. /\ c \in OpState /\ c.engaged = TRUE /\ c.outstanding = 2
       /\ c.cancelled = FALSE /\ c.result = "none" /\ c.outcome = <<>>
  BY <1>3, <1>4 DEF Counted, OpState
<1>5. o \in p => OpOk(c, o, g, p)
  BY <1>4a DEF OpOk
<1>6. o \notin p => OpOk(e, o, g, p)
  BY <1>4 DEF OpOk
<1> QED BY <1>3, <1>5, <1>6

\* The functions of the operation state never disengage the stop callback, and
\* the stop callback does not complete the receiver.
LEMMA StaysEngaged ==
    ASSUME NEW s \in OpState
    PROVE  /\ Engaged(s) \in OpState /\ Engaged(s).engaged
           /\ s.outstanding # 2 => Counted(s) \in OpState
           /\ Engaged(s).outstanding = 1
           /\ Counted(s).engaged = s.engaged /\ Counted(s).outcome = s.outcome
           /\ \A r : Result(s, r).engaged = s.engaged
           /\ CancelResult(s).engaged = s.engaged
<1>1. Engaged(s) \in OpState /\ Engaged(s).engaged /\ Engaged(s).outstanding = 1
  <2>0. 1 \in 0..2
    OBVIOUS
  <2>1. PICK b \in BOOLEAN, n \in 0..2 : b = TRUE /\ n = 1
    BY <2>0
  <2>2. [s EXCEPT !.engaged = b, !.outstanding = n] \in OpState
    BY DEF OpState
  <2>3. Engaged(s) \in OpState
    BY <2>1, <2>2 DEF Engaged
  <2>4. Engaged(s).engaged /\ Engaged(s).outstanding = 1
    BY DEF OpState, Engaged
  <2> QED BY <2>3, <2>4
<1>2. Counted(s).engaged = s.engaged /\ Counted(s).outcome = s.outcome
  BY DEF OpState, Counted
<1>5. s.outstanding # 2 => Counted(s) \in OpState
  BY DEF OpState, Counted
<1>3. ASSUME NEW r PROVE Result(s, r).engaged = s.engaged
  BY DEF OpState, Result, Complete
<1>4. CancelResult(s).engaged = s.engaged
  BY DEF OpState, CancelResult, Complete
<1> QED BY <1>1, <1>2, <1>3, <1>4, <1>5

\* The stop callback runs before, during and after the operation: the
\* cancellation is submitted exactly when the operation is outstanding.
LEMMA StopOk ==
    ASSUME NEW s, NEW o, NEW h, NEW g, NEW p, NEW q, OpOk(s, o, h, p), o \notin p, o \in q,
           IoOf(o) \in g <=> IoOf(o) \in h,
           CancelOf(o) \in g <=> CancelOf(o) \in h \/ (s.engaged /\ Cancels(Counted(s)))
    PROVE  /\ ~s.engaged => OpOk(s, o, g, q)
           /\ s.engaged => OpOk(Counted(s), o, g, q)
           /\ CancelOf(o) \notin h
           /\ s.engaged /\ Cancels(Counted(s)) => IoOf(o) \in h
<1>1. CASE ~s.engaged
  BY <1>1 DEF OpOk
<1>2. CASE s.engaged
  <2>1. /\ s = [engaged |-> s.engaged, outstanding |-> s.outstanding, cancelled |-> s.cancelled,
                 result |-> s.result, outcome |-> s.outcome]
        /\ s.outstanding \in 0..2
    BY DEF OpOk, OpState
  <2>2. /\ Counted(s).engaged = s.engaged /\ Counted(s).cancelled = s.cancelled
        /\ Counted(s).result = s.result /\ Counted(s).outcome = s.outcome
        /\ Counted(s).outstanding = s.outstanding + 1
    BY <2>1 DEF Counted
  <2>3. s.outstanding <= 1
    BY <1>2, <2>1 DEF OpOk
  <2>4. Counted(s) \in OpState
    <3>1. s.outstanding + 1 \in 0..2
      BY <2>1, <2>3
    <3> QED BY <2>1, <3>1 DEF Counted, OpOk, OpState
  <2>5. CASE s.outcome = <<>>
    <3>1. IoOf(o) \in h /\ CancelOf(o) \notin h /\ s.outstanding = 1
      BY <1>2, <2>5 DEF OpOk
    <3>2. Cancels(Counted(s))
      BY <2>2, <3>1 DEF Cancels
    <3>3. OpOk(Counted(s), o, g, q)
      BY <1>2, <2>2, <2>4, <2>5, <3>1, <3>2 DEF OpOk
    <3> QED BY <1>2, <3>1, <3>3
  <2>6. CASE s.outcome # <<>>
    <3>1. CancelOf(o) \notin h /\ s.outstanding = 0
      BY <1>2, <2>6 DEF OpOk
    <3>2. ~Cancels(Counted(s))
      BY <2>2, <3>1 DEF Cancels
    <3>3. OpOk(Counted(s), o, g, q)
      BY <1>2, <2>2, <2>4, <2>6, <3>1, <3>2 DEF OpOk
    <3> QED BY <1>2, <3>1, <3>2, <3>3
  <2> QED BY <2>5, <2>6
<1> QED BY <1>1, <1>2

\* What a result makes of the state: it completes the receiver or not.
LEMMA Completing ==
    ASSUME NEW t, t \in [engaged : BOOLEAN, outstanding : 0..2, cancelled : BOOLEAN,
                          result : Results \cup {"none", "ECANCELED"},
                          outcome : Seq({"value", "error", "stopped"})],
           t.outcome = <<>>, NEW how \in {"value", "error", "stopped"}
    PROVE  /\ Complete(t, how) \in OpState
           /\ Complete(t, how).outcome = <<how>>
           /\ Complete(t, how).engaged = t.engaged
           /\ Complete(t, how).outstanding = t.outstanding
           /\ Complete(t, how).cancelled = t.cancelled
           /\ Complete(t, how).result = t.result
<1>1. Append(t.outcome, how) = <<how>> /\ <<how>> \in Seq({"value", "error", "stopped"})
  OBVIOUS
<1> QED BY <1>1 DEF Complete, OpState

\* The operation gets its result, before or after its cancellation.
LEMMA ResultOk ==
    ASSUME NEW s, NEW o, NEW h, NEW g, NEW p, OpOk(s, o, h, p), IoOf(o) \in h,
           IoOf(o) \notin g, CancelOf(o) \in g <=> CancelOf(o) \in h,
           NEW r \in Results \cup {"ECANCELED"},
           r = "ECANCELED" => CancelOf(o) \in h \/ s.cancelled
    PROVE  OpOk(Result(s, r), o, g, p) /\ Result(s, r).cancelled = s.cancelled
<1>1. s.engaged /\ s.outcome = <<>> /\ s \in OpState
  BY DEF OpOk
<1>2. PICK t : t = [s EXCEPT !.result = r, !.outstanding = @ - 1]
  OBVIOUS
<1>3. s.outstanding \in 1..2
  BY <1>1 DEF OpOk
<1>4. /\ t \in OpState /\ t.engaged = TRUE /\ t.outcome = <<>> /\ t.result = r
      /\ t.cancelled = s.cancelled /\ t.outstanding = s.outstanding - 1
  <2>1. s.outstanding - 1 \in 0..2
    BY <1>3
  <2> QED BY <1>1, <1>2, <2>1 DEF OpState
<1>5. CASE CancelOf(o) \in h
  <2>1. t.outstanding = 1
    BY <1>1, <1>4, <1>5 DEF OpOk
  <2>2. Result(s, r) = t
    BY <1>2, <2>1 DEF Result
  <2>3. r # "none"
    BY DEF Results
  <2> QED BY <1>1, <1>4, <1>5, <2>1, <2>2, <2>3 DEF OpOk
<1>6. CASE CancelOf(o) \notin h
  <2>1. t.outstanding = 0
    BY <1>1, <1>4, <1>6 DEF OpOk
  <2>2. PICK how \in {"value", "error", "stopped"} :
          how = IF r = "value" THEN "value" ELSE IF t.cancelled THEN "stopped" ELSE "error"
    OBVIOUS
  <2>3. Result(s, r) = Complete(t, how)
    BY <1>2, <2>1, <2>2 DEF Result
  <2>4. /\ Complete(t, how) \in OpState
        /\ Complete(t, how).outcome = <<how>>
        /\ Complete(t, how).engaged = t.engaged
        /\ Complete(t, how).outstanding = t.outstanding
        /\ Complete(t, how).cancelled = t.cancelled
        /\ Complete(t, how).result = t.result
    BY <1>4, Completing DEF OpState
  <2>5. <<how>> # <<>> /\ Len(<<how>>) = 1 /\ <<how>>[1] = how
    OBVIOUS
  <2>6. s.cancelled => o \in p
    BY <1>1 DEF OpOk
  <2>7. /\ how = "value" <=> r = "value"
        /\ how = "stopped" => t.cancelled
        /\ how = "error" => r = "errno" /\ ~t.cancelled
    BY <1>4, <1>6, <2>2 DEF Results
  <2> QED BY <1>4, <1>6, <2>1, <2>3, <2>4, <2>5, <2>6, <2>7 DEF OpOk
<1> QED BY <1>5, <1>6

\* The cancellation gets its result, before or after the operation.
LEMMA CancelOk ==
    ASSUME NEW s, NEW o, NEW h, NEW g, NEW p, OpOk(s, o, h, p), CancelOf(o) \in h,
           CancelOf(o) \notin g, IoOf(o) \in g <=> IoOf(o) \in h
    PROVE  OpOk(CancelResult(s), o, g, p) /\ CancelResult(s).cancelled
<1>1. s.engaged /\ s.outcome = <<>> /\ s \in OpState
  BY DEF OpOk
<1>2. PICK t : t = [s EXCEPT !.cancelled = TRUE, !.outstanding = @ - 1]
  OBVIOUS
<1>3. s.outstanding \in 1..2 /\ o \in p
  BY <1>1 DEF OpOk
<1>4. /\ t \in OpState /\ t.engaged = TRUE /\ t.outcome = <<>> /\ t.result = s.result
      /\ t.cancelled = TRUE /\ t.outstanding = s.outstanding - 1
  <2>1. s.outstanding - 1 \in 0..2
    BY <1>3
  <2> QED BY <1>1, <1>2, <2>1 DEF OpState
<1>5. CASE IoOf(o) \in h
  <2>1. t.outstanding = 1
    BY <1>1, <1>4, <1>5 DEF OpOk
  <2>2. CancelResult(s) = t
    BY <1>2, <2>1 DEF CancelResult
  <2> QED BY <1>1, <1>3, <1>4, <1>5, <2>1, <2>2 DEF OpOk
<1>6. CASE IoOf(o) \notin h
  <2>1. t.outstanding = 0
    BY <1>1, <1>4, <1>6 DEF OpOk
  <2>2. PICK how \in {"value", "error", "stopped"} :
          how = IF t.result = "value" THEN "value" ELSE "stopped"
    OBVIOUS
  <2>3. CancelResult(s) = Complete(t, how)
    BY <1>2, <2>1, <2>2 DEF CancelResult
  <2>4. /\ Complete(t, how) \in OpState
        /\ Complete(t, how).outcome = <<how>>
        /\ Complete(t, how).engaged = t.engaged
        /\ Complete(t, how).outstanding = t.outstanding
        /\ Complete(t, how).cancelled = t.cancelled
        /\ Complete(t, how).result = t.result
    BY <1>4, Completing DEF OpState
  <2>5. <<how>> # <<>> /\ Len(<<how>>) = 1 /\ <<how>>[1] = how
    OBVIOUS
  <2>6. how = "value" <=> t.result = "value"
    BY <2>2
  <2>7. how # "error"
    BY <2>2
  <2> QED BY <1>3, <1>4, <1>6, <2>1, <2>3, <2>4, <2>5, <2>6, <2>7 DEF OpOk
<1> QED BY <1>5, <1>6

\* The state is destroyed when nothing is held for it, and fresh again.
LEMMA DestroyOk ==
    ASSUME NEW s, NEW o, NEW h, NEW p, NEW q, OpOk(s, o, h, p), s.outcome # <<>>
    PROVE  OpOk(Fresh, o, h, q)
<1>1. IoOf(o) \notin h /\ CancelOf(o) \notin h
  BY DEF OpOk
<1>2. Fresh \in OpState
  BY DEF Fresh, OpState
<1> QED BY <1>1, <1>2 DEF OpOk, Fresh

-----------------------------------------------------------------------------
(* The lists of a context                                                  *)

\* r is c with e put at position k, and c without position k.
Inserted(r, c, k, e) ==
    /\ Len(r) = Len(c) + 1
    /\ \A i \in 1..(Len(c) + 1) :
         r[i] = IF i < k THEN c[i] ELSE IF i = k THEN e ELSE c[i - 1]
Removed(r, c, k) ==
    /\ Len(r) = Len(c) - 1
    /\ \A i \in 1..(Len(c) - 1) : r[i] = IF i < k THEN c[i] ELSE c[i + 1]

\* The elements of a sequence.
LEMMA Elements ==
    ASSUME NEW S, NEW s \in Seq(S)
    PROVE  /\ Len(s) \in Nat /\ ToSet(s) \subseteq S
           /\ \A e : e \in ToSet(s) <=> \E i \in 1..Len(s) : s[i] = e
           /\ \A i \in 1..Len(s) : s[i] \in S /\ s[i] \in ToSet(s)
BY DEF ToSet

\* A sequence of different elements with one more.
LEMMA InsertedFacts ==
    ASSUME NEW S, NEW c \in Seq(S), NEW r \in Seq(S), NEW e, NEW k \in 1..(Len(c) + 1),
           Inserted(r, c, k, e), Distinct(c), e \notin ToSet(c)
    PROVE  ToSet(r) = ToSet(c) \cup {e} /\ Distinct(r)
<1>0. Len(c) \in Nat /\ Len(r) = Len(c) + 1
  BY DEF Inserted
<1>1. ASSUME NEW i \in 1..Len(r), i # k
      PROVE  \E j \in 1..Len(c) : r[i] = c[j] /\ j = IF i < k THEN i ELSE i - 1
  BY <1>0, <1>1 DEF Inserted
<1>2. k \in 1..Len(r) /\ r[k] = e
  BY <1>0 DEF Inserted
<1>3. ASSUME NEW j \in 1..Len(c) PROVE \E i \in 1..Len(r) : r[i] = c[j]
  <2>1. CASE j < k
    <3>1. j \in 1..Len(r) /\ r[j] = c[j]
      BY <1>0, <2>1 DEF Inserted
    <3> QED BY <3>1
  <2>2. CASE ~(j < k)
    <3>1. j + 1 \in 1..Len(r) /\ ~(j + 1 < k) /\ j + 1 # k /\ (j + 1) - 1 = j
      BY <1>0, <2>2
    <3>2. r[j + 1] = c[j]
      BY <1>0, <3>1 DEF Inserted
    <3> QED BY <3>1, <3>2
  <2> QED BY <2>1, <2>2
<1>4. ToSet(r) = ToSet(c) \cup {e}
  <2>1. ASSUME NEW x, x \in ToSet(r) PROVE x \in ToSet(c) \cup {e}
    <3>1. PICK i \in 1..Len(r) : r[i] = x
      BY <2>1, Elements
    <3> QED BY <1>1, <1>2, <3>1, Elements
  <2>2. ASSUME NEW x, x \in ToSet(c) PROVE x \in ToSet(r)
    <3>1. PICK j \in 1..Len(c) : c[j] = x
      BY <2>2, Elements
    <3>2. PICK i \in 1..Len(r) : r[i] = c[j]
      BY <1>3
    <3> QED BY <3>1, <3>2, Elements
  <2>3. e \in ToSet(r)
    BY <1>2, Elements
  <2> QED BY <2>1, <2>2, <2>3
<1>5. Distinct(r)
  <2> SUFFICES ASSUME NEW i \in 1..Len(r), NEW j \in 1..Len(r), r[i] = r[j] PROVE i = j
    BY DEF Distinct
  <2>1. CASE i = k \/ j = k
    BY <1>1, <1>2, <2>1, Elements
  <2>2. CASE i # k /\ j # k
    <3>1. PICK p \in 1..Len(c) : r[i] = c[p] /\ p = IF i < k THEN i ELSE i - 1
      BY <1>1, <2>2
    <3>2. PICK q \in 1..Len(c) : r[j] = c[q] /\ q = IF j < k THEN j ELSE j - 1
      BY <1>1, <2>2
    <3>3. p = q
      BY <3>1, <3>2 DEF Distinct
    <3> QED BY <2>2, <3>1, <3>2, <3>3
  <2> QED BY <2>1, <2>2
<1> QED BY <1>4, <1>5

\* A sequence of different elements with one less.
LEMMA RemovedFacts ==
    ASSUME NEW S, NEW c \in Seq(S), NEW r \in Seq(S), NEW k \in 1..Len(c),
           Removed(r, c, k), Distinct(c)
    PROVE  ToSet(r) = ToSet(c) \ {c[k]} /\ Distinct(r)
<1>0. Len(c) \in Nat /\ Len(r) = Len(c) - 1
  BY DEF Removed
<1>1. ASSUME NEW i \in 1..Len(r)
      PROVE  \E j \in 1..Len(c) : r[i] = c[j] /\ j # k /\ j = IF i < k THEN i ELSE i + 1
  BY <1>0 DEF Removed
<1>3. ASSUME NEW j \in 1..Len(c), j # k PROVE \E i \in 1..Len(r) : r[i] = c[j]
  <2>1. CASE j < k
    <3>1. j \in 1..Len(r) /\ r[j] = c[j]
      BY <1>0, <2>1 DEF Removed
    <3> QED BY <3>1
  <2>2. CASE j > k
    <3>1. j - 1 \in 1..Len(r) /\ ~(j - 1 < k) /\ (j - 1) + 1 = j
      BY <1>0, <2>2
    <3>2. r[j - 1] = c[j]
      BY <1>0, <3>1 DEF Removed
    <3> QED BY <3>1, <3>2
  <2> QED BY <1>3, <2>1, <2>2
<1>4. ASSUME NEW x, x \in ToSet(r) PROVE x \in ToSet(c) /\ x # c[k]
  <2>1. PICK i \in 1..Len(r) : r[i] = x
    BY <1>4, Elements
  <2>2. PICK j \in 1..Len(c) : c[j] = x /\ j # k
    BY <1>1, <2>1
  <2> QED BY <2>2, Elements DEF Distinct
<1>5. ASSUME NEW x, x \in ToSet(c), x # c[k] PROVE x \in ToSet(r)
  <2>1. PICK j \in 1..Len(c) : c[j] = x
    BY <1>5, Elements
  <2> QED BY <1>3, <1>5, <2>1, Elements
<1>6. Distinct(r)
  <2> SUFFICES ASSUME NEW i \in 1..Len(r), NEW j \in 1..Len(r), r[i] = r[j] PROVE i = j
    BY DEF Distinct
  <2>1. PICK p \in 1..Len(c) : r[i] = c[p] /\ p = IF i < k THEN i ELSE i + 1
    BY <1>1
  <2>2. PICK q \in 1..Len(c) : r[j] = c[q] /\ q = IF j < k THEN j ELSE j + 1
    BY <1>1
  <2>3. p = q
    BY <2>1, <2>2 DEF Distinct
  <2> QED BY <2>1, <2>2, <2>3
<1> QED BY <1>4, <1>5, <1>6

\* The order is kept when an element is taken out.
LEMMA RemovedBehind ==
    ASSUME NEW S, NEW c \in Seq(S), NEW r \in Seq(S), NEW k \in 1..Len(c),
           Removed(r, c, k), Behind(c)
    PROVE  Behind(r)
<1>0. Len(c) \in Nat /\ Len(r) = Len(c) - 1
  BY DEF Removed
<1> SUFFICES ASSUME NEW i \in 1..Len(r), NEW j \in 1..Len(r), i < j, r[i].kind \in Scheduled
             PROVE  r[j].kind \in Scheduled
  BY DEF Behind
<1>1. PICK p \in 1..Len(c) : r[i] = c[p] /\ p = IF i < k THEN i ELSE i + 1
  BY <1>0 DEF Removed
<1>2. PICK q \in 1..Len(c) : r[j] = c[q] /\ q = IF j < k THEN j ELSE j + 1
  BY <1>0 DEF Removed
<1>3. p < q
  BY <1>1, <1>2
<1> QED BY <1>1, <1>2, <1>3 DEF Behind

\* submit_io() keeps it.
LEMMA SubmitIoFacts ==
    ASSUME NEW c \in Seq(PollEntry), Distinct(c), Behind(c), NEW e \in PollEntry, e \notin ToSet(c),
           NEW r, r = SubmitIo(c, e)
    PROVE  /\ r \in Seq(PollEntry) /\ Distinct(r) /\ Behind(r)
           /\ ToSet(r) = ToSet(c) \cup {e}
<1>0. Len(c) \in Nat /\ \A i \in 1..Len(c) : c[i] \in PollEntry
  OBVIOUS
<1>1. CASE e.kind \in Scheduled
  <2>1. r = Append(c, e)
    BY <1>1 DEF SubmitIo
  <2>2. /\ r \in Seq(PollEntry) /\ Len(r) = Len(c) + 1 /\ r[Len(c) + 1] = e
        /\ \A i \in 1..Len(c) : r[i] = c[i]
    BY <2>1
  <2>3. PICK k \in 1..(Len(c) + 1) : k = Len(c) + 1
    BY <1>0
  <2>4. Inserted(r, c, k, e)
    BY <1>0, <2>2, <2>3 DEF Inserted
  <2>5. Behind(r)
    <3> SUFFICES ASSUME NEW i \in 1..Len(r), NEW j \in 1..Len(r), i < j, r[i].kind \in Scheduled
                 PROVE  r[j].kind \in Scheduled
      BY DEF Behind
    <3>1. CASE j = Len(c) + 1
      BY <1>1, <2>2, <3>1
    <3>2. CASE j # Len(c) + 1
      <4>1. i \in 1..Len(c) /\ j \in 1..Len(c)
        BY <1>0, <2>2, <3>2
      <4> QED BY <2>2, <4>1 DEF Behind
    <3> QED BY <3>1, <3>2
  <2> QED BY <2>2, <2>4, <2>5, InsertedFacts
<1>2. CASE e.kind \notin Scheduled
  <2>1. r = <<e>> \o c
    BY <1>2 DEF SubmitIo
  <2>2. /\ r \in Seq(PollEntry) /\ Len(r) = Len(c) + 1 /\ r[1] = e
        /\ \A i \in 2..(Len(c) + 1) : r[i] = c[i - 1]
    BY <2>1
  <2>3. PICK k \in 1..(Len(c) + 1) : k = 1
    BY <1>0
  <2>4. Inserted(r, c, k, e)
    BY <1>0, <2>2, <2>3 DEF Inserted
  <2>5. Behind(r)
    <3> SUFFICES ASSUME NEW i \in 1..Len(r), NEW j \in 1..Len(r), i < j, r[i].kind \in Scheduled
                 PROVE  r[j].kind \in Scheduled
      BY DEF Behind
    <3>1. i # 1
      BY <1>2, <2>2
    <3>2. i - 1 \in 1..Len(c) /\ j - 1 \in 1..Len(c) /\ i - 1 < j - 1
      BY <1>0, <2>2, <3>1
    <3>3. r[i] = c[i - 1] /\ r[j] = c[j - 1]
      BY <1>0, <2>2, <3>1
    <3> QED BY <3>2, <3>3 DEF Behind
  <2> QED BY <2>2, <2>4, <2>5, InsertedFacts
<1> QED BY <1>1, <1>2

\* Taking out the first element.
LEMMA TailFacts ==
    ASSUME NEW S, NEW c \in Seq(S), c # <<>>
    PROVE  /\ Tail(c) \in Seq(S) /\ Removed(Tail(c), c, 1) /\ 1 \in 1..Len(c) /\ c[1] = Head(c)
BY DEF Removed

\* Taking out the last element.
LEMMA FrontFacts ==
    ASSUME NEW S, NEW c \in Seq(S), c # <<>>
    PROVE  /\ Front(c) \in Seq(S) /\ Removed(Front(c), c, Len(c))
           /\ Len(c) \in 1..Len(c) /\ c[Len(c)] = Last(c)
<1>1. Len(c) \in Nat /\ Len(c) # 0 /\ c[Len(c)] = Last(c)
  BY DEF Last
<1>1a. PICK n \in 1..Len(c) : n = Len(c)
  BY <1>1
<1>2. PICK r : r = SubSeq(c, 1, n - 1)
  OBVIOUS
<1>3. r \in Seq(S) /\ Len(r) = n - 1 /\ \A i \in 1..(n - 1) : r[i] = c[i]
  BY <1>2
<1>4. Removed(r, c, Len(c))
  BY <1>1, <1>1a, <1>3 DEF Removed
<1>5. Front(c) = r
  BY <1>1a, <1>2 DEF Front
<1> QED BY <1>1, <1>3, <1>4, <1>5

\* Taking out a given element.
LEMMA RemoveFirstFacts ==
    ASSUME NEW S, NEW c \in Seq(S), NEW k \in 1..Len(c), Distinct(c)
    PROVE  RemoveFirst(c, c[k]) \in Seq(S) /\ Removed(RemoveFirst(c, c[k]), c, k)
<1> DEFINE I == {i \in 1..Len(c) : c[i] = c[k]}
           r == RemoveFirst(c, c[k])
           a == SubSeq(c, 1, k - 1)
           b == SubSeq(c, k + 1, Len(c))
<1>1. I = {k}
  BY DEF Distinct
<1>2. Min(I) = k
  BY <1>1 DEF Min
<1>3. SelectInSeq(c, LAMBDA v : v = c[k]) = Min(I)
  BY <1>1 DEF SelectInSeq
<1>4. r = RemoveAt(c, SelectInSeq(c, LAMBDA v : v = c[k]))
  BY DEF RemoveFirst
<1>5. r = a \o b
  BY <1>2, <1>3, <1>4 DEF RemoveAt
<1>6. a \in Seq(S) /\ Len(a) = k - 1 /\ \A i \in 1..(k - 1) : a[i] = c[i]
  OBVIOUS
<1>7. /\ b \in Seq(S) /\ Len(b) = Len(c) - k
      /\ \A i \in 1..(Len(c) - k) : b[i] = c[i + k]
  OBVIOUS
<1> HIDE DEF r, a, b, I
<1>8. r \in Seq(S) /\ Len(r) = Len(c) - 1
  <2>1. r \in Seq(S) /\ Len(r) = Len(a) + Len(b)
    BY <1>5, <1>6, <1>7, ConcatProperties
  <2>2. (k - 1) + (Len(c) - k) = Len(c) - 1
    OBVIOUS
  <2> QED BY <1>6, <1>7, <2>1, <2>2
<1>9. ASSUME NEW i \in 1..(Len(c) - 1)
      PROVE  r[i] = IF i < k THEN c[i] ELSE c[i + 1]
  <2>1. CASE i < k
    BY <1>5, <1>6, <1>7, <2>1
  <2>2. CASE ~(i < k)
    <3>1. r[i] = b[i - (k - 1)] /\ i - (k - 1) \in 1..(Len(c) - k)
      BY <1>5, <1>6, <1>7, <2>2
    <3>2. (i - (k - 1)) + k = i + 1
      OBVIOUS
    <3> QED BY <1>7, <2>2, <3>1, <3>2
  <2> QED BY <2>1, <2>2
<1>10. r \in Seq(S) /\ Removed(r, c, k)
  BY <1>8, <1>9 DEF Removed
<1> QED BY <1>10 DEF r

\* Nothing is taken out when the element is not there.
LEMMA RemoveNothing ==
    ASSUME NEW S, NEW c \in Seq(S), NEW e, e \notin ToSet(c)
    PROVE  RemoveFirst(c, e) = c
<1>1. ~\E i \in 1..Len(c) : c[i] = e
  BY Elements
<1> QED BY <1>1 DEF RemoveFirst

\* A list of the context without an element.
LEMMA RemoveFacts ==
    ASSUME NEW c \in Seq(PollEntry), Distinct(c), Behind(c), NEW e, NEW r, r = RemoveFirst(c, e)
    PROVE  /\ r \in Seq(PollEntry) /\ Distinct(r) /\ Behind(r)
           /\ ToSet(r) = ToSet(c) \ {e}
<1>1. CASE e \notin ToSet(c)
  BY <1>1, RemoveNothing
<1>2. CASE e \in ToSet(c)
  <2>1. PICK k \in 1..Len(c) : c[k] = e
    BY <1>2, Elements
  <2>2. r \in Seq(PollEntry) /\ Removed(r, c, k)
    BY <2>1, RemoveFirstFacts
  <2> QED BY <2>1, <2>2, RemovedFacts, RemovedBehind
<1> QED BY <1>1, <1>2

\* A list of the context without its last element.
LEMMA PopFacts ==
    ASSUME NEW c \in Seq(PollEntry), Distinct(c), Behind(c), c # <<>>, NEW r, r = Front(c)
    PROVE  /\ r \in Seq(PollEntry) /\ Distinct(r) /\ Behind(r)
           /\ ToSet(r) = ToSet(c) \ {Last(c)} /\ Last(c) \in ToSet(c)
<1>1. /\ r \in Seq(PollEntry) /\ Removed(r, c, Len(c))
      /\ Len(c) \in 1..Len(c) /\ c[Len(c)] = Last(c)
  BY FrontFacts
<1>2. PICK k \in 1..Len(c) : k = Len(c)
  BY <1>1
<1>3. ToSet(r) = ToSet(c) \ {c[k]} /\ Distinct(r) /\ Behind(r)
  BY <1>1, <1>2, RemovedFacts, RemovedBehind
<1> QED BY <1>1, <1>2, <1>3, Elements

\* The earliest timer is taken.
LEMMA TimerPopFacts ==
    ASSUME NEW c \in Seq(TimerEntry), Distinct(c), c # <<>>
    PROVE  /\ Tail(c) \in Seq(TimerEntry) /\ Distinct(Tail(c))
           /\ ToSet(Tail(c)) = ToSet(c) \ {Head(c)} /\ Head(c) \in ToSet(c)
<1>1. /\ Tail(c) \in Seq(TimerEntry) /\ Removed(Tail(c), c, 1)
      /\ 1 \in 1..Len(c) /\ c[1] = Head(c)
  BY TailFacts
<1>2. PICK k \in 1..Len(c) : k = 1
  BY <1>1
<1>3. PICK r : r = Tail(c)
  OBVIOUS
<1>4. ToSet(r) = ToSet(c) \ {c[k]} /\ Distinct(r)
  <2>1. r \in Seq(TimerEntry) /\ Removed(r, c, k)
    BY <1>1, <1>2, <1>3
  <2> QED BY <2>1, RemovedFacts
<1> QED BY <1>1, <1>2, <1>3, <1>4, Elements

\* A timer is added at its place.
LEMMA TimerPushFacts ==
    ASSUME NEW c \in Seq(TimerEntry), Distinct(c), NEW e \in TimerEntry, e \notin ToSet(c),
           NEW k \in 1..(Len(c) + 1), NEW r, r = InsertAt(c, k, e)
    PROVE  r \in Seq(TimerEntry) /\ Distinct(r) /\ ToSet(r) = ToSet(c) \cup {e}
<1>1. r \in Seq(TimerEntry) /\ Inserted(r, c, k, e)
  <2>0. Len(c) \in Nat
    OBVIOUS
  <2>1. PICK a : a = SubSeq(c, 1, k - 1)
    OBVIOUS
  <2>2. PICK b : b = SubSeq(c, k, Len(c))
    OBVIOUS
  <2>3. a \in Seq(TimerEntry) /\ Len(a) = k - 1 /\ \A i \in 1..(k - 1) : a[i] = c[i]
    BY <2>0, <2>1
  <2>4. /\ b \in Seq(TimerEntry) /\ Len(b) = (Len(c) - k) + 1
        /\ \A i \in 1..((Len(c) - k) + 1) : b[i] = c[(i + k) - 1]
    BY <2>0, <2>2
  <2>5. PICK d : d = a \o <<e>>
    OBVIOUS
  <2>6. /\ d \in Seq(TimerEntry) /\ Len(d) = k /\ d[k] = e
        /\ \A i \in 1..(k - 1) : d[i] = c[i]
    BY <2>3, <2>5
  <2>7. r = d \o b
    BY <2>1, <2>2, <2>5 DEF InsertAt
  <2>8. r \in Seq(TimerEntry) /\ Len(r) = Len(c) + 1
    <3>1. r \in Seq(TimerEntry) /\ Len(r) = Len(d) + Len(b)
      <4>1. d \in Seq(TimerEntry) /\ b \in Seq(TimerEntry)
        BY <2>4, <2>6
      <4>2. d \o b \in Seq(TimerEntry) /\ Len(d \o b) = Len(d) + Len(b)
        BY <4>1, ConcatProperties
      <4> QED BY <2>7, <4>2
    <3>2. k + ((Len(c) - k) + 1) = Len(c) + 1
      BY <2>0
    <3> QED BY <2>4, <2>6, <3>1, <3>2
  <2>9. ASSUME NEW i \in 1..(Len(c) + 1)
        PROVE  r[i] = IF i < k THEN c[i] ELSE IF i = k THEN e ELSE c[i - 1]
    <3>1. CASE i <= k
      BY <2>4, <2>6, <2>7, <3>1
    <3>2. CASE i > k
      <4>1. PICK j \in 1..((Len(c) - k) + 1) : j = i - k
        BY <2>0, <3>2
      <4>2. r[i] = b[j] /\ (j + k) - 1 = i - 1
        BY <2>0, <2>4, <2>6, <2>7, <3>2, <4>1
      <4> QED BY <2>4, <3>2, <4>1, <4>2
    <3> QED BY <3>1, <3>2
  <2> QED BY <2>8, <2>9 DEF Inserted
<1> QED BY <1>1, InsertedFacts

-----------------------------------------------------------------------------
(* What is held                                                            *)

\* The entries of the operations and waits.
LEMMA EntryFacts ==
    /\ \A o \in Ops : /\ IoOf(o) \in PollEntry /\ CancelOf(o) \in PollEntry
                      /\ IoOf(o) \in RingEntry /\ CancelOf(o) \in RingEntry
    /\ \A w \in Waits : NopOf(w) \in PollEntry /\ TimerOf(w) \in TimerEntry /\ TimerOf(w) \in RingEntry
    /\ \A o : IoOf(o).kind = "io" /\ CancelOf(o).kind = "cancel" /\ NopOf(o).kind = "nop"
             /\ TimerOf(o).kind = "timer"
    /\ \A o : IoOf(o).of = o /\ CancelOf(o).of = o /\ NopOf(o).of = o /\ TimerOf(o).of = o
    /\ \A e \in PollEntry \cup RingEntry :
         /\ e.kind = "io" => e = IoOf(e.of) /\ e.of \in Ops
         /\ e.kind = "cancel" => e = CancelOf(e.of) /\ e.of \in Ops
         /\ e.kind = "nop" => e = NopOf(e.of) /\ e.of \in Waits
         /\ e.kind = "timer" => e = TimerOf(e.of) /\ e.of \in Waits
         /\ e.kind \in {"io", "cancel", "nop", "timer"}
    /\ \A e \in PollEntry : e.kind \in {"io", "cancel", "nop"}
    /\ \A e \in TimerEntry : e.kind = "timer" /\ e = TimerOf(e.of) /\ e.of \in Waits
BY DEF PollEntry, TimerEntry, RingEntry, IoOf, CancelOf, NopOf, TimerOf

\* A step changes one operation and what is held for it.
LEMMA OpChange ==
    ASSUME IInv, NEW o \in Ops, NEW x, OpOk(x, o, Held', Heard'),
           \A e : e \notin {IoOf(o), CancelOf(o)} => (e \in Held' <=> e \in Held),
           \A u \in Ops : u # o => (u \in Heard' <=> u \in Heard),
           st' = [st EXCEPT ![o] = x], wait' = wait
    PROVE  OpsOk' /\ st' \in [Ops -> OpState]
<1>1. st \in [Ops -> OpState] /\ x \in OpState
  BY DEF IInv, IoTypes, OpOk
<1>2. ASSUME NEW u \in Ops PROVE OpOk(st'[u], u, Held', Heard')
  <2>1. CASE u = o
    BY <1>1, <2>1
  <2>2. CASE u # o
    <3>1. IoOf(u) \notin {IoOf(o), CancelOf(o)} /\ CancelOf(u) \notin {IoOf(o), CancelOf(o)}
      BY <2>2 DEF IoOf, CancelOf
    <3>2. OpOk(st[u], u, Held, Heard) /\ st'[u] = st[u]
      BY <1>1, <2>2 DEF IInv, OpsOk
    <3>3. OpOk(st[u], u, Held', Heard')
      BY <2>2, <3>1, <3>2, OpFrame
    <3> QED BY <3>2, <3>3
  <2> QED BY <2>1, <2>2
<1>3. ASSUME NEW w \in Waits PROVE WaitOk(wait'[w], w, Held')
  <2>1. NopOf(w) \notin {IoOf(o), CancelOf(o)} /\ TimerOf(w) \notin {IoOf(o), CancelOf(o)}
    BY DEF IoOf, CancelOf, NopOf, TimerOf
  <2>2. WaitOk(wait[w], w, Held)
    BY DEF IInv, OpsOk
  <2> QED BY <2>1, <2>2 DEF WaitOk
<1>4. OpsOk'
  BY <1>2, <1>3 DEF OpsOk
<1> QED BY <1>1, <1>4

\* A step changes one wait and what is held for it.
LEMMA WaitChange ==
    ASSUME IInv, NEW w \in Waits, NEW how \in {"idle", "queued"}, WaitOk(how, w, Held'),
           \A e : e \notin {NopOf(w), TimerOf(w)} => (e \in Held' <=> e \in Held),
           st' = st, Heard' = Heard, wait' = [wait EXCEPT ![w] = how]
    PROVE  OpsOk' /\ wait' \in [Waits -> {"idle", "queued"}]
<1>1. wait \in [Waits -> {"idle", "queued"}]
  BY DEF IInv, IoTypes
<1>2. ASSUME NEW v \in Waits PROVE WaitOk(wait'[v], v, Held')
  <2>1. CASE v = w
    BY <1>1, <2>1
  <2>2. CASE v # w
    <3>1. NopOf(v) \notin {NopOf(w), TimerOf(w)} /\ TimerOf(v) \notin {NopOf(w), TimerOf(w)}
      BY <2>2 DEF NopOf, TimerOf
    <3>2. WaitOk(wait[v], v, Held) /\ wait'[v] = wait[v]
      BY <1>1, <2>2 DEF IInv, OpsOk
    <3> QED BY <3>1, <3>2 DEF WaitOk
  <2> QED BY <2>1, <2>2
<1>3. ASSUME NEW u \in Ops PROVE OpOk(st'[u], u, Held', Heard')
  <2>1. IoOf(u) \notin {NopOf(w), TimerOf(w)} /\ CancelOf(u) \notin {NopOf(w), TimerOf(w)}
    BY DEF IoOf, CancelOf, NopOf, TimerOf
  <2>2. OpOk(st[u], u, Held, Heard)
    BY DEF IInv, OpsOk
  <2> QED BY <2>1, <2>2, OpFrame
<1>4. OpsOk'
  BY <1>2, <1>3 DEF OpsOk
<1> QED BY <1>1, <1>4

\* A step changes neither.
LEMMA NoChange ==
    ASSUME IInv, \A e : e \in Held' <=> e \in Held,
           st' = st, Heard' = Heard, wait' = wait
    PROVE  OpsOk'
<1>1. ASSUME NEW u \in Ops PROVE OpOk(st'[u], u, Held', Heard')
  <2>1. OpOk(st[u], u, Held, Heard)
    BY DEF IInv, OpsOk
  <2> QED BY <2>1, OpFrame
<1>2. ASSUME NEW w \in Waits PROVE WaitOk(wait'[w], w, Held')
  <2>1. WaitOk(wait[w], w, Held)
    BY DEF IInv, OpsOk
  <2> QED BY <2>1 DEF WaitOk
<1> QED BY <1>1, <1>2 DEF OpsOk

-----------------------------------------------------------------------------
(* The steps of poll_context                                               *)

\* With poll_context only the list and the timers hold anything.
LEMMA PollHeld ==
    /\ RingInit => \A e : e \in Held <=> e \in ToSet(ops) \/ e \in ToSet(timers)
    /\ RingInit' => \A e : e \in Held' <=> e \in ToSet(ops') \/ e \in ToSet(timers')
<1>1. RingInit => \A e : e \in Held <=> e \in ToSet(ops) \/ e \in ToSet(timers)
  <2> SUFFICES ASSUME RingInit PROVE \A e : e \in Held <=> e \in ToSet(ops) \/ e \in ToSet(timers)
    OBVIOUS
  <2>1. SqEntries = {}
    BY DEF RingInit, SqEntries
  <2>2. CqEntries = {} /\ kernel = {}
    BY DEF RingInit, CqEntries
  <2>3. UNION {ToSet(todo[a]) : a \in Threads} = {}
    BY DEF RingInit, ToSet
  <2> QED BY <2>1, <2>2, <2>3 DEF Held, Unsubmitted
<1>2. (RingInit => \A e : e \in Held <=> e \in ToSet(ops) \/ e \in ToSet(timers))'
  BY <1>1, PTL
<1> QED BY <1>1, <1>2

\* What is known before a step.
LEMMA PollFacts ==
    ASSUME IInv, d_context = "poll", UNCHANGED <<d_context, ringVars>>
    PROVE  /\ \A e : e \in Held <=> e \in ToSet(ops) \/ e \in ToSet(timers)
           /\ \A e : e \in Held' <=> e \in ToSet(ops') \/ e \in ToSet(timers')
           /\ PollOk
           /\ \A e \in ToSet(ops) : e \in PollEntry /\ e.kind # "timer"
           /\ \A e \in ToSet(timers) : e \in TimerEntry /\ e.kind = "timer"
           /\ Heard = stopped /\ Heard' = stopped'
           /\ \A o \in Ops : OpOk(st[o], o, Held, stopped)
<1>1. RingInit /\ RingInit' /\ PollOk
  BY DEF IInv, RingInit, ringVars
<1>2. /\ \A e \in ToSet(ops) : e \in PollEntry /\ e.kind # "timer"
      /\ \A e \in ToSet(timers) : e \in TimerEntry /\ e.kind = "timer"
  BY <1>1, Elements, EntryFacts DEF PollOk
<1>3. Heard = stopped /\ Heard' = stopped'
  BY <1>1 DEF RingInit, Heard
<1>4. \A o \in Ops : OpOk(st[o], o, Held, stopped)
  BY <1>3 DEF IInv, OpsOk
<1> QED BY <1>1, <1>2, <1>3, <1>4, PollHeld

\* A step changes one operation, and no callback is called and not entered.
LEMMA PollOpChange ==
    ASSUME IInv, d_context = "poll", UNCHANGED <<d_context, ringVars>>,
           NEW o \in Ops, NEW x, OpOk(x, o, Held', stopped'),
           \A e : e \notin {IoOf(o), CancelOf(o)} => (e \in Held' <=> e \in Held),
           \A u \in Ops : u # o => (u \in stopped' <=> u \in stopped),
           st' = [st EXCEPT ![o] = x], wait' = wait
    PROVE  OpsOk' /\ st' \in [Ops -> OpState]
BY PollFacts, OpChange

\* What has to be shown of a step.
LEMMA PollKeeps ==
    ASSUME IInv, d_context = "poll", UNCHANGED <<d_context, ringVars>>,
           IoTypes', Iterator', OpsOk', PollOk'
    PROVE  IInv'
<1>1. RingInit'
  BY DEF IInv, RingInit, ringVars
<1> QED BY <1>1 DEF IInv

\* start() up to the submission.
LEMMA PollEngageFacts ==
    ASSUME IInv, d_context = "poll", UNCHANGED <<d_context, ringVars>>, NEW o \in Ops, ~st[o].engaged
    PROVE  /\ PollEngage(o).list \in Seq(PollEntry) /\ Distinct(PollEngage(o).list)
           /\ Behind(PollEngage(o).list)
           /\ \A e : e \in ToSet(PollEngage(o).list)
                <=> e \in ToSet(ops) \/ (e = CancelOf(o) /\ o \in stopped)
           /\ IoOf(o) \notin Held /\ CancelOf(o) \notin Held
           /\ \A G : IoOf(o) \in G /\ (CancelOf(o) \in G <=> o \in stopped)
                => OpOk(PollEngage(o).s, o, G, stopped)
<1>1. OpOk(st[o], o, Held, stopped)
  BY PollFacts
<1>2. IoOf(o) \notin Held /\ CancelOf(o) \notin Held
  BY <1>1 DEF OpOk
<1>3. CancelOf(o) \notin ToSet(ops) /\ CancelOf(o) \in PollEntry
  BY <1>2, PollFacts, EntryFacts
<1>4. ops \in Seq(PollEntry) /\ Distinct(ops) /\ Behind(ops)
  BY PollFacts DEF PollOk
<1>5. CASE o \in stopped
  <2>1. PICK c : c = SubmitIo(ops, CancelOf(o))
    OBVIOUS
  <2>2. c \in Seq(PollEntry) /\ Distinct(c) /\ Behind(c) /\ ToSet(c) = ToSet(ops) \cup {CancelOf(o)}
    BY <1>3, <1>4, <2>1, SubmitIoFacts
  <2>3. PollEngage(o).list = c /\ PollEngage(o).s = Counted(Engaged(st[o]))
    BY <1>5, <2>1 DEF PollEngage
  <2> QED BY <1>1, <1>2, <1>5, <2>2, <2>3, EngageOk
<1>6. CASE o \notin stopped
  <2>1. PollEngage(o).list = ops /\ PollEngage(o).s = Engaged(st[o])
    BY <1>6 DEF PollEngage
  <2> QED BY <1>1, <1>2, <1>4, <1>6, <2>1, EngageOk
<1> QED BY <1>5, <1>6

\* submit(), do_connect() and do_open_at(): the result is there at once.
LEMMA PollStartInlineStep ==
    ASSUME IInv, d_context = "poll", UNCHANGED <<d_context, ringVars>>,
           NEW o \in Ops, NEW r \in Results, PollStartInline(o, r)
    PROVE  IInv'
<1>1. /\ ~st[o].engaged /\ ops' = PollEngage(o).list
      /\ st' = [st EXCEPT ![o] = Result(PollEngage(o).s, r)]
      /\ UNCHANGED <<stopped, wait, run, timers, valid, again>>
  BY DEF PollStartInline, PollStart
<1>2. PICK s : s = PollEngage(o).s
  OBVIOUS
<1>3. PICK G : G = Held' \cup {IoOf(o)}
  OBVIOUS
<1>4. /\ ops' \in Seq(PollEntry) /\ Distinct(ops') /\ Behind(ops')
      /\ \A e : e \in Held' <=> e \in Held \/ (e = CancelOf(o) /\ o \in stopped)
      /\ IoOf(o) \notin Held /\ CancelOf(o) \notin Held
  BY <1>1, PollEngageFacts, PollFacts
<1>5. IoOf(o) # CancelOf(o)
  BY DEF IoOf, CancelOf
<1>6. OpOk(s, o, G, stopped)
  BY <1>1, <1>2, <1>3, <1>4, <1>5, PollEngageFacts
<1>7. OpOk(Result(s, r), o, Held', stopped)
  <2>1. r \in Results \cup {"ECANCELED"} /\ r # "ECANCELED"
    BY DEF Results
  <2>2. IoOf(o) \in G /\ IoOf(o) \notin Held' /\ (CancelOf(o) \in Held' <=> CancelOf(o) \in G)
    BY <1>3, <1>4, <1>5
  <2> QED BY <1>6, <2>1, <2>2, ResultOk
<1>8. OpsOk' /\ st' \in [Ops -> OpState]
  <2>1. OpOk(Result(s, r), o, Held', stopped') /\ st' = [st EXCEPT ![o] = Result(s, r)]
    BY <1>1, <1>2, <1>7
  <2> QED BY <1>1, <1>4, <2>1, PollOpChange
<1>9. PollOk'
  BY <1>1, <1>4, PollFacts DEF PollOk
<1>10. IoTypes' /\ Iterator'
  BY <1>1, <1>8 DEF IInv, IoTypes, Iterator
<1> QED BY <1>8, <1>9, <1>10, PollKeeps

\* The operation would block.
LEMMA PollStartQueuedStep ==
    ASSUME IInv, d_context = "poll", UNCHANGED <<d_context, ringVars>>,
           NEW o \in Ops, PollStartQueued(o)
    PROVE  IInv'
<1>1. /\ ~st[o].engaged /\ ops' = SubmitIo(PollEngage(o).list, IoOf(o))
      /\ st' = [st EXCEPT ![o] = PollEngage(o).s]
      /\ UNCHANGED <<stopped, wait, run, timers, valid, again>>
  BY DEF PollStartQueued, PollStart
<1>2. PICK s, c : s = PollEngage(o).s /\ c = PollEngage(o).list
  OBVIOUS
<1>3. /\ c \in Seq(PollEntry) /\ Distinct(c) /\ Behind(c)
      /\ \A e : e \in ToSet(c) <=> e \in ToSet(ops) \/ (e = CancelOf(o) /\ o \in stopped)
      /\ IoOf(o) \notin Held /\ CancelOf(o) \notin Held
  BY <1>1, <1>2, PollEngageFacts
<1>4. IoOf(o) # CancelOf(o)
  BY DEF IoOf, CancelOf
<1>5. IoOf(o) \notin ToSet(c) /\ IoOf(o) \in PollEntry
  BY <1>3, <1>4, PollFacts, EntryFacts
<1>6. /\ ops' \in Seq(PollEntry) /\ Distinct(ops') /\ Behind(ops')
      /\ ToSet(ops') = ToSet(c) \cup {IoOf(o)}
  BY <1>1, <1>2, <1>3, <1>5, SubmitIoFacts
<1>7. \A e : e \in Held' <=> e \in Held \/ e = IoOf(o) \/ (e = CancelOf(o) /\ o \in stopped)
  BY <1>1, <1>3, <1>6, PollFacts
<1>8. OpOk(s, o, Held', stopped)
  BY <1>1, <1>2, <1>3, <1>4, <1>7, PollEngageFacts
<1>9. OpsOk' /\ st' \in [Ops -> OpState]
  BY <1>1, <1>2, <1>7, <1>8, PollOpChange
<1>10. PollOk'
  BY <1>1, <1>6, PollFacts DEF PollOk
<1>11. IoTypes' /\ Iterator'
  BY <1>1, <1>9 DEF IInv, IoTypes, Iterator
<1> QED BY <1>9, <1>10, <1>11, PollKeeps

\* A stop is requested.
LEMMA PollStopStep ==
    ASSUME IInv, d_context = "poll", UNCHANGED <<d_context, ringVars>>,
           NEW o \in Ops, PollStop(o)
    PROVE  IInv'
<1>1. /\ o \notin stopped /\ stopped' = stopped \cup {o}
      /\ UNCHANGED <<wait, run, timers, valid, again>>
  BY DEF PollStop
<1>2. OpOk(st[o], o, Held, stopped)
  BY PollFacts
<1>3. CancelOf(o) \notin Held
  BY <1>1, <1>2 DEF OpOk
<1>4. CancelOf(o) \notin ToSet(ops) /\ CancelOf(o) \in PollEntry
  BY <1>3, PollFacts, EntryFacts
<1>5. ops \in Seq(PollEntry) /\ Distinct(ops) /\ Behind(ops)
  BY PollFacts DEF PollOk
<1>6. PICK x : x = IF st[o].engaged THEN Counted(st[o]) ELSE st[o]
  OBVIOUS
<1>7. st' = [st EXCEPT ![o] = x]
  <2>1. st = [st EXCEPT ![o] = st[o]]
    BY DEF IInv, IoTypes
  <2> QED BY <1>6, <2>1 DEF PollStop
<1>8. ops' = IF st[o].engaged /\ Cancels(Counted(st[o])) THEN SubmitIo(ops, CancelOf(o)) ELSE ops
  BY DEF PollStop
<1>9. /\ ops' \in Seq(PollEntry) /\ Distinct(ops') /\ Behind(ops')
      /\ ToSet(ops') = IF st[o].engaged /\ Cancels(Counted(st[o]))
                       THEN ToSet(ops) \cup {CancelOf(o)} ELSE ToSet(ops)
  BY <1>4, <1>5, <1>8, SubmitIoFacts
<1>10. \A e : e \in Held' <=>
         e \in Held \/ (e = CancelOf(o) /\ st[o].engaged /\ Cancels(Counted(st[o])))
  BY <1>1, <1>9, PollFacts
<1>11. IoOf(o) # CancelOf(o)
  BY DEF IoOf, CancelOf
<1>12. OpOk(x, o, Held', stopped')
  <2>1. o \in stopped'
    BY <1>1
  <2>2. /\ IoOf(o) \in Held' <=> IoOf(o) \in Held
        /\ CancelOf(o) \in Held' <=>
             CancelOf(o) \in Held \/ (st[o].engaged /\ Cancels(Counted(st[o])))
    BY <1>10, <1>11
  <2>3. /\ ~st[o].engaged => OpOk(st[o], o, Held', stopped')
        /\ st[o].engaged => OpOk(Counted(st[o]), o, Held', stopped')
    BY <1>1, <1>2, <2>1, <2>2, StopOk
  <2> QED BY <1>6, <2>3
<1>13. OpsOk' /\ st' \in [Ops -> OpState]
  BY <1>1, <1>7, <1>10, <1>12, PollOpChange
<1>14. PollOk'
  BY <1>1, <1>9, PollFacts DEF PollOk
<1>15. IoTypes' /\ Iterator'
  BY <1>1, <1>13 DEF IInv, IoTypes, Iterator
<1> QED BY <1>13, <1>14, <1>15, PollKeeps

\* The completed receiver destroys the operation state.
LEMMA PollDestroyStep ==
    ASSUME IInv, d_context = "poll", UNCHANGED <<d_context, ringVars>>,
           NEW o \in Ops, Destroy(o), UNCHANGED pollVars
    PROVE  IInv'
<1>1. /\ st[o].outcome # <<>> /\ st' = [st EXCEPT ![o] = Fresh]
      /\ UNCHANGED <<stopped, wait, run, again, ops, timers, valid>>
  BY DEF Destroy, Completed, pollVars
<1>2. OpOk(st[o], o, Held, stopped)
  BY PollFacts
<1>3. \A e : e \in Held' <=> e \in Held
  BY <1>1, PollFacts
<1>4. OpOk(Fresh, o, Held, stopped)
  BY <1>1, <1>2, DestroyOk
<1>5. OpOk(Fresh, o, Held', stopped')
  BY <1>1, <1>3, <1>4, OpFrame
<1>6. OpsOk' /\ st' \in [Ops -> OpState]
  BY <1>1, <1>3, <1>5, PollOpChange
<1>7. PollOk'
  BY <1>1, PollFacts DEF PollOk
<1>8. IoTypes' /\ Iterator'
  BY <1>1, <1>6 DEF IInv, IoTypes, Iterator
<1> QED BY <1>6, <1>7, <1>8, PollKeeps

\* schedule().
LEMMA PollScheduleStep ==
    ASSUME IInv, d_context = "poll", UNCHANGED <<d_context, ringVars>>,
           NEW w \in Waits, PollSchedule(w)
    PROVE  IInv'
<1>1. /\ wait[w] = "idle" /\ wait' = [wait EXCEPT ![w] = "queued"]
      /\ ops' = SubmitIo(ops, NopOf(w))
      /\ UNCHANGED <<st, stopped, run, timers, valid, again>>
  BY DEF PollSchedule
<1>2. NopOf(w) \notin Held /\ TimerOf(w) \notin Held
  BY <1>1 DEF IInv, OpsOk, WaitOk
<1>3. NopOf(w) \notin ToSet(ops) /\ NopOf(w) \in PollEntry
  BY <1>2, PollFacts, EntryFacts
<1>4. /\ ops' \in Seq(PollEntry) /\ Distinct(ops') /\ Behind(ops')
      /\ ToSet(ops') = ToSet(ops) \cup {NopOf(w)}
  BY <1>1, <1>3, PollFacts, SubmitIoFacts DEF PollOk
<1>5. \A e : e \in Held' <=> e \in Held \/ e = NopOf(w)
  BY <1>1, <1>4, PollFacts
<1>6. NopOf(w) # TimerOf(w)
  BY DEF NopOf, TimerOf
<1>7. WaitOk("queued", w, Held')
  BY <1>2, <1>5, <1>6 DEF WaitOk
<1>8. OpsOk' /\ wait' \in [Waits -> {"idle", "queued"}]
  BY <1>1, <1>5, <1>7, PollFacts, WaitChange
<1>9. PollOk'
  BY <1>1, <1>4, PollFacts DEF PollOk
<1>10. IoTypes' /\ Iterator'
  BY <1>1, <1>8 DEF IInv, IoTypes, Iterator
<1> QED BY <1>8, <1>9, <1>10, PollKeeps

\* async_wait().
LEMMA PollTimerStep ==
    ASSUME IInv, d_context = "poll", UNCHANGED <<d_context, ringVars>>,
           NEW w \in Waits, NEW k \in 1..(Len(timers) + 1), PollTimer(w, k)
    PROVE  IInv'
<1>1. /\ wait[w] = "idle" /\ wait' = [wait EXCEPT ![w] = "queued"]
      /\ timers' = InsertAt(timers, k, TimerOf(w))
      /\ UNCHANGED <<st, stopped, run, ops, valid, again>>
  BY DEF PollTimer
<1>2. NopOf(w) \notin Held /\ TimerOf(w) \notin Held
  BY <1>1 DEF IInv, OpsOk, WaitOk
<1>3. TimerOf(w) \notin ToSet(timers) /\ TimerOf(w) \in TimerEntry
  BY <1>2, PollFacts, EntryFacts
<1>4. /\ timers' \in Seq(TimerEntry) /\ Distinct(timers')
      /\ ToSet(timers') = ToSet(timers) \cup {TimerOf(w)}
  BY <1>1, <1>3, PollFacts, TimerPushFacts DEF PollOk
<1>5. \A e : e \in Held' <=> e \in Held \/ e = TimerOf(w)
  BY <1>1, <1>4, PollFacts
<1>6. NopOf(w) # TimerOf(w)
  BY DEF NopOf, TimerOf
<1>7. WaitOk("queued", w, Held')
  BY <1>2, <1>5, <1>6 DEF WaitOk
<1>8. OpsOk' /\ wait' \in [Waits -> {"idle", "queued"}]
  BY <1>1, <1>5, <1>7, PollFacts, WaitChange
<1>9. PollOk'
  BY <1>1, <1>4, PollFacts DEF PollOk
<1>10. IoTypes' /\ Iterator'
  BY <1>1, <1>8 DEF IInv, IoTypes, Iterator
<1> QED BY <1>8, <1>9, <1>10, PollKeeps

\* run() is called: a d_next_poll that was lost stays so, from then on run()
\* has been called again.
LEMMA PollRunBeginStep ==
    ASSUME IInv, d_context = "poll", UNCHANGED <<d_context, ringVars>>,
           RunBegin, UNCHANGED pollVars
    PROVE  IInv'
<1>1. /\ run \in {"idle", "drained", "failed"} /\ run' = "running" /\ again' = (run # "idle")
      /\ UNCHANGED <<st, stopped, wait, ops, timers, valid>>
  BY DEF RunBegin, pollVars
<1>2. OpsOk'
  BY <1>1, PollFacts, NoChange
<1>3. PollOk'
  BY <1>1, PollFacts DEF PollOk
<1>4. IoTypes'
  BY <1>1 DEF IInv, IoTypes
<1>5. Iterator'
  <2>1. ~valid => run # "idle"
    BY <1>1 DEF IInv, Iterator
  <2> QED BY <1>1, <2>1 DEF Iterator
<1> QED BY <1>2, <1>3, <1>4, <1>5, PollKeeps

\* A timer expired.
LEMMA HandleTimerStep ==
    ASSUME IInv, d_context = "poll", UNCHANGED <<d_context, ringVars>>, HandleTimer
    PROVE  IInv'
<1>1. /\ timers # <<>> /\ wait' = [wait EXCEPT ![Head(timers).of] = "idle"]
      /\ timers' = Tail(timers)
      /\ UNCHANGED <<st, stopped, run, ops, valid, again>>
  BY DEF HandleTimer
<1>2. /\ timers' \in Seq(TimerEntry) /\ Distinct(timers')
      /\ ToSet(timers') = ToSet(timers) \ {Head(timers)} /\ Head(timers) \in ToSet(timers)
  BY <1>1, PollFacts, TimerPopFacts DEF PollOk
<1>3. PICK w \in Waits : w = Head(timers).of /\ Head(timers) = TimerOf(w)
  BY <1>2, PollFacts, EntryFacts
<1>4. TimerOf(w) \notin ToSet(ops)
  BY PollFacts, EntryFacts
<1>5. \A e : e \in Held' <=> e \in Held /\ e # TimerOf(w)
  BY <1>1, <1>2, <1>3, <1>4, PollFacts
<1>6. TimerOf(w) \in Held
  BY <1>2, <1>3, PollFacts
<1>7. NopOf(w) \notin Held
  BY <1>6 DEF IInv, OpsOk, WaitOk
<1>8. WaitOk("idle", w, Held')
  BY <1>5, <1>7 DEF WaitOk
<1>9. OpsOk' /\ wait' \in [Waits -> {"idle", "queued"}]
  BY <1>1, <1>3, <1>5, <1>8, PollFacts, WaitChange
<1>10. PollOk'
  BY <1>1, <1>2, PollFacts DEF PollOk
<1>11. IoTypes' /\ Iterator'
  BY <1>1, <1>9 DEF IInv, IoTypes, Iterator
<1> QED BY <1>9, <1>10, <1>11, PollKeeps

\* What was scheduled last is done.
LEMMA HandleNopStep ==
    ASSUME IInv, d_context = "poll", UNCHANGED <<d_context, ringVars>>, HandleNop
    PROVE  IInv'
<1>1. /\ ops # <<>> /\ Last(ops).kind = "nop"
      /\ wait' = [wait EXCEPT ![Last(ops).of] = "idle"]
      /\ ops' = Front(ops)
      /\ UNCHANGED <<st, stopped, run, timers, valid, again>>
  BY DEF HandleNop, TopIs
<1>2. /\ ops' \in Seq(PollEntry) /\ Distinct(ops') /\ Behind(ops')
      /\ ToSet(ops') = ToSet(ops) \ {Last(ops)} /\ Last(ops) \in ToSet(ops)
  BY <1>1, PollFacts, PopFacts DEF PollOk
<1>3. PICK w \in Waits : w = Last(ops).of /\ Last(ops) = NopOf(w)
  BY <1>1, <1>2, PollFacts, EntryFacts
<1>4. NopOf(w) \notin ToSet(timers)
  BY PollFacts, EntryFacts
<1>5. \A e : e \in Held' <=> e \in Held /\ e # NopOf(w)
  BY <1>1, <1>2, <1>3, <1>4, PollFacts
<1>6. NopOf(w) \in Held
  BY <1>2, <1>3, PollFacts
<1>7. TimerOf(w) \notin Held
  BY <1>6 DEF IInv, OpsOk, WaitOk
<1>8. WaitOk("idle", w, Held')
  BY <1>5, <1>7 DEF WaitOk
<1>9. OpsOk' /\ wait' \in [Waits -> {"idle", "queued"}]
  BY <1>1, <1>3, <1>5, <1>8, PollFacts, WaitChange
<1>10. PollOk'
  BY <1>1, <1>2, PollFacts DEF PollOk
<1>11. IoTypes' /\ Iterator'
  BY <1>1, <1>9 DEF IInv, IoTypes, Iterator
<1> QED BY <1>9, <1>10, <1>11, PollKeeps

\* The cancellation is done, and then the operation, if it is still in the list.
LEMMA HandleCancelStep ==
    ASSUME IInv, d_context = "poll", UNCHANGED <<d_context, ringVars>>, HandleCancel
    PROVE  IInv'
<1>1. ops # <<>> /\ Last(ops).kind = "cancel"
  BY DEF HandleCancel, TopIs
<1>2. UNCHANGED <<stopped, wait, run, timers, valid, again>>
  BY DEF HandleCancel
<1>3. PICK c : c = Front(ops)
  OBVIOUS
<1>4. /\ c \in Seq(PollEntry) /\ Distinct(c) /\ Behind(c)
      /\ ToSet(c) = ToSet(ops) \ {Last(ops)} /\ Last(ops) \in ToSet(ops)
  BY <1>1, <1>3, PollFacts, PopFacts DEF PollOk
<1>5. PICK o \in Ops : o = Last(ops).of /\ Last(ops) = CancelOf(o)
  BY <1>1, <1>4, PollFacts, EntryFacts
<1>6. ops \in Seq(PollEntry)
  BY PollFacts DEF PollOk
<1>7. (\E i \in 1..Len(ops) : ops[i] = IoOf(o)) <=> IoOf(o) \in ToSet(ops)
  BY <1>6, Elements
<1>8. PICK s : s = CancelResult(st[o])
  OBVIOUS
<1>9. PICK x : x = IF IoOf(o) \in ToSet(ops) THEN Result(s, "ECANCELED") ELSE s
  OBVIOUS
<1>10. st' = [st EXCEPT ![o] = x] /\ ops' = RemoveFirst(c, IoOf(o))
  BY <1>3, <1>5, <1>7, <1>8, <1>9 DEF HandleCancel
<1>11. /\ ops' \in Seq(PollEntry) /\ Distinct(ops') /\ Behind(ops')
       /\ ToSet(ops') = ToSet(c) \ {IoOf(o)}
  BY <1>4, <1>10, RemoveFacts
<1>12. IoOf(o) # CancelOf(o) /\ IoOf(o) \notin ToSet(timers) /\ CancelOf(o) \notin ToSet(timers)
  BY PollFacts, EntryFacts
<1>13. \A e : e \in Held' <=> e \in Held /\ e # IoOf(o) /\ e # CancelOf(o)
  BY <1>2, <1>4, <1>5, <1>11, <1>12, PollFacts
<1>14. /\ CancelOf(o) \in Held
       /\ IoOf(o) \in Held <=> IoOf(o) \in ToSet(ops)
  BY <1>4, <1>5, <1>12, PollFacts
<1>15. PICK G : G = Held \ {CancelOf(o)}
  OBVIOUS
<1>16. OpOk(s, o, G, stopped) /\ s.cancelled
  <2>1. OpOk(st[o], o, Held, stopped)
    BY PollFacts
  <2>2. CancelOf(o) \notin G /\ (IoOf(o) \in G <=> IoOf(o) \in Held)
    BY <1>12, <1>15
  <2> QED BY <1>8, <1>14, <2>1, <2>2, CancelOk
<1>17. OpOk(x, o, Held', stopped)
  <2>1. CASE IoOf(o) \in ToSet(ops)
    <3>1. /\ IoOf(o) \in G /\ IoOf(o) \notin Held'
          /\ CancelOf(o) \in Held' <=> CancelOf(o) \in G
      BY <1>12, <1>13, <1>14, <1>15, <2>1
    <3>2. PICK r \in Results \cup {"ECANCELED"} : r = "ECANCELED"
      OBVIOUS
    <3>3. OpOk(Result(s, r), o, Held', stopped)
      BY <1>16, <3>1, ResultOk
    <3> QED BY <1>9, <2>1, <3>2, <3>3
  <2>2. CASE IoOf(o) \notin ToSet(ops)
    <3>1. /\ IoOf(o) \in Held' <=> IoOf(o) \in G
          /\ CancelOf(o) \in Held' <=> CancelOf(o) \in G
      BY <1>12, <1>13, <1>14, <1>15, <2>2
    <3>2. OpOk(s, o, Held', stopped)
      BY <1>16, <3>1, OpFrame
    <3> QED BY <1>9, <2>2, <3>2
  <2> QED BY <2>1, <2>2
<1>18. OpsOk' /\ st' \in [Ops -> OpState]
  BY <1>2, <1>10, <1>13, <1>17, PollOpChange
<1>19. PollOk'
  BY <1>2, <1>11, PollFacts DEF PollOk
<1>20. IoTypes' /\ Iterator'
  BY <1>2, <1>18 DEF IInv, IoTypes, Iterator
<1> QED BY <1>18, <1>19, <1>20, PollKeeps

\* An operation on a descriptor with events is done.
LEMMA HandleIoStep ==
    ASSUME IInv, d_context = "poll", UNCHANGED <<d_context, ringVars>>,
           NEW k, NEW o \in Ops, NEW r \in Results, HandleIo(k, o, r)
    PROVE  IInv'
<1>1. /\ \E i \in 1..Len(ops) : ops[i] = IoOf(o)
      /\ st' = [st EXCEPT ![o] = Result(st[o], r)]
      /\ ops' = RemoveFirst(ops, IoOf(o))
      /\ UNCHANGED <<stopped, wait, run, timers, valid, again>>
  BY DEF HandleIo
<1>2. ops \in Seq(PollEntry) /\ Distinct(ops) /\ Behind(ops)
  BY PollFacts DEF PollOk
<1>3. IoOf(o) \in ToSet(ops)
  BY <1>1, <1>2, Elements
<1>4. /\ ops' \in Seq(PollEntry) /\ Distinct(ops') /\ Behind(ops')
      /\ ToSet(ops') = ToSet(ops) \ {IoOf(o)}
  BY <1>1, <1>2, RemoveFacts
<1>5. IoOf(o) # CancelOf(o) /\ IoOf(o) \notin ToSet(timers)
  BY PollFacts, EntryFacts
<1>6. \A e : e \in Held' <=> e \in Held /\ e # IoOf(o)
  BY <1>1, <1>4, <1>5, PollFacts
<1>7. OpOk(Result(st[o], r), o, Held', stopped)
  <2>1. OpOk(st[o], o, Held, stopped)
    BY PollFacts
  <2>2. r \in Results \cup {"ECANCELED"} /\ r # "ECANCELED"
    BY DEF Results
  <2>3. /\ IoOf(o) \in Held /\ IoOf(o) \notin Held'
        /\ CancelOf(o) \in Held' <=> CancelOf(o) \in Held
    BY <1>3, <1>5, <1>6, PollFacts
  <2> QED BY <2>1, <2>2, <2>3, ResultOk
<1>8. OpsOk' /\ st' \in [Ops -> OpState]
  BY <1>1, <1>6, <1>7, PollOpChange
<1>9. PollOk'
  BY <1>1, <1>4, PollFacts DEF PollOk
<1>10. IoTypes' /\ Iterator'
  BY <1>1, <1>8 DEF IInv, IoTypes, Iterator
<1> QED BY <1>8, <1>9, <1>10, PollKeeps

\* The other steps leave the operations alone.  The program is lost only with
\* a d_next_poll that was lost before this call of run().
LEMMA PollOtherStep ==
    ASSUME IInv, d_context = "poll", UNCHANGED <<d_context, ringVars>>,
           \/ HandleIoUndefined \/ PollDrained \/ PollFails
           \/ \E ready \in SUBSET {Fd[o] : o \in Ops} : Poll(ready)
    PROVE  IInv'
<1>1. UNCHANGED <<st, stopped, wait, ops, timers, again>>
  BY DEF HandleIoUndefined, PollDrained, PollFails, PollReturnsFalse, Poll, pollVars, ioVars
<1>2. OpsOk'
  BY <1>1, PollFacts, NoChange
<1>3. PollOk'
  BY <1>1, PollFacts DEF PollOk
<1>4. IoTypes' /\ Iterator'
  <2>1. CASE HandleIoUndefined
    BY <1>1, <2>1 DEF HandleIoUndefined, AtIo, pollVars, IInv, IoTypes, Iterator
  <2>2. CASE PollDrained \/ PollFails
    BY <1>1, <2>2 DEF PollDrained, PollFails, PollReturnsFalse, AtIo, IInv, IoTypes, Iterator
  <2>3. CASE \E ready \in SUBSET {Fd[o] : o \in Ops} : Poll(ready)
    BY <1>1, <2>3 DEF Poll, AtIo, ioVars, IInv, IoTypes, Iterator
  <2> QED BY <2>1, <2>2, <2>3
<1> QED BY <1>2, <1>3, <1>4, PollKeeps

\* Every step of poll_context.
LEMMA PollStep ==
    ASSUME IInv, OnPoll(PollUser) \/ OnPoll(PollRun) \/ OnPoll(PollFails)
    PROVE  IInv'
<1>1. d_context = "poll" /\ UNCHANGED <<d_context, ringVars>> /\ (PollUser \/ PollRun \/ PollFails)
  BY DEF OnPoll
<1>2. CASE PollUser
  BY <1>1, <1>2, PollStartInlineStep, PollStartQueuedStep, PollStopStep, PollDestroyStep,
     PollScheduleStep, PollTimerStep, PollRunBeginStep DEF PollUser
<1>3. CASE PollRun
  BY <1>1, <1>3, HandleTimerStep, HandleNopStep, HandleCancelStep, HandleIoStep, PollOtherStep
     DEF PollRun
<1>4. CASE PollFails
  BY <1>1, <1>4, PollOtherStep
<1> QED BY <1>1, <1>2, <1>3, <1>4

-----------------------------------------------------------------------------
(* The rings as sets                                                       *)

\* A slot that was empty is filled.
LEMMA SlotPut ==
    ASSUME NEW f \in [Slots -> RingEntry \cup {Empty}], NEW i \in Slots, f[i] = Empty,
           NEW e \in RingEntry, e \notin Entries(f), Once(f),
           NEW g, g = [f EXCEPT ![i] = e]
    PROVE  /\ Entries(g) = Entries(f) \cup {e} /\ Once(g)
<1>1. e # Empty
  BY DEF RingEntry, TimerEntry, Empty
<1>2. \A j \in Slots : g[j] = IF j = i THEN e ELSE f[j]
  OBVIOUS
<1>3. \A x : x \in Entries(f) <=> x # Empty /\ \E j \in Slots : x = f[j]
  BY DEF Entries, Slots
<1>4. \A x : x \in Entries(g) <=> x # Empty /\ \E j \in Slots : x = g[j]
  BY DEF Entries, Slots
<1>5. ASSUME NEW x PROVE x \in Entries(g) <=> x \in Entries(f) \/ x = e
  <2>1. CASE x = e
    BY <1>1, <1>2, <1>4, <2>1
  <2>2. CASE x # e
    BY <1>2, <1>3, <1>4, <2>2
  <2> QED BY <2>1, <2>2
<1>6. Once(g)
  BY <1>1, <1>2, <1>3 DEF Once
<1> QED BY <1>5, <1>6

\* A slot is emptied.
LEMMA SlotDrop ==
    ASSUME NEW f \in [Slots -> RingEntry \cup {Empty}], NEW i \in Slots, NEW e \in RingEntry,
           f[i] = e, Once(f), NEW g, g = [f EXCEPT ![i] = Empty]
    PROVE  /\ Entries(g) = Entries(f) \ {e} /\ e \in Entries(f) /\ Once(g)
<1>1. e # Empty
  BY DEF RingEntry, TimerEntry, Empty
<1>2. \A j \in Slots : g[j] = IF j = i THEN Empty ELSE f[j]
  OBVIOUS
<1>3. \A x : x \in Entries(f) <=> x # Empty /\ \E j \in Slots : x = f[j]
  BY DEF Entries, Slots
<1>4. \A x : x \in Entries(g) <=> x # Empty /\ \E j \in Slots : x = g[j]
  BY DEF Entries, Slots
<1>5. e \in Entries(f)
  BY <1>1, <1>3
<1>6. ASSUME NEW x PROVE x \in Entries(g) <=> x \in Entries(f) /\ x # e
  <2>1. CASE x = e
    BY <1>1, <1>2, <1>4, <2>1 DEF Once
  <2>2. CASE x # e
    <3>1. ASSUME x \in Entries(g) PROVE x \in Entries(f)
      BY <1>2, <1>3, <1>4, <3>1
    <3>2. ASSUME x \in Entries(f) PROVE x \in Entries(g)
      <4>1. PICK j \in Slots : x = f[j] /\ x # Empty
        BY <1>3, <3>2
      <4>2. g[j] = x
        BY <1>2, <2>2, <4>1
      <4> QED BY <1>4, <4>1, <4>2
    <3> QED BY <2>2, <3>1, <3>2
  <2> QED BY <2>1, <2>2
<1>7. Once(g)
  BY <1>2 DEF Once
<1> QED BY <1>5, <1>6, <1>7

\* There are finitely many slots.
LEMMA SlotsFinite ==
    ASSUME NEW f
    PROVE  IsFiniteSet(Entries(f))
<1>1. IsFiniteSet(0..(Size - 1))
  BY RingAssumption, FS_Interval
<1>2. IsFiniteSet({f[i] : i \in 0..(Size - 1)})
  <2>1. PICK S, T : S = 0..(Size - 1) /\ T = {f[i] : i \in S}
    OBVIOUS
  <2>2. [i \in S |-> f[i]] \in Surjection(S, T)
    BY <2>1 DEF Surjection
  <2>3. IsFiniteSet(T)
    BY <1>1, <2>1, <2>2, FS_Surjection
  <2> QED BY <2>1, <2>3
<1> QED BY <1>2, FS_Subset DEF Entries

\* What is reported of a result, and of which entry.
LEMMA CompletionFacts ==
    /\ \A x \in Completion :
         /\ x.kind \in {"io", "cancel", "timer"} /\ EntryOf(x) \in RingEntry
         /\ EntryOf(x).kind = x.kind /\ EntryOf(x).of = x.of
         /\ x.kind = "io" => EntryOf(x) = IoOf(x.of) /\ x.of \in Ops
                             /\ x.result \in Results \cup {"ECANCELED"}
         /\ x.kind = "cancel" => EntryOf(x) = CancelOf(x.of) /\ x.of \in Ops
         /\ x.kind = "timer" => EntryOf(x) = TimerOf(x.of) /\ x.of \in Waits
    /\ \A e, r : EntryOf(Done(e, r)) = [kind |-> e.kind, of |-> e.of]
    /\ \A e, r : Done(e, r).kind = e.kind /\ Done(e, r).of = e.of /\ Done(e, r).result = r
    /\ \A e \in RingEntry : e = [kind |-> e.kind, of |-> e.of]
    /\ \A o \in Ops, r \in Results \cup {"ECANCELED"} : Done(IoOf(o), r) \in Completion
    /\ \A o \in Ops : Done(CancelOf(o), "ignored") \in Completion
    /\ \A w \in Waits : Done(TimerOf(w), "value") \in Completion
BY DEF Completion, RingEntry, TimerEntry, EntryOf, IoOf, CancelOf, TimerOf, Done

\* The completion ring with two more results.
Both(c, u, v) == c \o <<u, v>>

\* An element of a sequence has a place in it.
LEMMA Member ==
    ASSUME NEW s, NEW e, e \in ToSet(s)
    PROVE  \E i \in 1..Len(s) : s[i] = e
BY DEF ToSet

\* A result is added.
LEMMA ReportPut ==
    ASSUME NEW c \in Seq(Completion), NEW x \in Completion, Unique(c), EntryOf(x) \notin Reported(c),
           NEW d, d = Append(c, x)
    PROVE  /\ d \in Seq(Completion) /\ Len(d) = Len(c) + 1 /\ Unique(d)
           /\ Reported(d) = Reported(c) \cup {EntryOf(x)}
           /\ ToSet(d) = ToSet(c) \cup {x}
<1>1. /\ Len(c) \in Nat /\ d \in Seq(Completion) /\ Len(d) = Len(c) + 1 /\ d[Len(c) + 1] = x
      /\ \A i \in 1..Len(c) : d[i] = c[i]
  OBVIOUS
<1>2. \A e : e \in Reported(c) <=> \E i \in 1..Len(c) : e = EntryOf(c[i])
  BY DEF Reported, EntryOf
<1>3. \A e : e \in Reported(d) <=> \E i \in 1..Len(d) : e = EntryOf(d[i])
  BY DEF Reported, EntryOf
<1>4. \A i \in 1..Len(d) : (i \in 1..Len(c) /\ d[i] = c[i]) \/ (i = Len(c) + 1 /\ d[i] = x)
  BY <1>1
<1>5. \A i \in 1..Len(c) : i \in 1..Len(d)
  BY <1>1
<1>6. Len(c) + 1 \in 1..Len(d)
  BY <1>1
<1>7. Reported(d) = Reported(c) \cup {EntryOf(x)}
  <2>1. \A e : e \in Reported(d) => e \in Reported(c) \cup {EntryOf(x)}
    BY <1>2, <1>3, <1>4
  <2>2. \A e : e \in Reported(c) \cup {EntryOf(x)} => e \in Reported(d)
    BY <1>1, <1>2, <1>3, <1>5, <1>6
  <2> QED BY <2>1, <2>2
<1>8. Unique(d)
  BY <1>2, <1>4 DEF Unique
<1>9. ToSet(d) = ToSet(c) \cup {x}
  <2>1. \A e : e \in ToSet(c) <=> \E i \in 1..Len(c) : e = c[i]
    BY DEF ToSet
  <2>2. \A e : e \in ToSet(d) <=> \E i \in 1..Len(d) : e = d[i]
    BY DEF ToSet
  <2>3. \A e : e \in ToSet(d) => e \in ToSet(c) \cup {x}
    BY <1>4, <2>1, <2>2
  <2>4. \A e : e \in ToSet(c) \cup {x} => e \in ToSet(d)
    BY <1>1, <1>5, <1>6, <2>1, <2>2
  <2> QED BY <2>3, <2>4
<1> QED BY <1>1, <1>7, <1>8, <1>9

\* Two results are added.
LEMMA ReportTwo ==
    ASSUME NEW c \in Seq(Completion), NEW u \in Completion, NEW v \in Completion, Unique(c),
           EntryOf(u) \notin Reported(c), EntryOf(v) \notin Reported(c), EntryOf(u) # EntryOf(v),
           NEW d, d = Both(c, u, v)
    PROVE  /\ d \in Seq(Completion) /\ Len(d) = Len(c) + 2 /\ Unique(d)
           /\ Reported(d) = Reported(c) \cup {EntryOf(u), EntryOf(v)}
           /\ ToSet(d) = ToSet(c) \cup {u, v}
<1>1. PICK f : f = Append(c, u)
  OBVIOUS
<1>2. /\ f \in Seq(Completion) /\ Len(f) = Len(c) + 1 /\ Unique(f)
      /\ Reported(f) = Reported(c) \cup {EntryOf(u)} /\ ToSet(f) = ToSet(c) \cup {u}
  BY <1>1, ReportPut
<1>3. PICK g : g = Append(f, v)
  OBVIOUS
<1>4. EntryOf(v) \notin Reported(f)
  BY <1>2
<1>5. /\ g \in Seq(Completion) /\ Len(g) = Len(f) + 1 /\ Unique(g)
      /\ Reported(g) = Reported(f) \cup {EntryOf(v)} /\ ToSet(g) = ToSet(f) \cup {v}
  <2>1. f \in Seq(Completion) /\ Unique(f)
    BY <1>2
  <2> QED BY <1>3, <1>4, <2>1, ReportPut
<1>6. d = g
  BY <1>1, <1>3 DEF Both
<1>7. Len(g) = Len(c) + 2
  BY <1>2, <1>5
<1>8. Reported(g) = Reported(c) \cup {EntryOf(u), EntryOf(v)} /\ ToSet(g) = ToSet(c) \cup {u, v}
  BY <1>2, <1>5
<1> QED BY <1>5, <1>6, <1>7, <1>8

\* The oldest result is taken.
LEMMA ReportPop ==
    ASSUME NEW c \in Seq(Completion), c # <<>>, Unique(c), NEW d, d = Tail(c)
    PROVE  /\ d \in Seq(Completion) /\ Len(d) = Len(c) - 1 /\ Unique(d)
           /\ Reported(d) = Reported(c) \ {EntryOf(Head(c))} /\ EntryOf(Head(c)) \in Reported(c)
           /\ ToSet(d) \subseteq ToSet(c) /\ Head(c) \in ToSet(c) /\ Head(c) \in Completion
<1>1. /\ Len(c) \in Nat /\ Len(c) # 0 /\ d \in Seq(Completion) /\ Len(d) = Len(c) - 1
      /\ Head(c) = c[1] /\ \A i \in 1..Len(d) : d[i] = c[i + 1]
  OBVIOUS
<1>2. \A e : e \in Reported(c) <=> \E i \in 1..Len(c) : e = EntryOf(c[i])
  BY DEF Reported, EntryOf
<1>3. \A e : e \in Reported(d) <=> \E i \in 1..Len(d) : e = EntryOf(d[i])
  BY DEF Reported, EntryOf
<1>4. 1 \in 1..Len(c) /\ \A i \in 1..Len(d) : i + 1 \in 1..Len(c) /\ i + 1 # 1
  BY <1>1
<1>5. ASSUME NEW i \in 1..Len(c), i # 1
      PROVE  \E j \in 1..Len(d) : d[j] = c[i]
  <2>1. i - 1 \in 1..Len(d) /\ (i - 1) + 1 = i
    BY <1>1, <1>5
  <2> QED BY <1>1, <2>1
<1>6. Reported(d) = Reported(c) \ {EntryOf(Head(c))}
  <2>1. ASSUME NEW e, e \in Reported(d) PROVE e \in Reported(c) /\ e # EntryOf(Head(c))
    <3>1. PICK i \in 1..Len(d) : e = EntryOf(d[i])
      BY <1>3, <2>1
    <3>2. PICK j \in 1..Len(c) : e = EntryOf(c[j]) /\ j # 1
      BY <1>1, <1>4, <3>1
    <3> QED BY <1>1, <1>2, <1>4, <3>2 DEF Unique
  <2>2. ASSUME NEW e, e \in Reported(c), e # EntryOf(Head(c)) PROVE e \in Reported(d)
    <3>1. PICK i \in 1..Len(c) : e = EntryOf(c[i])
      BY <1>2, <2>2
    <3> QED BY <1>1, <1>3, <1>5, <2>2, <3>1
  <2> QED BY <2>1, <2>2
<1>7. Unique(d)
  <2> SUFFICES ASSUME NEW i \in 1..Len(d), NEW j \in 1..Len(d), EntryOf(d[i]) = EntryOf(d[j])
               PROVE  i = j
    BY DEF Unique
  <2>1. i + 1 = j + 1
    BY <1>1, <1>4 DEF Unique
  <2> QED BY <2>1
<1>8. ToSet(d) \subseteq ToSet(c)
  <2>1. ASSUME NEW e, e \in ToSet(d) PROVE e \in ToSet(c)
    <3>1. PICK i \in 1..Len(d) : d[i] = e
      BY <2>1, Member
    <3>2. PICK j \in 1..Len(c) : c[j] = e
      BY <1>1, <1>4, <3>1
    <3> QED BY <3>2, Elements
  <2> QED BY <2>1
<1>9. EntryOf(Head(c)) \in Reported(c) /\ Head(c) \in ToSet(c) /\ Head(c) \in Completion
  BY <1>1, <1>2, <1>4, Elements
<1> QED BY <1>1, <1>6, <1>7, <1>8, <1>9

-----------------------------------------------------------------------------
(* The steps of ring_context                                               *)

\* The threads.
LEMMA ThreadFacts ==
    /\ Nobody \notin Threads /\ Context \in Threads /\ Context \notin Ops
    /\ \A o \in Ops : o \in Threads /\ o # Context
BY ThreadsDiffer DEF Threads, Context, Nobody

\* What is submitted, first and then.
LEMMA SubmitsFacts ==
    ASSUME NEW a \in Threads, NEW c \in Submits(a)
    PROVE  /\ c \in Seq(RingEntry) /\ ToSet(c) \subseteq RingEntry
           /\ c # <<>> => /\ Head(c) \in RingEntry /\ Tail(c) \in Submits(a)
                          /\ Head(c) \notin ToSet(Tail(c))
                          /\ ToSet(c) = {Head(c)} \cup ToSet(Tail(c))
<1>1. CASE c = <<>>
  BY <1>1 DEF ToSet
<1>2. ASSUME NEW e \in RingEntry, c = <<e>>
      PROVE  /\ c \in Seq(RingEntry) /\ Head(c) = e /\ Tail(c) = <<>>
             /\ ToSet(Tail(c)) = {} /\ ToSet(c) = {e}
  BY <1>2 DEF ToSet
<1>3. ASSUME NEW e \in RingEntry, NEW f \in RingEntry, e # f, c = <<e, f>>
      PROVE  /\ c \in Seq(RingEntry) /\ Head(c) = e /\ Tail(c) = <<f>>
             /\ ToSet(Tail(c)) = {f} /\ ToSet(c) = {e, f}
  <2>1. c \in Seq(RingEntry) /\ Head(c) = e /\ Tail(c) = <<f>> /\ Len(c) = 2 /\ c[1] = e /\ c[2] = f
    BY <1>3
  <2>2. ToSet(c) = {e, f}
    BY <2>1, Elements
  <2>3. ToSet(<<f>>) = {f}
    BY DEF ToSet
  <2> QED BY <2>1, <2>2, <2>3
<1>4. <<>> \in Submits(a)
  BY DEF Submits
<1>5. CASE \E e \in RingEntry : c = <<e>>
  <2>1. PICK e \in RingEntry : c = <<e>>
    BY <1>5
  <2> QED BY <1>2, <1>4, <2>1
<1>6. CASE \E o \in Ops : a = Context /\ c = <<CancelOf(o), IoOf(o)>>
  <2>1. PICK o \in Ops : a = Context /\ c = <<CancelOf(o), IoOf(o)>>
    BY <1>6
  <2>2. CancelOf(o) \in RingEntry /\ IoOf(o) \in RingEntry /\ CancelOf(o) # IoOf(o)
    BY EntryFacts
  <2>3. <<IoOf(o)>> \in Submits(a)
    BY <2>1 DEF Submits
  <2> QED BY <1>3, <2>1, <2>2, <2>3
<1>7. \/ c = <<>> \/ \E e \in RingEntry : c = <<e>>
      \/ \E o \in Ops : a = Context /\ c = <<CancelOf(o), IoOf(o)>>
  BY EntryFacts DEF Submits, Threads
<1> QED BY <1>1, <1>5, <1>6, <1>7

\* What is left to submit.
LEMMA RestFacts ==
    ASSUME RingTypes, Submitting
    PROVE  \A a \in Threads : /\ Rest(a) \in Submits(a) /\ ToSet(Rest(a)) \subseteq RingEntry
                              /\ ToSet(todo[a]) = ToSet(Rest(a))
                                    \cup (IF holder = a THEN {Head(todo[a])} ELSE {})
<1> SUFFICES ASSUME NEW a \in Threads
             PROVE  /\ Rest(a) \in Submits(a) /\ ToSet(Rest(a)) \subseteq RingEntry
                    /\ ToSet(todo[a]) = ToSet(Rest(a)) \cup (IF holder = a THEN {Head(todo[a])} ELSE {})
  OBVIOUS
<1>1. todo[a] \in Submits(a)
  BY DEF Submitting
<1>2. CASE holder = a
  <2>1. todo[a] # <<>>
    BY <1>2, ThreadFacts DEF Submitting
  <2>2. Rest(a) = Tail(todo[a])
    BY <1>2 DEF Rest
  <2> QED BY <1>1, <1>2, <2>1, <2>2, SubmitsFacts
<1>3. CASE holder # a
  <2>1. Rest(a) = todo[a]
    BY <1>3 DEF Rest
  <2> QED BY <1>1, <1>3, <2>1, SubmitsFacts
<1> QED BY <1>2, <1>3

\* What is not submitted is with its thread or in the submission ring.
LEMMA UnsubmittedFacts ==
    ASSUME RingTypes, Submitting
    PROVE  \A e : e \in Unsubmitted <=> e \in Waiting \/ e \in SqEntries
<1> SUFFICES ASSUME NEW e PROVE e \in Unsubmitted <=> e \in Waiting \/ e \in SqEntries
  OBVIOUS
<1>1. e \in Unsubmitted <=> (\E a \in Threads : e \in ToSet(todo[a])) \/ e \in SqEntries
  BY DEF Unsubmitted
<1>2. e \in Waiting <=> \E a \in Threads : e \in ToSet(Rest(a))
  BY DEF Waiting
<1>3. \A a \in Threads : e \in ToSet(todo[a]) <=>
        e \in ToSet(Rest(a)) \/ (holder = a /\ e = Head(todo[a]))
  BY RestFacts
<1>4. \A a \in Threads : holder = a /\ e = Head(todo[a]) => e \in SqEntries
  BY ThreadFacts DEF Submitting
<1> QED BY <1>1, <1>2, <1>3, <1>4

\* With ring_context the rings, the kernel and the threads that submit hold
\* something.
LEMMA RingHeld ==
    /\ PollInit /\ RingTypes /\ Submitting =>
         \A e : e \in Held <=> e \in Waiting \/ e \in SqEntries \/ e \in kernel \/ e \in CqEntries
    /\ PollInit' /\ RingTypes' /\ Submitting' =>
         \A e : e \in Held' <=> e \in Waiting' \/ e \in SqEntries' \/ e \in kernel' \/ e \in CqEntries'
<1>1. PollInit /\ RingTypes /\ Submitting =>
        \A e : e \in Held <=> e \in Waiting \/ e \in SqEntries \/ e \in kernel \/ e \in CqEntries
  <2> SUFFICES ASSUME PollInit, RingTypes, Submitting, NEW e
               PROVE  e \in Held <=> e \in Waiting \/ e \in SqEntries \/ e \in kernel \/ e \in CqEntries
    OBVIOUS
  <2>1. ToSet(ops) = {} /\ ToSet(timers) = {}
    BY DEF PollInit, ToSet
  <2>2. e \in Held <=> e \in ToSet(ops) \/ e \in ToSet(timers) \/ e \in Unsubmitted
                       \/ e \in kernel \/ e \in CqEntries
    BY Zenon DEF Held
  <2> QED BY <2>1, <2>2, UnsubmittedFacts
<1>2. (PollInit /\ RingTypes /\ Submitting =>
        \A e : e \in Held <=> e \in Waiting \/ e \in SqEntries \/ e \in kernel \/ e \in CqEntries)'
  BY <1>1, PTL
<1> QED BY <1>1, <1>2

\* What is known before a step.
LEMMA RingFacts ==
    ASSUME IInv, d_context = "ring", UNCHANGED <<d_context, pollVars>>
    PROVE  /\ PollInit /\ PollInit' /\ RingOk
           /\ \A e : e \in Held <=> e \in Waiting \/ e \in SqEntries \/ e \in kernel \/ e \in CqEntries
<1>1. PollInit /\ PollInit' /\ RingOk
  BY DEF IInv, PollInit, pollVars
<1> QED BY <1>1, RingHeld DEF RingOk

\* What has to be shown of a step.
LEMMA RingKeeps ==
    ASSUME IInv, d_context = "ring", UNCHANGED <<d_context, pollVars>>,
           IoTypes', OpsOk', Callbacks', RingTypes', Submitting', OnePlace', Window(sq'), Canceled', RingAccounts'
    PROVE  IInv'
<1>1. PollInit'
  BY RingFacts
<1>2. Iterator'
  BY <1>1, Zenon DEF Iterator, PollInit
<1> QED BY <1>1, <1>2 DEF IInv, RingOk

\* The results in the ring are those of operations that are held.
LEMMA ReportedHeld ==
    ASSUME cq \in Seq(Completion)
    PROVE  \A x \in ToSet(cq) : x \in Completion /\ EntryOf(x) \in CqEntries
<1> SUFFICES ASSUME NEW x \in ToSet(cq) PROVE x \in Completion /\ EntryOf(x) \in CqEntries
  OBVIOUS
<1>1. PICK i \in 1..Len(cq) : cq[i] = x
  BY Member
<1> QED BY <1>1 DEF CqEntries, EntryOf

\* The operation states change, but not whether they are cancelled.
LEMMA CanceledFrame ==
    ASSUME IInv, d_context = "ring", UNCHANGED <<d_context, pollVars>>, cq' = cq,
           \A o \in Ops : IoOf(o) \in Held => st'[o].cancelled = st[o].cancelled
    PROVE  Canceled'
<1> SUFFICES ASSUME NEW x \in ToSet(cq), x.kind = "io", x.result = "ECANCELED"
             PROVE  CancelOf(x.of) \in CqEntries' \/ st'[x.of].cancelled
  BY DEF Canceled
<1>1. x \in Completion /\ EntryOf(x) \in CqEntries
  BY RingFacts, ReportedHeld DEF RingOk, RingTypes
<1>2. EntryOf(x) = IoOf(x.of) /\ x.of \in Ops
  BY <1>1, CompletionFacts
<1>3. IoOf(x.of) \in Held
  BY <1>1, <1>2, RingFacts
<1>4. CancelOf(x.of) \in CqEntries \/ st[x.of].cancelled
  BY RingFacts DEF RingOk, Canceled
<1>5. CqEntries' = CqEntries
  BY DEF CqEntries
<1> QED BY <1>2, <1>3, <1>4, <1>5

\* No stop callback is called, entered or left dangling.
LEMMA CallbacksStay ==
    ASSUME IInv, d_context = "ring", UNCHANGED <<d_context, pollVars>>,
           callback' = callback, stopped' = stopped, missed' \subseteq Ops,
           \A o \in Ops : callback[o] # "none" => (st'[o].engaged <=> st[o].engaged)
    PROVE  Callbacks' /\ Heard' = Heard
<1>1. Callbacks
  BY RingFacts DEF RingOk
<1>2. Heard' = Heard
  BY DEF Heard
<1> QED BY <1>1, <1>2 DEF Callbacks

\* Nothing happens to the rings.
LEMMA RingStill ==
    ASSUME IInv, d_context = "ring", UNCHANGED <<d_context, pollVars>>,
           UNCHANGED <<sq, cq, kernel, d_count, todo, holder, failures>>
    PROVE  /\ RingTypes' /\ Submitting' /\ OnePlace' /\ Window(sq') /\ RingAccounts'
           /\ \A e : e \in Held' <=> e \in Held
<1>1. UNCHANGED <<sq, cq, kernel, d_count, todo, holder, failures, ops, timers>>
  BY DEF pollVars
<1>2. RingOk
  BY RingFacts
<1>3. SqEntries' = SqEntries /\ CqEntries' = CqEntries
  BY <1>1 DEF SqEntries, CqEntries
<1>4. \A a : Rest(a)' = Rest(a)
  BY <1>1 DEF Rest
<1>5. Waiting' = Waiting
  BY <1>4 DEF Waiting
<1>6. RingTypes'
  BY <1>1, <1>2 DEF RingOk, RingTypes
<1>7. Submitting'
  BY <1>1, <1>2, <1>3 DEF RingOk, Submitting
<1>8. OnePlace'
  BY <1>1, <1>2, <1>3, <1>4, <1>5 DEF RingOk, OnePlace
<1>9. Window(sq') /\ RingAccounts'
  BY <1>1, <1>2, <1>3 DEF RingOk, RingAccounts
<1>10. \A e : e \in Held' <=> e \in Held
  BY <1>1, <1>3, <1>5, <1>6, <1>7, RingFacts, RingHeld
<1> QED BY <1>6, <1>7, <1>8, <1>9, <1>10

\* The completed receiver destroys the operation state; a callback that was
\* called and is not entered yet is left dangling.
LEMMA RingDestroyStep ==
    ASSUME IInv, d_context = "ring", UNCHANGED <<d_context, pollVars>>, NEW o \in Ops,
           RingDestroy(o)
    PROVE  IInv'
<1>1. /\ st[o].outcome # <<>> /\ st' = [st EXCEPT ![o] = Fresh]
      /\ callback' = [callback EXCEPT ![o] = IF @ = "called" THEN "dangling" ELSE @]
      /\ missed' = missed \ {o}
      /\ UNCHANGED <<stopped, wait, run, again, sq, cq, kernel, d_count, todo, holder, failures>>
  BY DEF RingDestroy, Destroy, Completed
<1>2. /\ RingTypes' /\ Submitting' /\ OnePlace' /\ Window(sq') /\ RingAccounts'
      /\ \A e : e \in Held' <=> e \in Held
  BY <1>1, RingStill
<1>3. OpOk(st[o], o, Held, Heard) /\ st \in [Ops -> OpState]
  BY DEF IInv, IoTypes, OpsOk
<1>4. Callbacks
  BY RingFacts DEF RingOk
<1>5. OpOk(Fresh, o, Held', Heard')
  <2>1. OpOk(Fresh, o, Held, Heard')
    BY <1>1, <1>3, DestroyOk
  <2> QED BY <1>2, <2>1, OpFrame
<1>6. \A u \in Ops : u # o => callback'[u] = callback[u] /\ st'[u] = st[u]
  BY <1>1, <1>3, <1>4 DEF Callbacks
<1>7. OpsOk' /\ st' \in [Ops -> OpState]
  <2>1. \A u \in Ops : u # o => (u \in Heard' <=> u \in Heard)
    BY <1>1, <1>6 DEF Heard
  <2> QED BY <1>1, <1>2, <1>5, <2>1, OpChange
<1>8. Canceled'
  <2>1. IoOf(o) \notin Held
    BY <1>1, <1>3 DEF OpOk
  <2> QED BY <1>1, <1>6, <2>1, CanceledFrame
<1>9. Callbacks'
  <2>1. callback' \in [Ops -> {"none", "called", "dangling"}] /\ callback'[o] # "called"
    BY <1>1, <1>4 DEF Callbacks
  <2>2. ~st'[o].engaged
    BY <1>1, <1>3 DEF Fresh
  <2> QED BY <1>1, <1>4, <1>6, <2>1, <2>2 DEF Callbacks
<1>10. IoTypes'
  BY <1>1, <1>7 DEF IInv, IoTypes
<1> QED BY <1>2, <1>7, <1>8, <1>9, <1>10, RingKeeps

\* run() is called, or returns; the thread of the context spins in start().
LEMMA RingRunStep ==
    ASSUME IInv, d_context = "ring", UNCHANGED <<d_context, pollVars>>,
           \/ RunBegin /\ UNCHANGED ringVars
           \/ RingDrained \/ RingInterrupted
           \/ \E o \in Ops : RingStartSpins(o)
    PROVE  IInv'
<1>1. UNCHANGED <<st, stopped, wait>> /\ UNCHANGED ringVars
  BY DEF RunBegin, RingDrained, RingInterrupted, RingStartSpins
<1>2. run' \in {"running", "drained", "failed", "spinning"} /\ again' \in BOOLEAN
  BY DEF RunBegin, RingDrained, RingInterrupted, RingStartSpins, IInv, IoTypes
<1>3. /\ RingTypes' /\ Submitting' /\ OnePlace' /\ Window(sq') /\ RingAccounts'
      /\ \A e : e \in Held' <=> e \in Held
  BY <1>1, RingStill DEF ringVars
<1>4. Callbacks' /\ Heard' = Heard
  <2>1. missed' \subseteq Ops
    BY <1>1, RingFacts DEF ringVars, RingOk, Callbacks
  <2> QED BY <1>1, <2>1, CallbacksStay DEF ringVars
<1>5. OpsOk'
  BY <1>1, <1>3, <1>4, NoChange
<1>6. Canceled'
  BY <1>1, CanceledFrame DEF ringVars
<1>7. IoTypes'
  BY <1>1, <1>2 DEF IInv, IoTypes
<1> QED BY <1>3, <1>4, <1>5, <1>6, <1>7, RingKeeps

\* A thread begins to submit what is not held.
LEMMA MoreToSubmit ==
    ASSUME IInv, d_context = "ring", UNCHANGED <<d_context, pollVars>>,
           UNCHANGED <<sq, cq, kernel, d_count, holder, failures>>,
           NEW a \in Threads, todo[a] = <<>>, NEW c \in Submits(a), \A e \in ToSet(c) : e \notin Held,
           todo' = [todo EXCEPT ![a] = c]
    PROVE  /\ RingTypes' /\ Submitting' /\ OnePlace' /\ Window(sq') /\ RingAccounts'
           /\ \A e : e \in Held' <=> e \in Held \/ e \in ToSet(c)
<1>1. RingTypes /\ Submitting /\ OnePlace /\ Window(sq) /\ RingAccounts
  BY RingFacts DEF RingOk
<1>2. holder # a
  BY <1>1, ThreadFacts DEF Submitting
<1>3. todo \in [Threads -> Seq(RingEntry)] /\ c \in Seq(RingEntry)
  BY <1>1, SubmitsFacts DEF RingTypes
<1>4. todo'[a] = c /\ \A b \in Threads : b # a => todo'[b] = todo[b]
  BY <1>3
<1>5. SqEntries' = SqEntries /\ CqEntries' = CqEntries
  BY DEF SqEntries, CqEntries
<1>6. RingTypes'
  BY <1>1, <1>3 DEF RingTypes
<1>7. Submitting'
  <2>1. \A b \in Threads : todo'[b] \in Submits(b)
    BY <1>1, <1>4 DEF Submitting
  <2>2. holder # Nobody => todo'[holder] = todo[holder]
    BY <1>1, <1>2, <1>4 DEF RingTypes
  <2> QED BY <1>1, <1>5, <2>1, <2>2 DEF Submitting
<1>8. Rest(a)' = c /\ Rest(a) = <<>> /\ \A b \in Threads : b # a => Rest(b)' = Rest(b)
  BY <1>2, <1>4 DEF Rest
<1>9. \A e : e \in Waiting' <=> e \in Waiting \/ e \in ToSet(c)
  <2>1. \A e : e \in Waiting <=> \E b \in Threads : e \in ToSet(Rest(b))
    BY DEF Waiting
  <2>2. \A e : e \in Waiting' <=> \E b \in Threads : e \in ToSet(Rest(b)')
    BY DEF Waiting
  <2>3. ToSet(<<>>) = {}
    BY DEF ToSet
  <2> QED BY <1>8, <2>1, <2>2, <2>3
<1>10. \A e : e \in Held' <=> e \in Held \/ e \in ToSet(c)
  BY <1>5, <1>6, <1>7, <1>9, RingFacts, RingHeld
<1>11. OnePlace'
  <2>1. \A e \in Waiting' : e \notin SqEntries /\ e \notin kernel /\ e \notin CqEntries
    BY <1>1, <1>9, RingFacts DEF OnePlace
  <2>2. ASSUME NEW b \in Threads, NEW d \in Threads, NEW e \in RingEntry,
               e \in ToSet(Rest(b)'), e \in ToSet(Rest(d)')
        PROVE  b = d
    <3>1. ASSUME NEW t \in Threads, t # a, e \in ToSet(Rest(t)') PROVE e \in Held
      <4>1. e \in ToSet(Rest(t))
        BY <1>8, <3>1
      <4>2. e \in Waiting
        BY <4>1 DEF Waiting
      <4> QED BY <4>2, RingFacts
    <3>2. CASE b # a /\ d # a
      BY <1>1, <1>8, <2>2, <3>2 DEF OnePlace
    <3>3. CASE b = a \/ d = a
      BY <1>8, <2>2, <3>1, <3>3
    <3> QED BY <3>2, <3>3
  <2> QED BY <1>1, <1>5, <2>1, <2>2 DEF OnePlace
<1>12. Window(sq') /\ RingAccounts'
  BY <1>1, <1>5 DEF RingAccounts
<1> QED BY <1>6, <1>7, <1>10, <1>11, <1>12

\* start(): the operation is submitted, after its cancellation when a stop
\* was requested before.
LEMMA RingStartStep ==
    ASSUME IInv, d_context = "ring", UNCHANGED <<d_context, pollVars>>,
           NEW o \in Ops, RingStart(o)
    PROVE  IInv'
<1>1. /\ todo[Context] = <<>> /\ ~st[o].engaged /\ callback[o] = "none"
      /\ UNCHANGED <<stopped, wait, run, sq, cq, kernel, d_count, holder, failures, again>>
      /\ UNCHANGED <<callback, missed>>
  BY DEF RingStart, ContextFree
<1>2. PICK s : s = IF o \in stopped THEN Counted(Engaged(st[o])) ELSE Engaged(st[o])
  OBVIOUS
<1>3. PICK c : c = IF o \in stopped THEN <<CancelOf(o), IoOf(o)>> ELSE <<IoOf(o)>>
  OBVIOUS
<1>4. st' = [st EXCEPT ![o] = s] /\ todo' = [todo EXCEPT ![Context] = c]
  BY <1>2, <1>3 DEF RingStart
<1>5. c \in Submits(Context)
  BY <1>3 DEF Submits
<1>6. \A e : e \in ToSet(c) <=> e = IoOf(o) \/ (e = CancelOf(o) /\ o \in stopped)
  <2>1. CASE o \in stopped
    <3>1. c = <<CancelOf(o), IoOf(o)>>
      BY <1>3, <2>1
    <3>2. Len(c) = 2 /\ c[1] = CancelOf(o) /\ c[2] = IoOf(o) /\ c \in Seq({CancelOf(o), IoOf(o)})
      BY <3>1
    <3>3. \A e : e \in ToSet(c) <=> \E i \in 1..2 : c[i] = e
      BY <3>2, Elements
    <3> QED BY <2>1, <3>2, <3>3
  <2>2. CASE o \notin stopped
    <3>1. c = <<IoOf(o)>>
      BY <1>3, <2>2
    <3>2. ToSet(c) = {IoOf(o)}
      BY <3>1 DEF ToSet
    <3> QED BY <2>2, <3>2
  <2> QED BY <2>1, <2>2
<1>7. OpOk(st[o], o, Held, Heard)
  BY DEF IInv, OpsOk
<1>8. IoOf(o) \notin Held /\ CancelOf(o) \notin Held
  BY <1>1, <1>7 DEF OpOk
<1>9. /\ RingTypes' /\ Submitting' /\ OnePlace' /\ Window(sq') /\ RingAccounts'
      /\ \A e : e \in Held' <=> e \in Held \/ e \in ToSet(c)
  <2>1. \A e \in ToSet(c) : e \notin Held
    BY <1>6, <1>8
  <2> QED BY <1>1, <1>4, <1>5, <2>1, MoreToSubmit, ThreadFacts
<1>9a. Callbacks' /\ Heard' = Heard /\ (o \in Heard <=> o \in stopped)
  <2>1. missed' \subseteq Ops
    BY <1>1, RingFacts DEF RingOk, Callbacks
  <2>2. \A u \in Ops : u # o => st'[u] = st[u]
    BY <1>4 DEF IInv, IoTypes
  <2>3. \A u \in Ops : callback[u] # "none" => (st'[u].engaged <=> st[u].engaged)
    BY <1>1, <2>2
  <2>4. o \in Heard <=> o \in stopped
    BY <1>1 DEF Heard
  <2> QED BY <1>1, <2>1, <2>3, <2>4, CallbacksStay
<1>10. OpOk(s, o, Held', Heard)
  <2>1. IoOf(o) \in Held' /\ (CancelOf(o) \in Held' <=> o \in Heard)
    BY <1>6, <1>8, <1>9, <1>9a, EntryFacts
  <2>2. s = IF o \in Heard THEN Counted(Engaged(st[o])) ELSE Engaged(st[o])
    BY <1>2, <1>9a
  <2> QED BY <1>1, <1>7, <2>1, <2>2, EngageOk
<1>11. OpsOk' /\ st' \in [Ops -> OpState]
  BY <1>1, <1>4, <1>6, <1>9, <1>9a, <1>10, OpChange
<1>12. Canceled'
  <2>1. \A u \in Ops : u # o => st'[u] = st[u]
    BY <1>4 DEF IInv, IoTypes
  <2> QED BY <1>1, <1>8, <2>1, CanceledFrame
<1>13. IoTypes'
  BY <1>1, <1>11 DEF IInv, IoTypes, Iterator
<1> QED BY <1>9, <1>9a, <1>11, <1>12, <1>13, RingKeeps

\* A stop is requested on another thread: the callback is called, unless there
\* is none yet.
LEMMA RingStopStep ==
    ASSUME IInv, d_context = "ring", UNCHANGED <<d_context, pollVars>>,
           NEW o \in Ops, RingStop(o)
    PROVE  IInv'
<1>1. /\ o \notin stopped /\ stopped' = stopped \cup {o}
      /\ callback' = IF st[o].engaged THEN [callback EXCEPT ![o] = "called"] ELSE callback
      /\ UNCHANGED <<st, wait, run, again, sq, cq, kernel, d_count, todo, holder, failures, missed>>
  BY DEF RingStop
<1>2. Callbacks
  BY RingFacts DEF RingOk
<1>3. /\ RingTypes' /\ Submitting' /\ OnePlace' /\ Window(sq') /\ RingAccounts'
      /\ \A e : e \in Held' <=> e \in Held
  BY <1>1, RingStill
<1>4. Callbacks'
  <2>1. callback' \in [Ops -> {"none", "called", "dangling"}]
    BY <1>1, <1>2 DEF Callbacks
  <2>2. \A u \in Ops : callback'[u] = IF u = o /\ st[o].engaged THEN "called" ELSE callback[u]
    BY <1>1, <1>2 DEF Callbacks
  <2> QED BY <1>1, <1>2, <2>1, <2>2 DEF Callbacks
<1>5. \A u \in Ops : u # o => (u \in Heard' <=> u \in Heard)
  BY <1>1, <1>2 DEF Heard, Callbacks
<1>6. OpOk(st[o], o, Held, Heard) /\ o \notin Heard
  BY <1>1 DEF IInv, OpsOk, Heard
<1>7. OpOk(st[o], o, Held', Heard')
  <2>1. CASE st[o].engaged
    <3>1. o \notin Heard'
      BY <1>1, <1>2, <2>1 DEF Heard, Callbacks
    <3> QED BY <1>3, <1>6, <3>1, OpFrame
  <2>2. CASE ~st[o].engaged
    BY <1>3, <1>6, <2>2 DEF OpOk, Fresh
  <2> QED BY <2>1, <2>2
<1>8. OpsOk'
  <2>1. st' = [st EXCEPT ![o] = st[o]]
    BY <1>1 DEF IInv, IoTypes
  <2> QED BY <1>1, <1>3, <1>5, <1>7, <2>1, OpChange
<1>9. Canceled'
  BY <1>1, CanceledFrame
<1>10. IoTypes'
  BY <1>1 DEF IInv, IoTypes
<1> QED BY <1>3, <1>4, <1>8, <1>9, <1>10, RingKeeps

\* The stop callback is entered: it counts the cancellation, and submits it
\* unless the operation is completed.
LEMMA CancelCountsStep ==
    ASSUME IInv, d_context = "ring", UNCHANGED <<d_context, pollVars>>,
           NEW o \in Ops, CancelCounts(o)
    PROVE  IInv'
<1>1. /\ callback[o] = "called" /\ callback' = [callback EXCEPT ![o] = "none"]
      /\ UNCHANGED <<stopped, wait, run, sq, cq, kernel, d_count, holder, failures, missed, again>>
  BY DEF CancelCounts
<1>1a. Callbacks
  BY RingFacts DEF RingOk
<1>1b. st[o].engaged /\ o \notin Heard /\ o \in Heard'
  BY <1>1, <1>1a DEF Callbacks, Heard
<1>1c. \A u \in Ops : u # o => (u \in Heard' <=> u \in Heard)
  BY <1>1, <1>1a DEF Callbacks, Heard
<1>2. OpOk(st[o], o, Held, Heard)
  BY DEF IInv, OpsOk
<1>3. CancelOf(o) \notin Held
  BY <1>1b, <1>2 DEF OpOk
<1>4. RingTypes /\ Submitting /\ o \in Threads
  BY RingFacts, ThreadFacts DEF RingOk
<1>5. todo[o] = <<>>
  <2>1. todo[o] \in {<<>>, <<CancelOf(o)>>}
    BY <1>4, ThreadFacts DEF Submitting, Submits
  <2>2. CASE todo[o] = <<CancelOf(o)>>
    <3>1. CancelOf(o) \in ToSet(todo[o])
      BY <2>2 DEF ToSet
    <3>2. CancelOf(o) \in Unsubmitted
      BY <1>4, <3>1 DEF Unsubmitted
    <3> QED BY <1>3, <3>2 DEF Held
  <2> QED BY <2>1, <2>2
<1>6. PICK x : x = Counted(st[o])
  OBVIOUS
<1>7. PICK c : c = IF Cancels(Counted(st[o])) THEN <<CancelOf(o)>> ELSE <<>>
  OBVIOUS
<1>8. st' = [st EXCEPT ![o] = x]
  BY <1>6 DEF CancelCounts
<1>9. todo' = [todo EXCEPT ![o] = c]
  <2>1. todo = [todo EXCEPT ![o] = <<>>]
    BY <1>4, <1>5 DEF RingTypes
  <2> QED BY <1>7, <2>1 DEF CancelCounts
<1>10. c \in Submits(o)
  BY <1>7, ThreadFacts DEF Submits
<1>11. \A e : e \in ToSet(c) <=> e = CancelOf(o) /\ Cancels(Counted(st[o]))
  BY <1>7 DEF ToSet
<1>12. /\ RingTypes' /\ Submitting' /\ OnePlace' /\ Window(sq') /\ RingAccounts'
       /\ \A e : e \in Held' <=> e \in Held \/ e \in ToSet(c)
  <2>1. \A e \in ToSet(c) : e \notin Held
    BY <1>3, <1>11
  <2> QED BY <1>1, <1>4, <1>5, <1>9, <1>10, <2>1, MoreToSubmit
<1>13. OpOk(x, o, Held', Heard')
  <2>2. /\ IoOf(o) \in Held' <=> IoOf(o) \in Held
        /\ CancelOf(o) \in Held' <=>
             CancelOf(o) \in Held \/ (st[o].engaged /\ Cancels(Counted(st[o])))
    BY <1>1b, <1>11, <1>12, EntryFacts
  <2>3. OpOk(Counted(st[o]), o, Held', Heard')
    BY <1>1b, <1>2, <2>2, StopOk
  <2> QED BY <1>6, <2>3
<1>14. OpsOk' /\ st' \in [Ops -> OpState]
  BY <1>1, <1>1c, <1>8, <1>11, <1>12, <1>13, OpChange
<1>15. Canceled'
  <2>1. \A u \in Ops : st'[u] = IF u = o THEN x ELSE st[u]
    BY <1>8 DEF IInv, IoTypes
  <2>2. x.cancelled = st[o].cancelled
    BY <1>2, <1>6 DEF Counted, OpOk, OpState
  <2>3. \A u \in Ops : st'[u].cancelled = st[u].cancelled
    BY <2>1, <2>2
  <2> QED BY <1>1, <2>3, CanceledFrame
<1>16. IoTypes'
  BY <1>1, <1>14 DEF IInv, IoTypes
<1>17. Callbacks'
  <2>1. callback' \in [Ops -> {"none", "called", "dangling"}]
    BY <1>1, <1>1a DEF Callbacks
  <2>2. \A u \in Ops : callback'[u] = IF u = o THEN "none" ELSE callback[u]
    BY <1>1, <1>1a DEF Callbacks
  <2>3. \A u \in Ops : u # o => st'[u] = st[u]
    BY <1>8 DEF IInv, IoTypes
  <2> QED BY <1>1, <1>1a, <2>1, <2>2, <2>3 DEF Callbacks
<1> QED BY <1>12, <1>14, <1>15, <1>16, <1>17, RingKeeps

\* A dangling callback is entered: undefined behaviour, and nothing after it.
LEMMA CancelDanglesStep ==
    ASSUME IInv, d_context = "ring", UNCHANGED <<d_context, pollVars>>,
           NEW o \in Ops, CancelDangles(o)
    PROVE  IInv'
<1>1. /\ callback[o] = "dangling" /\ callback' = [callback EXCEPT ![o] = "none"]
      /\ run' = "undefined"
      /\ UNCHANGED <<st, stopped, wait, again, sq, cq, kernel, d_count, todo, holder, failures, missed>>
  BY DEF CancelDangles
<1>2. Callbacks
  BY RingFacts DEF RingOk
<1>3. /\ RingTypes' /\ Submitting' /\ OnePlace' /\ Window(sq') /\ RingAccounts'
      /\ \A e : e \in Held' <=> e \in Held
  BY <1>1, RingStill
<1>4. \A u \in Ops : callback'[u] = IF u = o THEN "none" ELSE callback[u]
  BY <1>1, <1>2 DEF Callbacks
<1>5. Callbacks'
  <2>1. callback' \in [Ops -> {"none", "called", "dangling"}]
    BY <1>1, <1>2 DEF Callbacks
  <2> QED BY <1>1, <1>2, <1>4, <2>1 DEF Callbacks
<1>6. Heard' = Heard
  BY <1>1, <1>4 DEF Heard
<1>7. OpsOk'
  BY <1>1, <1>3, <1>6, NoChange
<1>8. Canceled'
  BY <1>1, CanceledFrame
<1>9. IoTypes'
  BY <1>1 DEF IInv, IoTypes
<1> QED BY <1>3, <1>5, <1>7, <1>8, <1>9, RingKeeps

\* schedule() and async_wait().
LEMMA RingWaitStep ==
    ASSUME IInv, d_context = "ring", UNCHANGED <<d_context, pollVars>>,
           NEW w \in Waits, RingWait(w)
    PROVE  IInv'
<1>1. /\ todo[Context] = <<>> /\ wait[w] = "idle" /\ wait' = [wait EXCEPT ![w] = "queued"]
      /\ todo' = [todo EXCEPT ![Context] = <<TimerOf(w)>>]
      /\ UNCHANGED <<st, stopped, run, sq, cq, kernel, d_count, holder, failures, again>>
      /\ UNCHANGED <<callback, missed>>
  BY DEF RingWait, ContextFree
<1>2. NopOf(w) \notin Held /\ TimerOf(w) \notin Held
  BY <1>1 DEF IInv, OpsOk, WaitOk
<1>3. PICK c \in Submits(Context) : c = <<TimerOf(w)>>
  BY DEF Submits
<1>4. ToSet(c) = {TimerOf(w)}
  BY <1>3 DEF ToSet
<1>5. /\ RingTypes' /\ Submitting' /\ OnePlace' /\ Window(sq') /\ RingAccounts'
      /\ \A e : e \in Held' <=> e \in Held \/ e \in ToSet(c)
  BY <1>1, <1>2, <1>3, <1>4, MoreToSubmit, ThreadFacts
<1>6. WaitOk("queued", w, Held')
  BY <1>2, <1>4, <1>5, EntryFacts DEF WaitOk
<1>6a. Callbacks' /\ Heard' = Heard
  <2>1. missed' \subseteq Ops
    BY <1>1, RingFacts DEF RingOk, Callbacks
  <2> QED BY <1>1, <2>1, CallbacksStay
<1>7. OpsOk' /\ wait' \in [Waits -> {"idle", "queued"}]
  BY <1>1, <1>4, <1>5, <1>6, <1>6a, WaitChange
<1>8. Canceled'
  BY <1>1, CanceledFrame
<1>9. IoTypes'
  BY <1>1, <1>7 DEF IInv, IoTypes, Iterator
<1> QED BY <1>5, <1>6a, <1>7, <1>8, <1>9, RingKeeps

\* An entry moves from the thread into the submission ring.
LEMMA FillStep ==
    ASSUME IInv, d_context = "ring", UNCHANGED <<d_context, pollVars>>,
           NEW a \in Threads, Fill(a)
    PROVE  IInv'
<1>1. RingTypes /\ Submitting /\ OnePlace /\ Window(sq) /\ RingAccounts
  BY RingFacts DEF RingOk
<1>2. /\ todo[a] # <<>> /\ holder = Nobody /\ holder' = a
      /\ sq' = Put(sq, Head(todo[a])) /\ d_count' = d_count + 1
      /\ UNCHANGED <<st, stopped, wait, run, again, cq, kernel, todo, failures, callback, missed>>
  BY DEF Fill, ioVars
<1>3. PICK e : e = Head(todo[a])
  OBVIOUS
<1>4. /\ e \in RingEntry /\ Tail(todo[a]) \in Submits(a) /\ e \notin ToSet(Tail(todo[a]))
      /\ ToSet(todo[a]) = {e} \cup ToSet(Tail(todo[a]))
  BY <1>1, <1>2, <1>3, SubmitsFacts DEF Submitting
<1>5. \A b \in Threads : Rest(b) = todo[b]
  BY <1>2, ThreadFacts DEF Rest
<1>6. Rest(a)' = Tail(todo[a]) /\ \A b \in Threads : b # a => Rest(b)' = todo[b]
  BY <1>2, ThreadFacts DEF Rest
<1>7. \A x : x \in Waiting <=> \E b \in Threads : x \in ToSet(Rest(b))
  BY DEF Waiting
<1>8. \A x : x \in Waiting' <=> \E b \in Threads : x \in ToSet(Rest(b)')
  BY DEF Waiting
<1>9. e \in Waiting
  BY <1>4, <1>5, <1>7
<1>10. \A b \in Threads : b # a => e \notin ToSet(todo[b])
  BY <1>1, <1>4, <1>5 DEF OnePlace
<1>11. \A x : x \in Waiting' <=> x \in Waiting /\ x # e
  BY <1>4, <1>5, <1>6, <1>7, <1>8, <1>10
<1>12. e \notin SqEntries /\ e \notin kernel /\ e \notin CqEntries
  BY <1>1, <1>9 DEF OnePlace
<1>13. Used(sq) = failures /\ failures < Size /\ failures \in Nat
  BY <1>1, <1>2, RingAssumption DEF RingAccounts, RingTypes
<1>14. PICK q : q = Put(sq, e) /\ q = sq'
  BY <1>2, <1>3
<1>15. /\ q \in Ring /\ Window(q) /\ Used(q) = Used(sq) + 1
       /\ \E i \in Slots : sq.slot[i] = Empty /\ q.slot = [sq.slot EXCEPT ![i] = e]
  <2>1. sq \in Ring /\ Window(sq) /\ Used(sq) < Size
    BY <1>1, <1>13 DEF RingTypes
  <2> QED BY <1>4, <1>14, <2>1, PutFacts
<1>16. SqEntries = Entries(sq.slot) /\ SqEntries' = Entries(q.slot)
  BY <1>14 DEF SqEntries, Entries
<1>17. SqEntries' = SqEntries \cup {e} /\ Once(q.slot)
  <2>1. PICK i \in Slots : sq.slot[i] = Empty /\ q.slot = [sq.slot EXCEPT ![i] = e]
    BY <1>15
  <2>2. sq.slot \in [Slots -> RingEntry \cup {Empty}] /\ Once(sq.slot)
    BY <1>1 DEF RingTypes, Ring, OnePlace
  <2>3. PICK f, g : f = sq.slot /\ g = q.slot
    OBVIOUS
  <2>4. Entries(g) = Entries(f) \cup {e} /\ Once(g)
    BY <1>4, <1>12, <1>16, <2>1, <2>2, <2>3, SlotPut
  <2> QED BY <1>16, <2>3, <2>4
<1>18. CqEntries' = CqEntries
  BY <1>2 DEF CqEntries
<1>19. RingTypes'
  <2>1. d_count + 1 \in Nat
    BY <1>1 DEF RingTypes
  <2> QED BY <1>1, <1>2, <1>14, <1>15, <2>1 DEF RingTypes
<1>20. Submitting'
  BY <1>1, <1>2, <1>3, <1>17 DEF Submitting
<1>21. \A x : x \in Held' <=> x \in Held
  <2>1. \A x : x \in Held' <=> x \in Waiting' \/ x \in SqEntries' \/ x \in kernel' \/ x \in CqEntries'
    BY <1>19, <1>20, RingFacts, RingHeld
  <2> QED BY <1>2, <1>9, <1>11, <1>17, <1>18, <2>1, RingFacts
<1>22. OnePlace'
  <2>1. ASSUME NEW b \in Threads, NEW d \in Threads, NEW x \in RingEntry,
               x \in ToSet(Rest(b)'), x \in ToSet(Rest(d)')
        PROVE  b = d
    <3>1. x \in ToSet(Rest(b)) /\ x \in ToSet(Rest(d))
      BY <1>4, <1>5, <1>6, <2>1
    <3> QED BY <1>1, <3>1 DEF OnePlace
  <2>2. \A x \in Waiting' : x \notin SqEntries' /\ x \notin kernel' /\ x \notin CqEntries'
    BY <1>1, <1>2, <1>11, <1>17, <1>18 DEF OnePlace
  <2>3. \A x \in SqEntries' : x \notin kernel' /\ x \notin CqEntries'
    BY <1>1, <1>2, <1>12, <1>17, <1>18 DEF OnePlace
  <2>4. (\A x \in kernel' : x \notin CqEntries') /\ Unique(cq') /\ Once(sq'.slot)
    BY <1>1, <1>2, <1>14, <1>17, <1>18 DEF OnePlace
  <2> QED BY <2>1, <2>2, <2>3, <2>4 DEF OnePlace
<1>23. RingAccounts'
  <2>1. IsFiniteSet(SqEntries)
    BY <1>16, SlotsFinite
  <2>2. Cardinality(SqEntries') = Cardinality(SqEntries) + 1
    BY <1>12, <1>17, <2>1, FS_AddElement
  <2>3. Used(sq') = Used(sq) + 1 /\ holder' # Nobody
    BY <1>2, <1>14, <1>15, ThreadFacts
  <2>4. Cardinality(kernel) \in Nat /\ Len(cq) \in Nat
    BY <1>1, FS_CardinalityType DEF RingTypes
  <2>5. d_count' = Used(sq') + Cardinality(kernel') + Len(cq')
    BY <1>1, <1>2, <1>13, <2>3, <2>4 DEF RingAccounts
  <2>6. Used(sq') = failures' + (IF holder' = Nobody THEN 0 ELSE 1)
    BY <1>2, <1>13, <2>3
  <2>7. Used(sq') = Cardinality(SqEntries')
    BY <1>1, <1>13, <2>2, <2>3 DEF RingAccounts
  <2> QED BY <2>5, <2>6, <2>7 DEF RingAccounts
<1>23a. Callbacks' /\ Heard' = Heard
  <2>1. missed' \subseteq Ops
    BY <1>2, RingFacts DEF RingOk, Callbacks
  <2> QED BY <1>2, <2>1, CallbacksStay
<1>24. OpsOk'
  BY <1>2, <1>21, <1>23a, NoChange
<1>25. Canceled'
  BY <1>2, CanceledFrame
<1>26. IoTypes' /\ Window(sq')
  BY <1>2, <1>14, <1>15 DEF IInv, IoTypes, Iterator
<1> QED BY <1>19, <1>20, <1>22, <1>23, <1>23a, <1>24, <1>25, <1>26, RingKeeps

\* submit() returns: the thread has done with the entry.
LEMMA UnlockFacts ==
    ASSUME IInv, d_context = "ring", UNCHANGED <<d_context, pollVars>>,
           NEW a \in Threads, Unlock(a)
    PROVE  /\ holder = a /\ holder' = Nobody /\ holder # Nobody
           /\ UNCHANGED <<st, stopped, wait, run, again, d_count, callback>>
           /\ todo' \in [Threads -> Seq(RingEntry)]
           /\ \A b \in Threads : Rest(b)' = Rest(b) /\ todo'[b] \in Submits(b)
           /\ \A x : x \in Waiting' <=> x \in Waiting
<1>1. RingTypes /\ Submitting
  BY RingFacts DEF RingOk
<1>2. /\ holder = a /\ holder' = Nobody /\ holder # Nobody
      /\ UNCHANGED <<st, stopped, wait, run, again, d_count, callback>>
      /\ todo' = [todo EXCEPT ![a] = Tail(@)]
  BY ThreadFacts DEF Unlock, ioVars
<1>3. todo \in [Threads -> Seq(RingEntry)] /\ todo[a] # <<>>
  BY <1>1, <1>2 DEF RingTypes, Submitting
<1>4. Tail(todo[a]) \in Submits(a) /\ Tail(todo[a]) \in Seq(RingEntry)
  <2>1. Tail(todo[a]) \in Submits(a)
    BY <1>1, <1>3, SubmitsFacts DEF Submitting
  <2> QED BY <2>1, SubmitsFacts
<1>5. todo'[a] = Tail(todo[a]) /\ \A b \in Threads : b # a => todo'[b] = todo[b]
  BY <1>2, <1>3
<1>6. todo' \in [Threads -> Seq(RingEntry)]
  BY <1>2, <1>3, <1>4
<1>7. \A b \in Threads : todo'[b] \in Submits(b)
  BY <1>1, <1>4, <1>5 DEF Submitting
<1>8. \A b \in Threads : Rest(b)' = Rest(b)
  BY <1>2, <1>5, ThreadFacts DEF Rest
<1>9. \A x : x \in Waiting' <=> x \in Waiting
  <2>1. \A x : x \in Waiting <=> \E b \in Threads : x \in ToSet(Rest(b))
    BY DEF Waiting
  <2>2. \A x : x \in Waiting' <=> \E b \in Threads : x \in ToSet(Rest(b)')
    BY DEF Waiting
  <2> QED BY <1>8, <2>1, <2>2
<1> QED BY <1>2, <1>6, <1>7, <1>8, <1>9

\* io_uring_enter() fails.
LEMMA EnterFailsStep ==
    ASSUME IInv, d_context = "ring", UNCHANGED <<d_context, pollVars>>,
           NEW a \in Threads, EnterFails(a)
    PROVE  IInv'
<1>1. RingTypes /\ Submitting /\ OnePlace /\ Window(sq) /\ RingAccounts
  BY RingFacts DEF RingOk
<1>2. /\ failures < MaxFailures /\ Unlock(a) /\ failures' = failures + 1
      /\ UNCHANGED <<sq, cq, kernel, missed>>
  BY DEF EnterFails
<1>3. /\ holder = a /\ holder' = Nobody /\ holder # Nobody
      /\ UNCHANGED <<st, stopped, wait, run, again, d_count, callback>>
      /\ todo' \in [Threads -> Seq(RingEntry)]
      /\ \A b \in Threads : Rest(b)' = Rest(b) /\ todo'[b] \in Submits(b)
      /\ \A x : x \in Waiting' <=> x \in Waiting
  BY <1>2, UnlockFacts
<1>4. SqEntries' = SqEntries /\ CqEntries' = CqEntries
  BY <1>2 DEF SqEntries, CqEntries
<1>5. failures + 1 \in 0..MaxFailures /\ failures \in Nat
  BY <1>1, <1>2, RingAssumption DEF RingTypes
<1>6. RingTypes'
  BY <1>1, <1>2, <1>3, <1>5 DEF RingTypes
<1>7. Submitting'
  BY <1>3 DEF Submitting
<1>8. \A x : x \in Held' <=> x \in Held
  BY <1>2, <1>3, <1>4, <1>6, <1>7, RingFacts, RingHeld
<1>9. OnePlace'
  BY <1>1, <1>2, <1>3, <1>4 DEF OnePlace
<1>10. RingAccounts'
  BY <1>1, <1>2, <1>3, <1>4, <1>5 DEF RingAccounts
<1>10a. Callbacks' /\ Heard' = Heard
  <2>1. missed' \subseteq Ops
    BY <1>2, RingFacts DEF RingOk, Callbacks
  <2> QED BY <1>2, <1>3, <2>1, CallbacksStay
<1>11. OpsOk'
  BY <1>3, <1>8, <1>10a, NoChange
<1>12. Canceled'
  BY <1>2, <1>3, CanceledFrame
<1>13. IoTypes' /\ Window(sq')
  BY <1>1, <1>2, <1>3 DEF IInv, IoTypes, Iterator
<1> QED BY <1>6, <1>7, <1>9, <1>10, <1>10a, <1>11, <1>12, <1>13, RingKeeps

\* What the kernel does with an entry that it takes: it works on it, or it
\* reports the cancellation, with the operation or alone.
LEMMA TakenFacts ==
    ASSUME cq \in Seq(Completion), Unique(cq),
           kernel \subseteq RingEntry, IsFiniteSet(kernel), \A x \in kernel : x.kind # "cancel",
           \A x \in kernel : x \notin CqEntries, Canceled, st' = st,
           NEW e \in RingEntry, e \notin kernel, e \notin CqEntries,
           IF e.kind # "cancel"
           THEN kernel' = kernel \cup {e} /\ UNCHANGED cq
           ELSE IF IoOf(e.of) \notin kernel
           THEN cq' = Append(cq, Done(e, "ignored")) /\ UNCHANGED kernel
           ELSE /\ kernel' = kernel \ {IoOf(e.of)}
                /\ \E r \in Results \cup {"ECANCELED"} :
                     LET x == Done(IoOf(e.of), r)  y == Done(e, "ignored")
                     IN  cq' \in {cq \o <<x, y>>, cq \o <<y, x>>}
    PROVE  /\ cq' \in Seq(Completion) /\ Unique(cq')
           /\ kernel' \subseteq RingEntry /\ IsFiniteSet(kernel')
           /\ \A x \in kernel' : x.kind # "cancel"
           /\ \A x \in kernel' : x \notin CqEntries'
           /\ \A x : x \in kernel' \/ x \in CqEntries' <=> x \in kernel \/ x \in CqEntries \/ x = e
           /\ Cardinality(kernel') + Len(cq') = Cardinality(kernel) + Len(cq) + 1
           /\ Canceled'
<1>1. CqEntries = Reported(cq) /\ CqEntries' = Reported(cq')
  BY DEF CqEntries, Reported
<1>2. Cardinality(kernel) \in Nat /\ Len(cq) \in Nat
  BY FS_CardinalityType
<1>3. CASE e.kind # "cancel"
  <2>1. kernel' = kernel \cup {e} /\ cq' = cq
    BY <1>3
  <2>2. IsFiniteSet(kernel') /\ Cardinality(kernel') = Cardinality(kernel) + 1
    BY <2>1, FS_AddElement
  <2>3. CqEntries' = CqEntries
    BY <1>1, <2>1
  <2>4. Canceled'
    BY <2>1, <2>3 DEF Canceled
  <2>5. Cardinality(kernel') + Len(cq') = Cardinality(kernel) + Len(cq) + 1
    BY <1>2, <2>1, <2>2
  <2> QED BY <1>3, <2>1, <2>2, <2>3, <2>4, <2>5
<1>4. CASE e.kind = "cancel"
  <2>1. PICK o \in Ops : o = e.of /\ e = CancelOf(o)
    BY <1>4, EntryFacts
  <2>2. PICK y \in Completion : y = Done(e, "ignored")
    BY <2>1, CompletionFacts
  <2>3. EntryOf(y) = e /\ y.kind = "cancel"
    BY <1>4, <2>2, CompletionFacts
  <2>4. CASE IoOf(o) \notin kernel
    <3>1. cq' = Append(cq, y) /\ kernel' = kernel
      BY <1>4, <2>1, <2>2, <2>4
    <3>2. /\ cq' \in Seq(Completion) /\ Len(cq') = Len(cq) + 1 /\ Unique(cq')
          /\ Reported(cq') = Reported(cq) \cup {EntryOf(y)} /\ ToSet(cq') = ToSet(cq) \cup {y}
      BY <1>1, <2>3, <3>1, ReportPut
    <3>3. Canceled'
      BY <1>1, <2>3, <3>2 DEF Canceled
    <3>4. Cardinality(kernel') + Len(cq') = Cardinality(kernel) + Len(cq) + 1
      BY <1>2, <3>1, <3>2
    <3> QED BY <1>1, <2>3, <3>1, <3>2, <3>3, <3>4
  <2>5. CASE IoOf(o) \in kernel
    <3>1. kernel' = kernel \ {IoOf(o)}
      BY <1>4, <2>1, <2>5
    <3>2. PICK r \in Results \cup {"ECANCELED"} :
            cq' \in {cq \o <<Done(IoOf(o), r), y>>, cq \o <<y, Done(IoOf(o), r)>>}
      BY <1>4, <2>1, <2>2, <2>5
    <3>3. PICK x \in Completion : x = Done(IoOf(o), r)
      BY CompletionFacts
    <3>4. EntryOf(x) = IoOf(o) /\ x.kind = "io" /\ x.of = o
      BY <3>3, CompletionFacts, EntryFacts DEF IoOf
    <3>5. IoOf(o) \notin CqEntries /\ IoOf(o) # e
      BY <2>1, <2>5, EntryFacts
    <3>6. /\ cq' \in Seq(Completion) /\ Len(cq') = Len(cq) + 2 /\ Unique(cq')
          /\ Reported(cq') = Reported(cq) \cup {e, IoOf(o)} /\ ToSet(cq') = ToSet(cq) \cup {x, y}
      <4>1. /\ EntryOf(x) \notin Reported(cq) /\ EntryOf(y) \notin Reported(cq)
            /\ EntryOf(x) # EntryOf(y) /\ EntryOf(y) # EntryOf(x)
        BY <1>1, <2>3, <3>4, <3>5
      <4>2. PICK d : d = cq'
        OBVIOUS
      <4>3. d = Both(cq, x, y) \/ d = Both(cq, y, x)
        BY <3>2, <3>3, <4>2 DEF Both
      <4>4. /\ d \in Seq(Completion) /\ Len(d) = Len(cq) + 2 /\ Unique(d)
            /\ Reported(d) = Reported(cq) \cup {EntryOf(x), EntryOf(y)} /\ ToSet(d) = ToSet(cq) \cup {x, y}
        <5>1. CASE d = Both(cq, x, y)
          BY <4>1, <5>1, ReportTwo
        <5>2. CASE d = Both(cq, y, x)
          <6>1. /\ d \in Seq(Completion) /\ Len(d) = Len(cq) + 2 /\ Unique(d)
                /\ Reported(d) = Reported(cq) \cup {EntryOf(y), EntryOf(x)}
                /\ ToSet(d) = ToSet(cq) \cup {y, x}
            BY <4>1, <5>2, ReportTwo
          <6> QED BY <6>1
        <5> QED BY <4>3, <5>1, <5>2
      <4> QED BY <2>3, <3>4, <4>2, <4>4
    <3>7. IsFiniteSet(kernel') /\ Cardinality(kernel') = Cardinality(kernel) - 1
      BY <2>5, <3>1, FS_RemoveElement
    <3>8. Canceled'
      <4> SUFFICES ASSUME NEW z \in ToSet(cq'), z.kind = "io", z.result = "ECANCELED"
                   PROVE  CancelOf(z.of) \in CqEntries' \/ st'[z.of].cancelled
        BY DEF Canceled
      <4>1. CASE z \in ToSet(cq)
        BY <1>1, <3>6, <4>1 DEF Canceled
      <4>2. CASE z = x
        BY <1>1, <2>1, <3>4, <3>6, <4>2
      <4> QED BY <2>3, <3>6, <4>1, <4>2
    <3>9. Cardinality(kernel') + Len(cq') = Cardinality(kernel) + Len(cq) + 1
      BY <1>2, <3>6, <3>7
    <3>10. \A z \in kernel' : z \notin CqEntries'
      <4> SUFFICES ASSUME NEW z \in kernel' PROVE z \notin CqEntries'
        OBVIOUS
      <4>1. z \in kernel /\ z # IoOf(o) /\ z # e
        BY <3>1
      <4> QED BY <1>1, <3>6, <4>1
    <3>11. ASSUME NEW z
           PROVE  z \in kernel' \/ z \in CqEntries' <=> z \in kernel \/ z \in CqEntries \/ z = e
      BY <1>1, <2>5, <3>1, <3>6
    <3> QED BY <3>1, <3>6, <3>7, <3>8, <3>9, <3>10, <3>11
  <2> QED BY <2>4, <2>5
<1> QED BY <1>3, <1>4

\* The kernel takes the oldest entry of the submission ring.
LEMMA EnterFacts ==
    ASSUME IInv, d_context = "ring", UNCHANGED <<d_context, pollVars>>,
           NEW a \in Threads, Enter(a)
    PROVE  /\ sq' \in Ring /\ Window(sq') /\ Used(sq') = Used(sq) - 1 /\ Once(sq'.slot)
           /\ First(sq) \in RingEntry /\ First(sq) \in SqEntries /\ SqEntries' = SqEntries \ {First(sq)}
           /\ Used(sq) = failures + 1 /\ failures \in Nat /\ IsFiniteSet(SqEntries)
<1>1. RingTypes /\ Submitting /\ OnePlace /\ Window(sq) /\ RingAccounts
  BY RingFacts DEF RingOk
<1>2. sq' = Drop(sq) /\ holder # Nobody
  BY ThreadFacts DEF Enter, Unlock
<1>3. Used(sq) = failures + 1 /\ failures < Size /\ failures \in Nat /\ Size \in Nat
  BY <1>1, <1>2, RingAssumption DEF RingAccounts, RingTypes
<1>4. Used(sq) # 0 /\ Used(sq) <= Size
  BY <1>3
<1>5. PICK q, e : q = Drop(sq) /\ q = sq' /\ e = First(sq)
  BY <1>2
<1>6. /\ q \in Ring /\ Window(q) /\ Used(q) = Used(sq) - 1 /\ e \in RingEntry
      /\ \E i \in Slots : e = sq.slot[i] /\ q.slot = [sq.slot EXCEPT ![i] = Empty]
  <2>1. sq \in Ring /\ Window(sq)
    BY <1>1 DEF RingTypes
  <2>2. Taken(sq, q, e)
    BY <1>4, <1>5, <2>1, DropFacts
  <2> QED BY <2>2 DEF Taken
<1>7. SqEntries = Entries(sq.slot) /\ SqEntries' = Entries(q.slot)
  BY <1>5 DEF SqEntries, Entries
<1>8. SqEntries' = SqEntries \ {e} /\ e \in SqEntries /\ Once(q.slot)
  <2>1. PICK i \in Slots : e = sq.slot[i] /\ q.slot = [sq.slot EXCEPT ![i] = Empty]
    BY <1>6
  <2>2. sq.slot \in [Slots -> RingEntry \cup {Empty}] /\ Once(sq.slot)
    BY <1>1 DEF RingTypes, Ring, OnePlace
  <2>3. PICK f, g : f = sq.slot /\ g = q.slot
    OBVIOUS
  <2>4. Entries(g) = Entries(f) \ {e} /\ e \in Entries(f) /\ Once(g)
    BY <1>6, <2>1, <2>2, <2>3, SlotDrop
  <2> QED BY <1>7, <2>3, <2>4
<1>9. IsFiniteSet(SqEntries)
  BY <1>7, SlotsFinite
<1> QED BY <1>3, <1>5, <1>6, <1>8, <1>9

\* The entry goes to the kernel, or is reported.
LEMMA EnterStep ==
    ASSUME IInv, d_context = "ring", UNCHANGED <<d_context, pollVars>>,
           NEW a \in Threads, Enter(a)
    PROVE  IInv'
<1>1. RingTypes /\ Submitting /\ OnePlace /\ Window(sq) /\ RingAccounts /\ Canceled
  BY RingFacts DEF RingOk
<1>2. Unlock(a) /\ sq' = Drop(sq) /\ failures' = failures
  BY DEF Enter
<1>3. /\ holder = a /\ holder' = Nobody /\ holder # Nobody
      /\ UNCHANGED <<st, stopped, wait, run, again, d_count, callback>>
      /\ todo' \in [Threads -> Seq(RingEntry)]
      /\ \A b \in Threads : Rest(b)' = Rest(b) /\ todo'[b] \in Submits(b)
      /\ \A x : x \in Waiting' <=> x \in Waiting
  BY <1>2, UnlockFacts
<1>7. PICK e : e = First(sq)
  OBVIOUS
<1>8. /\ sq' \in Ring /\ Window(sq') /\ Used(sq') = Used(sq) - 1 /\ e \in RingEntry
      /\ Used(sq) = failures + 1 /\ failures \in Nat /\ IsFiniteSet(SqEntries)
  BY <1>7, EnterFacts
<1>10. SqEntries' = SqEntries \ {e} /\ e \in SqEntries /\ Once(sq'.slot)
  BY <1>7, EnterFacts
<1>11. e \notin kernel /\ e \notin CqEntries
  BY <1>1, <1>10 DEF OnePlace
<1>12. IF e.kind # "cancel"
       THEN kernel' = kernel \cup {e} /\ UNCHANGED cq
       ELSE IF IoOf(e.of) \notin kernel
       THEN cq' = Append(cq, Done(e, "ignored")) /\ UNCHANGED kernel
       ELSE /\ kernel' = kernel \ {IoOf(e.of)}
            /\ \E r \in Results \cup {"ECANCELED"} :
                 LET x == Done(IoOf(e.of), r)  y == Done(e, "ignored")
                 IN  cq' \in {cq \o <<x, y>>, cq \o <<y, x>>}
  BY <1>7 DEF Enter
<1>13. /\ cq' \in Seq(Completion) /\ Unique(cq')
       /\ kernel' \subseteq RingEntry /\ IsFiniteSet(kernel')
       /\ \A x \in kernel' : x.kind # "cancel"
       /\ \A x \in kernel' : x \notin CqEntries'
       /\ \A x : x \in kernel' \/ x \in CqEntries' <=> x \in kernel \/ x \in CqEntries \/ x = e
       /\ Cardinality(kernel') + Len(cq') = Cardinality(kernel) + Len(cq) + 1
       /\ Canceled'
  <2>1. /\ cq \in Seq(Completion) /\ Unique(cq)
        /\ kernel \subseteq RingEntry /\ IsFiniteSet(kernel) /\ \A x \in kernel : x.kind # "cancel"
        /\ \A x \in kernel : x \notin CqEntries
    BY <1>1 DEF RingTypes, OnePlace
  <2> QED BY <1>1, <1>3, <1>8, <1>11, <1>12, <2>1, TakenFacts
<1>14. RingTypes'
  BY <1>1, <1>2, <1>3, <1>8, <1>13 DEF RingTypes
<1>15. Submitting'
  BY <1>3 DEF Submitting
<1>16. \A x : x \in Held' <=> x \in Held
  <2>1. \A x : x \in Held' <=> x \in Waiting' \/ x \in SqEntries' \/ x \in kernel' \/ x \in CqEntries'
    BY <1>14, <1>15, RingFacts, RingHeld
  <2> QED BY <1>3, <1>10, <1>13, <2>1, RingFacts
<1>17. OnePlace'
  <2>1. \A x \in Waiting' : x \notin SqEntries' /\ x \notin kernel' /\ x \notin CqEntries'
    BY <1>1, <1>3, <1>10, <1>13 DEF OnePlace
  <2>2. \A x \in SqEntries' : x \notin kernel' /\ x \notin CqEntries'
    BY <1>1, <1>10, <1>13 DEF OnePlace
  <2>3. \A b, d \in Threads, x \in RingEntry : x \in ToSet(Rest(b)') /\ x \in ToSet(Rest(d)') => b = d
    BY <1>1, <1>3 DEF OnePlace
  <2>4. (\A x \in kernel' : x \notin CqEntries') /\ Unique(cq') /\ Once(sq'.slot)
    BY <1>10, <1>13
  <2> QED BY <2>1, <2>2, <2>3, <2>4 DEF OnePlace
<1>18. RingAccounts'
  <2>2. Cardinality(SqEntries') = Cardinality(SqEntries) - 1
    BY <1>8, <1>10, FS_RemoveElement
  <2>3. Used(sq') = failures
    BY <1>8
  <2>4. /\ Cardinality(kernel) \in Nat /\ Len(cq) \in Nat
        /\ Cardinality(kernel') \in Nat /\ Len(cq') \in Nat
    BY <1>1, <1>13, FS_CardinalityType DEF RingTypes
  <2>5. d_count' = Used(sq') + Cardinality(kernel') + Len(cq')
    <3>1. d_count = (failures + 1) + Cardinality(kernel) + Len(cq)
      BY <1>1, <1>8 DEF RingAccounts
    <3>2. Cardinality(kernel') + Len(cq') = Cardinality(kernel) + Len(cq) + 1
      BY <1>13
    <3>3. d_count = failures + Cardinality(kernel') + Len(cq')
      <4>1. PICK f \in Nat, k0 \in Nat, c0 \in Nat, k1 \in Nat, c1 \in Nat :
              /\ f = failures /\ k0 = Cardinality(kernel) /\ c0 = Len(cq)
              /\ k1 = Cardinality(kernel') /\ c1 = Len(cq')
        BY <1>8, <2>4
      <4>2. k1 + c1 = k0 + c0 + 1 /\ d_count = (f + 1) + k0 + c0
        BY <3>1, <3>2, <4>1
      <4>3. d_count = f + k1 + c1
        BY <4>2
      <4> QED BY <4>1, <4>3
    <3> QED BY <1>3, <2>3, <3>3
  <2>6. Used(sq') = failures' + (IF holder' = Nobody THEN 0 ELSE 1)
    BY <1>2, <1>3, <1>8, <2>3
  <2>7. Used(sq') = Cardinality(SqEntries')
    <3>1. Cardinality(SqEntries) = failures + 1
      BY <1>1, <1>8 DEF RingAccounts
    <3>2. (failures + 1) - 1 = failures
      BY <1>8
    <3> QED BY <2>2, <2>3, <3>1, <3>2
  <2> QED BY <2>5, <2>6, <2>7 DEF RingAccounts
<1>18a. Callbacks' /\ Heard' = Heard
  <2>1. missed' \subseteq missed \cup {e.of} /\ (e.kind # "cancel" => missed' = missed)
    BY <1>7 DEF Enter
  <2>2. e.kind = "cancel" => e.of \in Ops
    BY <1>8, EntryFacts
  <2>3. missed \subseteq Ops
    BY RingFacts DEF RingOk, Callbacks
  <2>4. missed' \subseteq Ops
    BY <2>1, <2>2, <2>3
  <2> QED BY <1>3, <2>4, CallbacksStay
<1>19. OpsOk'
  BY <1>3, <1>16, <1>18a, NoChange
<1>20. IoTypes' /\ Window(sq')
  BY <1>3, <1>8 DEF IInv, IoTypes, Iterator
<1> QED BY <1>13, <1>14, <1>15, <1>17, <1>18, <1>18a, <1>19, <1>20, RingKeeps

\* Only the kernel and the completion ring change, and what is held does not.
LEMMA CompletesStep ==
    ASSUME IInv, d_context = "ring", UNCHANGED <<d_context, pollVars>>,
           NEW e \in kernel, NEW r \in Results, e.kind = "io" \/ r = "value", KernelCompletes(e, r)
    PROVE  IInv'
<1>1. RingTypes /\ Submitting /\ OnePlace /\ Window(sq) /\ RingAccounts /\ Canceled
  BY RingFacts DEF RingOk
<1>2. /\ kernel' = kernel \ {e} /\ cq' = Append(cq, Done(e, r))
      /\ UNCHANGED <<st, stopped, wait, run, again, sq, d_count, todo, holder, failures>>
      /\ UNCHANGED <<callback, missed>>
  BY DEF KernelCompletes, ioVars
<1>3. e \in RingEntry /\ e.kind # "cancel" /\ e \notin CqEntries
  BY <1>1 DEF RingTypes, OnePlace
<1>4. r \in Results \cup {"ECANCELED"} /\ r # "ECANCELED"
  BY DEF Results
<1>5. PICK x \in Completion : x = Done(e, r)
  <2>1. CASE e.kind = "io"
    BY <1>3, <1>4, <2>1, EntryFacts, CompletionFacts
  <2>2. CASE e.kind # "io"
    <3>1. r = "value" /\ e = TimerOf(e.of) /\ e.of \in Waits
      BY <1>3, <2>2, EntryFacts DEF RingEntry, TimerEntry
    <3> QED BY <3>1, CompletionFacts
  <2> QED BY <2>1, <2>2
<1>6. EntryOf(x) = e /\ x.result # "ECANCELED"
  BY <1>3, <1>4, <1>5, CompletionFacts
<1>7. CqEntries = Reported(cq) /\ CqEntries' = Reported(cq')
  BY DEF CqEntries, Reported
<1>8. /\ cq' \in Seq(Completion) /\ Len(cq') = Len(cq) + 1 /\ Unique(cq')
      /\ CqEntries' = CqEntries \cup {e} /\ ToSet(cq') = ToSet(cq) \cup {x}
  <2>1. cq \in Seq(Completion) /\ Unique(cq)
    BY <1>1 DEF RingTypes, OnePlace
  <2>2. EntryOf(x) \notin Reported(cq)
    BY <1>3, <1>6, <1>7
  <2>3. PICK d : d = Append(cq, x) /\ d = cq'
    BY <1>2, <1>5
  <2>4. /\ d \in Seq(Completion) /\ Len(d) = Len(cq) + 1 /\ Unique(d)
        /\ Reported(d) = Reported(cq) \cup {EntryOf(x)} /\ ToSet(d) = ToSet(cq) \cup {x}
    BY <2>1, <2>2, <2>3, ReportPut
  <2> QED BY <1>6, <1>7, <2>3, <2>4
<1>9. IsFiniteSet(kernel') /\ Cardinality(kernel') = Cardinality(kernel) - 1
  BY <1>1, <1>2, FS_RemoveElement DEF RingTypes
<1>10. SqEntries' = SqEntries
  BY <1>2 DEF SqEntries
<1>11. \A a \in Threads : Rest(a)' = Rest(a)
  BY <1>2 DEF Rest
<1>12. \A y : y \in Waiting' <=> y \in Waiting
  <2>1. \A y : y \in Waiting <=> \E b \in Threads : y \in ToSet(Rest(b))
    BY DEF Waiting
  <2>2. \A y : y \in Waiting' <=> \E b \in Threads : y \in ToSet(Rest(b)')
    BY DEF Waiting
  <2> QED BY <1>11, <2>1, <2>2
<1>13. RingTypes'
  BY <1>1, <1>2, <1>8, <1>9 DEF RingTypes
<1>14. Submitting'
  BY <1>1, <1>2, <1>10 DEF Submitting
<1>15. \A y : y \in Held' <=> y \in Held
  <2>1. \A y : y \in Held' <=> y \in Waiting' \/ y \in SqEntries' \/ y \in kernel' \/ y \in CqEntries'
    BY <1>13, <1>14, RingFacts, RingHeld
  <2> QED BY <1>2, <1>8, <1>10, <1>12, <2>1, RingFacts
<1>16. OnePlace'
  <2>1. \A y \in Waiting' : y \notin SqEntries' /\ y \notin kernel' /\ y \notin CqEntries'
    BY <1>1, <1>2, <1>8, <1>10, <1>12 DEF OnePlace
  <2>2. \A y \in SqEntries' : y \notin kernel' /\ y \notin CqEntries'
    BY <1>1, <1>2, <1>8, <1>10 DEF OnePlace
  <2>3. \A b, d \in Threads, y \in RingEntry : y \in ToSet(Rest(b)') /\ y \in ToSet(Rest(d)') => b = d
    BY <1>1, <1>11 DEF OnePlace
  <2>4. \A y \in kernel' : y \notin CqEntries'
    BY <1>1, <1>2, <1>8 DEF OnePlace
  <2>5. Unique(cq') /\ Once(sq'.slot)
    BY <1>1, <1>2, <1>8 DEF OnePlace
  <2> QED BY <2>1, <2>2, <2>3, <2>4, <2>5 DEF OnePlace
<1>17. Canceled'
  BY <1>1, <1>2, <1>6, <1>8 DEF Canceled
<1>18. RingAccounts'
  <2>1. Cardinality(kernel) \in Nat /\ Len(cq) \in Nat /\ Used(sq) \in Nat
    BY <1>1, FS_CardinalityType DEF RingTypes, RingAccounts
  <2>2. PICK k \in Nat, n \in Nat, u \in Nat : k = Cardinality(kernel) /\ n = Len(cq) /\ u = Used(sq)
    BY <2>1
  <2>3. d_count' = Used(sq') + Cardinality(kernel') + Len(cq')
    <3>1. d_count = u + k + n
      BY <1>1, <2>2 DEF RingAccounts
    <3>2. Cardinality(kernel') = k - 1 /\ Len(cq') = n + 1 /\ Used(sq') = u /\ d_count' = d_count
      BY <1>2, <1>8, <1>9, <2>2
    <3>3. u + (k - 1) + (n + 1) = u + k + n
      OBVIOUS
    <3> QED BY <3>1, <3>2, <3>3
  <2> QED BY <1>1, <1>2, <1>10, <2>3 DEF RingAccounts
<1>18a. Callbacks' /\ Heard' = Heard
  <2>1. missed' \subseteq Ops
    BY <1>2, RingFacts DEF RingOk, Callbacks
  <2> QED BY <1>2, <2>1, CallbacksStay
<1>19. OpsOk'
  BY <1>2, <1>15, <1>18a, NoChange
<1>20. IoTypes' /\ Window(sq')
  BY <1>1, <1>2 DEF IInv, IoTypes, Iterator
<1> QED BY <1>13, <1>14, <1>16, <1>17, <1>18, <1>18a, <1>19, <1>20, RingKeeps

\* process_result(): the oldest result is given to the operation, to its
\* cancellation or to the wait.
LEMMA ProcessResultStep ==
    ASSUME IInv, d_context = "ring", UNCHANGED <<d_context, pollVars>>, ProcessResult
    PROVE  IInv'
<1>1. RingTypes /\ Submitting /\ OnePlace /\ Window(sq) /\ RingAccounts /\ Canceled
  BY RingFacts DEF RingOk
<1>2. /\ d_count # 0 /\ cq # <<>> /\ cq' = Tail(cq) /\ d_count' = d_count - 1
      /\ UNCHANGED <<stopped, run, sq, kernel, todo, holder, failures, again, callback, missed>>
  BY DEF ProcessResult
<1>3. PICK x : x = Head(cq)
  OBVIOUS
<1>4. /\ x.kind = "io" => st' = [st EXCEPT ![x.of] = Result(st[x.of], x.result)] /\ wait' = wait
      /\ x.kind = "cancel" => st' = [st EXCEPT ![x.of] = CancelResult(st[x.of])] /\ wait' = wait
      /\ x.kind \notin {"io", "cancel"} => wait' = [wait EXCEPT ![x.of] = "idle"] /\ st' = st
  BY <1>3 DEF ProcessResult
<1>5. PICK e : e = EntryOf(x)
  OBVIOUS
<1>6. CqEntries = Reported(cq) /\ CqEntries' = Reported(cq')
  BY DEF CqEntries, Reported
<1>7. /\ cq' \in Seq(Completion) /\ Len(cq') = Len(cq) - 1 /\ Unique(cq')
      /\ CqEntries' = CqEntries \ {e} /\ e \in CqEntries
      /\ ToSet(cq') \subseteq ToSet(cq) /\ x \in ToSet(cq) /\ x \in Completion
  <2>1. cq \in Seq(Completion) /\ Unique(cq)
    BY <1>1 DEF RingTypes, OnePlace
  <2>2. PICK d : d = Tail(cq) /\ d = cq'
    BY <1>2
  <2>3. /\ d \in Seq(Completion) /\ Len(d) = Len(cq) - 1 /\ Unique(d)
        /\ Reported(d) = Reported(cq) \ {EntryOf(Head(cq))} /\ EntryOf(Head(cq)) \in Reported(cq)
        /\ ToSet(d) \subseteq ToSet(cq) /\ Head(cq) \in ToSet(cq) /\ Head(cq) \in Completion
    BY <1>2, <2>1, <2>2, ReportPop
  <2> QED BY <1>3, <1>5, <1>6, <2>2, <2>3
<1>8. SqEntries' = SqEntries
  BY <1>2 DEF SqEntries
<1>9. \A a \in Threads : Rest(a)' = Rest(a)
  BY <1>2 DEF Rest
<1>10. \A y : y \in Waiting' <=> y \in Waiting
  <2>1. \A y : y \in Waiting <=> \E b \in Threads : y \in ToSet(Rest(b))
    BY DEF Waiting
  <2>2. \A y : y \in Waiting' <=> \E b \in Threads : y \in ToSet(Rest(b)')
    BY DEF Waiting
  <2> QED BY <1>9, <2>1, <2>2
<1>11. RingTypes'
  <2>1. d_count - 1 \in Nat
    BY <1>1, <1>2 DEF RingTypes
  <2> QED BY <1>1, <1>2, <1>7, <2>1 DEF RingTypes
<1>12. Submitting'
  BY <1>1, <1>2, <1>8 DEF Submitting
<1>13. \A y : y \in Held' <=> y \in Held /\ y # e
  <2>1. \A y : y \in Held' <=> y \in Waiting' \/ y \in SqEntries' \/ y \in kernel' \/ y \in CqEntries'
    BY <1>11, <1>12, RingFacts, RingHeld
  <2>2. e \notin Waiting /\ e \notin SqEntries /\ e \notin kernel
    BY <1>1, <1>7 DEF OnePlace
  <2> QED BY <1>2, <1>7, <1>8, <1>10, <2>1, <2>2, RingFacts
<1>14. e \in Held
  BY <1>7, RingFacts
<1>15. OnePlace'
  <2>1. \A y \in Waiting' : y \notin SqEntries' /\ y \notin kernel' /\ y \notin CqEntries'
    BY <1>1, <1>2, <1>7, <1>8, <1>10 DEF OnePlace
  <2>2. \A y \in SqEntries' : y \notin kernel' /\ y \notin CqEntries'
    BY <1>1, <1>2, <1>7, <1>8 DEF OnePlace
  <2>3. \A b, d \in Threads, y \in RingEntry : y \in ToSet(Rest(b)') /\ y \in ToSet(Rest(d)') => b = d
    BY <1>1, <1>9 DEF OnePlace
  <2>4. \A y \in kernel' : y \notin CqEntries'
    BY <1>1, <1>2, <1>7 DEF OnePlace
  <2>5. Unique(cq') /\ Once(sq'.slot)
    BY <1>1, <1>2, <1>7 DEF OnePlace
  <2> QED BY <2>1, <2>2, <2>3, <2>4, <2>5 DEF OnePlace
<1>16. RingAccounts'
  <2>1. Cardinality(kernel) \in Nat /\ Len(cq) \in Nat /\ Used(sq) \in Nat
    BY <1>1, FS_CardinalityType DEF RingTypes, RingAccounts
  <2>2. d_count = Used(sq) + Cardinality(kernel) + Len(cq)
    BY <1>1 DEF RingAccounts
  <2>3. d_count' = Used(sq') + Cardinality(kernel') + Len(cq')
    BY <1>2, <1>7, <2>1, <2>2
  <2> QED BY <1>1, <1>2, <1>8, <2>3 DEF RingAccounts
<1>17. st \in [Ops -> OpState] /\ wait \in [Waits -> {"idle", "queued"}]
  BY DEF IInv, IoTypes
<1>17a. Callbacks' /\ Heard' = Heard
  <2>1. missed' \subseteq Ops
    BY <1>2, RingFacts DEF RingOk, Callbacks
  <2>2. \A u \in Ops : st'[u].engaged <=> st[u].engaged
    BY <1>4, <1>17, StaysEngaged
  <2> QED BY <1>2, <2>1, <2>2, CallbacksStay
<1>18. ASSUME NEW y \in ToSet(cq'), y.kind = "io", y.result = "ECANCELED"
       PROVE  /\ y.of \in Ops /\ IoOf(y.of) # e
              /\ CancelOf(y.of) \in CqEntries \/ st[y.of].cancelled
  <2>1. y \in Completion /\ EntryOf(y) \in CqEntries'
    <3>1. PICK i \in 1..Len(cq') : cq'[i] = y
      BY Member
    <3>2. y \in Completion
      BY <1>7, <3>1
    <3> QED BY <3>1, <3>2 DEF CqEntries, EntryOf
  <2>2. EntryOf(y) = IoOf(y.of) /\ y.of \in Ops
    BY <1>18, <2>1, CompletionFacts
  <2>3. y \in ToSet(cq)
    BY <1>7
  <2> QED BY <1>1, <1>7, <1>18, <2>1, <2>2, <2>3 DEF Canceled
<1>19. CASE x.kind = "io"
  <2>1. PICK o \in Ops : o = x.of /\ e = IoOf(o) /\ x.result \in Results \cup {"ECANCELED"}
    BY <1>5, <1>7, <1>19, CompletionFacts
  <2>2. PICK r \in Results \cup {"ECANCELED"} : r = x.result
    BY <2>1
  <2>3. OpOk(st[o], o, Held, Heard)
    BY DEF IInv, OpsOk
  <2>4. r = "ECANCELED" => CancelOf(o) \in Held \/ st[o].cancelled
    BY <1>1, <1>7, <1>19, <2>1, <2>2, RingFacts DEF Canceled
  <2>5. OpOk(Result(st[o], r), o, Held', Heard) /\ Result(st[o], r).cancelled = st[o].cancelled
    <3>1. /\ IoOf(o) \in Held /\ IoOf(o) \notin Held'
          /\ CancelOf(o) \in Held' <=> CancelOf(o) \in Held
      BY <1>13, <1>14, <2>1, EntryFacts
    <3> QED BY <2>3, <2>4, <3>1, ResultOk
  <2>6. st' = [st EXCEPT ![o] = Result(st[o], r)] /\ wait' = wait
    BY <1>4, <1>19, <2>1, <2>2
  <2>7. OpsOk' /\ st' \in [Ops -> OpState]
    BY <1>2, <1>13, <1>17a, <2>1, <2>5, <2>6, OpChange
  <2>8. Canceled'
    <3> SUFFICES ASSUME NEW y \in ToSet(cq'), y.kind = "io", y.result = "ECANCELED"
                 PROVE  CancelOf(y.of) \in CqEntries' \/ st'[y.of].cancelled
      BY DEF Canceled
    <3>1. y.of \in Ops /\ y.of # o /\ (CancelOf(y.of) \in CqEntries \/ st[y.of].cancelled)
      BY <1>18, <2>1
    <3>2. st'[y.of] = st[y.of] /\ CancelOf(y.of) # e
      BY <1>17, <2>1, <2>6, <3>1, EntryFacts
    <3> QED BY <1>7, <3>1, <3>2
  <2>9. IoTypes' /\ Window(sq')
    BY <1>1, <1>2, <1>17, <2>6, <2>7 DEF IInv, IoTypes, Iterator
  <2> QED BY <1>11, <1>12, <1>15, <1>16, <1>17a, <2>7, <2>8, <2>9, RingKeeps
<1>20. CASE x.kind = "cancel"
  <2>1. PICK o \in Ops : o = x.of /\ e = CancelOf(o)
    BY <1>5, <1>7, <1>20, CompletionFacts
  <2>2. OpOk(st[o], o, Held, Heard)
    BY DEF IInv, OpsOk
  <2>3. OpOk(CancelResult(st[o]), o, Held', Heard) /\ CancelResult(st[o]).cancelled
    <3>1. /\ CancelOf(o) \in Held /\ CancelOf(o) \notin Held'
          /\ IoOf(o) \in Held' <=> IoOf(o) \in Held
      BY <1>13, <1>14, <2>1, EntryFacts
    <3> QED BY <2>2, <3>1, CancelOk
  <2>4. st' = [st EXCEPT ![o] = CancelResult(st[o])] /\ wait' = wait
    BY <1>4, <1>20, <2>1
  <2>5. OpsOk' /\ st' \in [Ops -> OpState]
    BY <1>2, <1>13, <1>17a, <2>1, <2>3, <2>4, OpChange
  <2>6. Canceled'
    <3> SUFFICES ASSUME NEW y \in ToSet(cq'), y.kind = "io", y.result = "ECANCELED"
                 PROVE  CancelOf(y.of) \in CqEntries' \/ st'[y.of].cancelled
      BY DEF Canceled
    <3>1. y.of \in Ops /\ (CancelOf(y.of) \in CqEntries \/ st[y.of].cancelled)
      BY <1>18
    <3>2. CASE y.of = o
      BY <1>17, <2>3, <2>4, <3>2
    <3>3. CASE y.of # o
      <4>1. st'[y.of] = st[y.of] /\ CancelOf(y.of) # e
        BY <1>17, <2>1, <2>4, <3>1, <3>3 DEF CancelOf
      <4> QED BY <1>7, <3>1, <4>1
    <3> QED BY <3>2, <3>3
  <2>7. IoTypes' /\ Window(sq')
    BY <1>1, <1>2, <1>17, <2>4, <2>5 DEF IInv, IoTypes, Iterator
  <2> QED BY <1>11, <1>12, <1>15, <1>16, <1>17a, <2>5, <2>6, <2>7, RingKeeps
<1>21. CASE x.kind \notin {"io", "cancel"}
  <2>1. PICK w \in Waits : w = x.of /\ e = TimerOf(w)
    BY <1>5, <1>7, <1>21, CompletionFacts
  <2>2. WaitOk(wait[w], w, Held)
    BY DEF IInv, OpsOk
  <2>3. WaitOk("idle", w, Held')
    BY <1>13, <1>14, <2>1, <2>2 DEF WaitOk
  <2>4. wait' = [wait EXCEPT ![w] = "idle"] /\ st' = st
    BY <1>4, <1>21, <2>1
  <2>5. OpsOk' /\ wait' \in [Waits -> {"idle", "queued"}]
    BY <1>2, <1>13, <1>17a, <2>1, <2>3, <2>4, WaitChange
  <2>6. Canceled'
    <3> SUFFICES ASSUME NEW y \in ToSet(cq'), y.kind = "io", y.result = "ECANCELED"
                 PROVE  CancelOf(y.of) \in CqEntries' \/ st'[y.of].cancelled
      BY DEF Canceled
    <3>1. CancelOf(y.of) \in CqEntries \/ st[y.of].cancelled
      BY <1>18
    <3>2. CancelOf(y.of) # e
      BY <2>1, EntryFacts
    <3> QED BY <1>7, <2>4, <3>1, <3>2
  <2>7. IoTypes' /\ Window(sq')
    BY <1>1, <1>2, <1>17, <2>4, <2>5 DEF IInv, IoTypes, Iterator
  <2> QED BY <1>11, <1>12, <1>15, <1>16, <1>17a, <2>5, <2>6, <2>7, RingKeeps
<1> QED BY <1>19, <1>20, <1>21

\* Every step of ring_context.
LEMMA RingStep ==
    ASSUME IInv,
           \/ OnRing(RingUser) \/ OnRing(RingRun) \/ OnRing(RingInterrupted)
           \/ \E a \in Threads : OnRing(Submit(a)) \/ OnRing(EnterFails(a))
           \/ \E o \in Ops : OnRing(Callback(o))
           \/ OnRing(Kernel)
    PROVE  IInv'
<1>1. d_context = "ring" /\ UNCHANGED <<d_context, pollVars>>
  BY DEF OnRing
<1>2. CASE RingUser
  BY <1>1, <1>2, RingStartStep, RingStopStep, RingDestroyStep, RingWaitStep, RingRunStep DEF RingUser
<1>3. CASE RingRun \/ RingInterrupted
  BY <1>1, <1>3, ProcessResultStep, RingRunStep DEF RingRun
<1>4. CASE \E a \in Threads : Submit(a) \/ EnterFails(a)
  BY <1>1, <1>4, FillStep, EnterStep, EnterFailsStep DEF Submit
<1>5. CASE Kernel
  BY <1>1, <1>5, CompletesStep DEF Kernel
<1>6. CASE \E o \in Ops : Callback(o)
  BY <1>1, <1>6, CancelCountsStep, CancelDanglesStep DEF Callback
<1> QED BY <1>2, <1>3, <1>4, <1>5, <1>6 DEF OnRing

\* The rings are empty at first, and with poll_context nothing uses them.
LEMMA InitAccounts ==
    ASSUME RingInit
    PROVE  SqEntries = {} /\ CqEntries = {} /\ Used(sq) = 0 /\ RingAccounts
<1>1. SqEntries = {}
  BY DEF RingInit, SqEntries
<1>2. CqEntries = {}
  BY DEF RingInit, CqEntries
<1>3. Used(sq) = 0
  <2>1. sq.head = 0 /\ sq.tail = 0 /\ Wrap \in Nat \ {0}
    BY RingAssumption DEF RingInit
  <2>2. (0 + Wrap - 0) % Wrap = 0
    BY <2>1
  <2> QED BY <2>1, <2>2 DEF Used
<1>4. d_count = 0 /\ failures = 0 /\ holder = Nobody /\ kernel = {} /\ cq = <<>>
  BY DEF RingInit
<1>5. Cardinality({}) = 0 /\ Len(<<>>) = 0
  BY FS_EmptySet
<1>6. RingAccounts
  BY <1>1, <1>3, <1>4, <1>5 DEF RingAccounts
<1> QED BY <1>1, <1>2, <1>3, <1>6

\* The initial states satisfy the invariant.
LEMMA InitInv == Init => IInv
<1> SUFFICES ASSUME Init PROVE IInv
  OBVIOUS
<1>1. IoInit /\ PollInit /\ RingInit /\ d_context \in {"poll", "ring"}
  BY DEF Init
<1>2. /\ \A e : e \notin Held
      /\ SqEntries = {} /\ CqEntries = {} /\ Used(sq) = 0
  <2>1. ToSet(ops) = {} /\ ToSet(timers) = {}
    BY <1>1 DEF PollInit, ToSet
  <2> QED BY <1>1, <2>1, PollHeld, InitAccounts
<1>3. Fresh \in OpState
  BY DEF Fresh, OpState
<1>4. IoTypes /\ Iterator
  BY <1>1, <1>3 DEF IoTypes, Iterator, IoInit, PollInit
<1>5. OpsOk
  <2>1. ASSUME NEW o \in Ops PROVE OpOk(st[o], o, Held, Heard)
    <3>1. st[o] = Fresh
      BY <1>1 DEF IoInit
    <3>2. OpOk(Fresh, o, Held, Heard)
      BY <1>2, <1>3 DEF OpOk, Fresh
    <3> QED BY <3>1, <3>2
  <2>2. ASSUME NEW w \in Waits PROVE WaitOk(wait[w], w, Held)
    BY <1>1, <1>2 DEF IoInit, WaitOk
  <2> QED BY <2>1, <2>2 DEF OpsOk
<1>6. PollOk
  BY <1>1 DEF PollOk, PollInit, Distinct, Behind
<1>7. RingTypes
  <2>1. sq \in Ring
    <3>1. 0 \in 0..(Wrap - 1)
      BY RingAssumption
    <3> QED BY <1>1, <3>1 DEF RingInit, Ring, Slots
  <2>2. 0 \in 0..MaxFailures
    BY RingAssumption
  <2>3. IsFiniteSet({})
    BY FS_EmptySet
  <2> QED BY <1>1, <2>1, <2>2, <2>3 DEF RingInit, RingTypes
<1>8. Submitting
  BY <1>1 DEF RingInit, Submitting, Submits
<1>9. \A a \in Threads : ToSet(Rest(a)) = {}
  BY <1>1, ThreadFacts DEF RingInit, Rest, ToSet
<1>10. OnePlace
  <2>1. \A e : e \notin Waiting
    BY <1>9 DEF Waiting
  <2>2. Unique(cq) /\ Once(sq.slot)
    BY <1>1 DEF RingInit, Unique, Once, Slots
  <2>3. kernel = {}
    BY <1>1 DEF RingInit
  <2> QED BY <1>2, <1>9, <2>1, <2>2, <2>3 DEF OnePlace
<1>11. Window(sq)
  <2> SUFFICES ASSUME NEW j \in Slots
               PROVE  sq.slot[Mask(sq.head + j)] # Empty <=> j < Used(sq)
    BY DEF Window
  <2>1. Mask(sq.head + j) \in Slots
    <3>1. sq.head \in Nat
      BY <1>1 DEF RingInit
    <3> QED BY <3>1, Around
  <2>2. sq.slot[Mask(sq.head + j)] = Empty
    BY <1>1, <2>1 DEF RingInit, Slots
  <2>3. ~(j < 0)
    BY RingAssumption DEF Slots
  <2> QED BY <1>2, <2>2, <2>3
<1>12. Canceled
  BY <1>1 DEF RingInit, Canceled, ToSet
<1>13. RingAccounts
  BY <1>1, InitAccounts
<1>13a. Callbacks
  BY <1>1 DEF RingInit, Callbacks
<1>14. RingOk
  BY <1>7, <1>8, <1>10, <1>11, <1>12, <1>13, <1>13a DEF RingOk
<1> QED BY <1>1, <1>4, <1>5, <1>6, <1>14 DEF IInv

\* A step that changes nothing.
LEMMA Stutter ==
    ASSUME IInv, UNCHANGED vars
    PROVE  IInv'
<1>1. /\ UNCHANGED <<d_context, pollVars, ringVars>>
      /\ UNCHANGED <<st, stopped, wait, run, again, ops, timers, valid>>
      /\ UNCHANGED <<sq, cq, kernel, d_count, todo, holder, failures, callback, missed>>
  BY DEF vars, ioVars, pollVars, ringVars
<1>2. CASE d_context = "poll"
  <2>1. OpsOk'
    BY <1>1, <1>2, PollFacts, NoChange
  <2>2. PollOk'
    BY <1>1, <1>2, PollFacts DEF PollOk
  <2>3. IoTypes' /\ Iterator'
    BY <1>1 DEF IInv, IoTypes, Iterator
  <2> QED BY <1>1, <1>2, <2>1, <2>2, <2>3, PollKeeps
<1>3. CASE d_context = "ring"
  <2>1. /\ RingTypes' /\ Submitting' /\ OnePlace' /\ Window(sq') /\ RingAccounts'
        /\ \A e : e \in Held' <=> e \in Held
    BY <1>1, <1>3, RingStill
  <2>1a. Callbacks' /\ Heard' = Heard
    <3>1. missed' \subseteq Ops
      BY <1>1, <1>3, RingFacts DEF RingOk, Callbacks
    <3> QED BY <1>1, <1>3, <3>1, CallbacksStay
  <2>2. OpsOk'
    BY <1>1, <2>1, <2>1a, NoChange
  <2>3. Canceled'
    BY <1>1, <1>3, CanceledFrame
  <2>4. IoTypes'
    BY <1>1 DEF IInv, IoTypes, Iterator
  <2> QED BY <1>1, <1>3, <2>1, <2>1a, <2>2, <2>3, <2>4, RingKeeps
<1> QED BY <1>2, <1>3 DEF IInv, IoTypes

\* Every step keeps the invariant.
LEMMA NextInv == IInv /\ [Next]_vars => IInv'
<1> SUFFICES ASSUME IInv, [Next]_vars PROVE IInv'
  OBVIOUS
<1>1. CASE Next
  BY <1>1, PollStep, RingStep DEF Next
<1>2. CASE UNCHANGED vars
  BY <1>2, Stutter
<1> QED BY <1>1, <1>2

-----------------------------------------------------------------------------
(* The theorems                                                            *)

\* The invariant holds in every reachable state.
THEOREM Invariant == Spec => []IInv
BY InitInv, NextInv, PTL DEF Spec

\* The variables have their types, whichever context it is.
THEOREM TypeCorrect == Spec => []TypeOK
<1>1. IInv => TypeOK
  <2> SUFFICES ASSUME IInv PROVE TypeOK
    OBVIOUS
  <2>1. d_count \in Nat /\ holder \in Threads \cup {Nobody}
    BY DEF IInv, IoTypes, RingInit, RingOk, RingTypes
  <2>2. callback \in [Ops -> {"none", "called", "dangling"}] /\ missed \subseteq Ops
    BY DEF IInv, IoTypes, RingInit, RingOk, Callbacks
  <2> QED BY <2>1, <2>2 DEF IInv, IoTypes, OpState, TypeOK
<1> QED BY <1>1, Invariant, PTL

\* No context and no submission refers to a completed operation state, over poll
\* and over io_uring alike.  A stop callback that was called and not entered may,
\* but only that of an operation that was not completed as stopped.
THEOREM NoReference == Spec => []LastReference
<1>1. IInv => LastReference
  <2> SUFFICES ASSUME IInv, NEW o \in Ops, Completed(o)
               PROVE  /\ Len(st[o].outcome) = 1 /\ {IoOf(o), CancelOf(o)} \cap Held = {}
                      /\ st[o].outcome[1] = "stopped" => callback[o] = "none"
    BY DEF LastReference
  <2>1. OpOk(st[o], o, Held, Heard)
    BY DEF IInv, OpsOk
  <2>2. /\ Len(st[o].outcome) = 1 /\ IoOf(o) \notin Held /\ CancelOf(o) \notin Held
        /\ st[o].engaged /\ (st[o].outcome[1] = "stopped" => o \in Heard)
    BY <2>1 DEF OpOk, Completed
  <2>3. o \in Heard => callback[o] # "called"
    BY DEF Heard
  <2>4. callback[o] \in {"none", "called"}
    <3>1. CASE d_context = "poll"
      BY <3>1 DEF IInv, RingInit
    <3>2. CASE d_context = "ring"
      BY <2>2, <3>2 DEF IInv, RingOk, Callbacks
    <3> QED BY <3>1, <3>2 DEF IInv, IoTypes
  <2> QED BY <2>2, <2>3, <2>4
<1> QED BY <1>1, Invariant, PTL

\* The results an operation state waits for are those the context holds, and
\* a wait that is queued is held.
THEOREM Kept == Spec => []NothingLost
<1>1. IInv => NothingLost
  <2> SUFFICES ASSUME IInv PROVE NothingLost
    OBVIOUS
  <2>1. ASSUME NEW o \in Ops, Pending(o)
        PROVE  st[o].outstanding = Cardinality({IoOf(o), CancelOf(o)} \cap Held)
    <3>1. OpOk(st[o], o, Held, Heard)
      BY DEF IInv, OpsOk
    <3>2. st[o].outstanding = (IF IoOf(o) \in Held THEN 1 ELSE 0)
                            + (IF CancelOf(o) \in Held THEN 1 ELSE 0)
      BY <2>1, <3>1 DEF OpOk, Pending, Completed
    <3>3. PICK x, y : x = IoOf(o) /\ y = CancelOf(o) /\ x # y
      BY EntryFacts
    <3>4. IsFiniteSet({}) /\ Cardinality({}) = 0
      BY FS_EmptySet
    <3>5. IsFiniteSet({x}) /\ Cardinality({x}) = 1 /\ Cardinality({y}) = 1
      BY FS_Singleton
    <3>7. Cardinality({x} \cup {y}) = 2
      <4>1. y \notin {x}
        BY <3>3
      <4>2. Cardinality({x} \cup {y}) = Cardinality({x}) + 1
        BY <3>5, <4>1, FS_AddElement
      <4> QED BY <3>5, <4>2
    <3>8. PICK S : S = {x, y} \cap Held
      OBVIOUS
    <3>9. Cardinality(S) = (IF x \in Held THEN 1 ELSE 0) + (IF y \in Held THEN 1 ELSE 0)
      <4>1. CASE x \in Held /\ y \in Held
        <5>1. S = {x} \cup {y}
          BY <3>8, <4>1
        <5> QED BY <3>7, <4>1, <5>1
      <4>2. CASE x \in Held /\ y \notin Held
        <5>1. S = {x}
          BY <3>8, <4>2
        <5> QED BY <3>5, <4>2, <5>1
      <4>3. CASE x \notin Held /\ y \in Held
        <5>1. S = {y}
          BY <3>8, <4>3
        <5> QED BY <3>5, <4>3, <5>1
      <4>4. CASE x \notin Held /\ y \notin Held
        <5>1. S = {}
          BY <3>8, <4>4
        <5> QED BY <3>4, <4>4, <5>1
      <4> QED BY <4>1, <4>2, <4>3, <4>4
    <3> QED BY <3>2, <3>3, <3>8, <3>9
  <2>2. ASSUME NEW w \in Waits
        PROVE  wait[w] = "queued" <=> {NopOf(w), TimerOf(w)} \cap Held # {}
    <3>1. wait[w] = "queued" <=> NopOf(w) \in Held \/ TimerOf(w) \in Held
      BY DEF IInv, OpsOk, WaitOk
    <3> QED BY <3>1
  <2> QED BY <2>1, <2>2 DEF NothingLost
<1> QED BY <1>1, Invariant, PTL

\* The receiver learns what happened: a result that arrived is delivered, a
\* stopped operation was stopped, and an error is reported as such.
THEOREM Honest == Spec => []OutcomeHonest
<1>1. IInv => OutcomeHonest
  <2> SUFFICES ASSUME IInv, NEW o \in Ops, Completed(o)
               PROVE  /\ st[o].outcome[1] = "value" <=> st[o].result = "value"
                      /\ st[o].outcome[1] = "stopped" => o \in stopped /\ st[o].cancelled
                      /\ st[o].outcome[1] = "error" => st[o].result = "errno" /\ ~st[o].cancelled
    BY DEF OutcomeHonest
  <2>1. OpOk(st[o], o, Held, Heard)
    BY DEF IInv, OpsOk
  <2> QED BY <2>1 DEF OpOk, Heard, Completed
<1> QED BY <1>1, Invariant, PTL

\* d_outstanding of ring_context counts the entries in both rings and with
\* the kernel, for any size of the ring, any wrap of its counters and fewer
\* failures of io_uring_enter() than slots.
THEOREM Accounts == Spec => []RingAccounts
<1>2. IInv => RingAccounts
  <2> SUFFICES ASSUME IInv PROVE RingAccounts
    OBVIOUS
  <2>1. CASE d_context = "ring"
    BY <2>1 DEF IInv, RingOk
  <2>2. CASE d_context = "poll"
    BY <2>2, InitAccounts DEF IInv
  <2> QED BY <2>1, <2>2 DEF IInv, IoTypes
<1> QED BY <1>2, Invariant, PTL

\* handle_io() reads through a lost d_next_poll only when run() was called
\* again after it had returned.
THEOREM DefinedAtFirst == Spec => []UndefinedOnlyWhenRunAgain
<1>1. IInv => UndefinedOnlyWhenRunAgain
  BY DEF IInv, Iterator, UndefinedOnlyWhenRunAgain
<1> QED BY <1>1, Invariant, PTL

\* poll_context: run() returns when its lists are empty.
LEMMA PollDrainedFacts ==
    ASSUME IInv, d_context = "poll", PollDrained
    PROVE  \A e : e \notin Held
<1>1. /\ run = "running" /\ NothingScheduled /\ ~OnDescriptor /\ timers = <<>>
  BY DEF PollDrained, PollReturnsFalse, AtIo
<1>2. RingInit /\ ops \in Seq(PollEntry)
  BY DEF IInv, PollOk
<1>3. ops = <<>>
  <2> SUFFICES ASSUME ops # <<>> PROVE FALSE
    OBVIOUS
  <2>1. PICK n \in 1..Len(ops) : Last(ops) = ops[n]
    <3>1. Len(ops) \in Nat /\ Len(ops) # 0
      BY <1>2
    <3> QED BY <3>1 DEF Last
  <2>2. ops[n].kind \in {"io", "cancel", "nop"}
    BY <1>2, <2>1, EntryFacts
  <2>3. ops[n].kind # "io"
    BY <1>1, <2>1 DEF OnDescriptor
  <2> QED BY <1>1, <2>1, <2>2, <2>3 DEF NothingScheduled, TopIs, Scheduled
<1>4. ToSet(ops) = {} /\ ToSet(timers) = {}
  BY <1>1, <1>3 DEF ToSet
<1> QED BY <1>2, <1>4, PollHeld

\* ring_context: run() returns when nothing but cancellations that other
\* threads did not submit yet is left.
LEMMA RingDrainedFacts ==
    ASSUME IInv, d_context = "ring", RingDrained
    PROVE  \A e : e \in Held => \E o \in Ops : e = CancelOf(o) /\ todo[o] = <<CancelOf(o)>>
<1>1. d_count = 0 /\ todo[Context] = <<>>
  BY DEF RingDrained, ContextFree
<1>2. PollInit /\ RingTypes /\ Submitting /\ RingAccounts
  BY DEF IInv, RingOk
<1>3. Cardinality(kernel) \in Nat /\ Len(cq) \in Nat /\ failures \in Nat
  BY <1>2, FS_CardinalityType DEF RingTypes
<1>4. Used(sq) \in Nat
  BY <1>2, <1>3 DEF RingAccounts
<1>5. d_count = Used(sq) + Cardinality(kernel) + Len(cq)
  BY <1>2 DEF RingAccounts
<1>6. Used(sq) = 0 /\ Cardinality(kernel) = 0 /\ Len(cq) = 0
  BY <1>1, <1>3, <1>4, <1>5
<1>7. kernel = {}
  BY <1>2, <1>6, FS_EmptySet DEF RingTypes
<1>8. CqEntries = {}
  BY <1>6 DEF CqEntries
<1>9. SqEntries = {}
  <2>1. IsFiniteSet(SqEntries)
    <3>1. SqEntries = Entries(sq.slot)
      BY DEF SqEntries, Entries
    <3> QED BY <3>1, SlotsFinite
  <2>2. Cardinality(SqEntries) = 0
    BY <1>2, <1>6 DEF RingAccounts
  <2> QED BY <2>1, <2>2, FS_EmptySet
<1>10. holder = Nobody
  BY <1>2, <1>9 DEF Submitting
<1> SUFFICES ASSUME NEW e, e \in Held
             PROVE  \E o \in Ops : e = CancelOf(o) /\ todo[o] = <<CancelOf(o)>>
  OBVIOUS
<1>11. e \in Waiting
  BY <1>2, <1>7, <1>8, <1>9, RingHeld
<1>12. PICK a \in Threads : e \in ToSet(todo[a])
  BY <1>10, <1>11, ThreadFacts DEF Waiting, Rest
<1>13. todo[a] # <<>>
  BY <1>12 DEF ToSet
<1>14. a \in Ops /\ todo[a] = <<CancelOf(a)>>
  BY <1>1, <1>2, <1>13 DEF Submitting, Submits, Threads
<1>15. ToSet(<<CancelOf(a)>>) = {CancelOf(a)}
  BY DEF ToSet
<1> QED BY <1>12, <1>14, <1>15

\* run() returns with nothing left to do but for stop callbacks that are about
\* to submit a cancellation.
THEOREM Drained == Spec => ReturnsDrained
<1>1. ASSUME IInv, Next, run = "running", run' = "drained"
      PROVE  (d_context = "poll" /\ PollDrained) \/ (d_context = "ring" /\ RingDrained)
  <2>1. CASE OnPoll(PollUser)
    BY <1>1, <2>1 DEF OnPoll, PollUser, PollStartInline, PollStartQueued, PollStart, PollStop,
       Destroy, PollSchedule, PollTimer, RunBegin
  <2>2. CASE OnPoll(PollRun)
    BY <1>1, <2>2 DEF OnPoll, PollRun, HandleTimer, HandleNop, HandleCancel, HandleIoUndefined,
       HandleIo, Poll, ioVars
  <2>3. CASE OnPoll(PollFails)
    BY <1>1, <2>3 DEF OnPoll, PollFails, PollReturnsFalse
  <2>4. CASE OnRing(RingUser)
    BY <1>1, <2>4 DEF OnRing, RingUser, RingStart, RingStartSpins, RingStop, RingDestroy, Destroy,
       RingWait, RunBegin
  <2>5. CASE OnRing(RingRun) \/ OnRing(RingInterrupted)
    BY <1>1, <2>5 DEF OnRing, RingRun, ProcessResult, RingInterrupted
  <2>6. CASE \E a \in Threads : OnRing(Submit(a)) \/ OnRing(EnterFails(a))
    BY <1>1, <2>6 DEF OnRing, Submit, Fill, Enter, EnterFails, Unlock, ioVars
  <2>7. CASE OnRing(Kernel)
    BY <1>1, <2>7 DEF OnRing, Kernel, KernelCompletes, ioVars
  <2>8. CASE \E o \in Ops : OnRing(Callback(o))
    BY <1>1, <2>8 DEF OnRing, Callback, CancelCounts, CancelDangles
  <2> QED BY <1>1, <2>1, <2>2, <2>3, <2>4, <2>5, <2>6, <2>7, <2>8 DEF Next
<1>2. ASSUME IInv, Next, run = "running", run' = "drained"
      PROVE  /\ \A w \in Waits : wait[w] = "idle"
             /\ \A o \in Ops : Pending(o) => todo[o] = <<CancelOf(o)>>
  <2>1. \A e : e \in Held => \E o \in Ops : e = CancelOf(o) /\ todo[o] = <<CancelOf(o)>>
    BY <1>1, <1>2, PollDrainedFacts, RingDrainedFacts
  <2>2. ASSUME NEW w \in Waits PROVE wait[w] = "idle"
    <3>1. NopOf(w) \notin Held /\ TimerOf(w) \notin Held
      BY <2>1, EntryFacts
    <3>2. wait[w] \in {"idle", "queued"} /\ WaitOk(wait[w], w, Held)
      BY <1>2 DEF IInv, IoTypes, OpsOk
    <3> QED BY <3>1, <3>2 DEF WaitOk
  <2>3. ASSUME NEW o \in Ops, Pending(o) PROVE todo[o] = <<CancelOf(o)>>
    <3>1. OpOk(st[o], o, Held, Heard)
      BY <1>2 DEF IInv, OpsOk
    <3>2. IoOf(o) \in Held \/ CancelOf(o) \in Held
      BY <2>3, <3>1 DEF OpOk, Pending, Completed
    <3>3. IoOf(o) \notin Held
      BY <2>1, EntryFacts
    <3>4. PICK u \in Ops : CancelOf(o) = CancelOf(u) /\ todo[u] = <<CancelOf(u)>>
      BY <2>1, <3>2, <3>3
    <3> QED BY <3>4 DEF CancelOf
  <2> QED BY <2>2, <2>3
<1>3. IInv /\ [Next]_vars =>
        [run = "running" /\ run' = "drained" =>
            /\ \A w \in Waits : wait[w] = "idle"
            /\ \A o \in Ops : Pending(o) => todo[o] = <<CancelOf(o)>>]_vars
  BY <1>2
<1> QED BY <1>3, Invariant, PTL DEF Spec, ReturnsDrained

-----------------------------------------------------------------------------
(* The promise of an operation state                                       *)

\* The phase of an operation with these members.
Seen(s) ==
    IF s.outcome # <<>> THEN Head(s.outcome) ELSE IF s.engaged THEN "started" ELSE "idle"

\* The phases before and after a step that changes one operation state.
LEMMA PhaseMove ==
    ASSUME st \in [Ops -> OpState], NEW o \in Ops, NEW s, st' = [st EXCEPT ![o] = s]
    PROVE  PhaseOf[o] = Seen(st[o]) /\ PhaseOf' = [PhaseOf EXCEPT ![o] = Seen(s)]
<1>1. PhaseOf = [u \in Ops |-> Seen(st[u])]
  BY DEF PhaseOf, Seen, Completed
<1>2. PhaseOf' = [u \in Ops |-> Seen(st'[u])]
  BY DEF PhaseOf, Seen, Completed
<1>3. \A u \in Ops : st'[u] = IF u = o THEN s ELSE st[u]
  OBVIOUS
<1> QED BY <1>1, <1>2, <1>3

\* An operation that is not completed is started, goes on, or is completed.
LEMMA PromiseMove ==
    ASSUME IInv, IInv', NEW o \in Ops, NEW s, st' = [st EXCEPT ![o] = s],
           st[o].outcome = <<>>, s.engaged, stopped' = stopped
    PROVE  Promise!Next \/ UNCHANGED <<PhaseOf, stopped>>
<1>1. st \in [Ops -> OpState]
  BY DEF IInv, IoTypes
<1>2. /\ PhaseOf[o] \in {"idle", "started"}
      /\ PhaseOf' = [PhaseOf EXCEPT ![o] = Seen(s)]
  BY <1>1, PhaseMove DEF Seen
<1>3. OpOk(s, o, Held', Heard')
  <2>1. OpOk(st'[o], o, Held', Heard')
    BY DEF IInv, OpsOk
  <2> QED BY <1>1, <2>1
<1>4. CASE s.outcome = <<>>
  <2>1. Seen(s) = "started"
    BY <1>4 DEF Seen
  <2>2. CASE PhaseOf[o] = "idle"
    BY <1>2, <2>1, <2>2 DEF Promise!Next, Promise!Start
  <2>3. CASE PhaseOf[o] = "started"
    <3>1. PhaseOf' = PhaseOf
      BY <1>2, <2>1, <2>3 DEF PhaseOf
    <3> QED BY <3>1
  <2> QED BY <1>2, <2>2, <2>3
<1>5. CASE s.outcome # <<>>
  <2>1. s.outcome \in Seq({"value", "error", "stopped"})
    BY <1>3 DEF OpOk, OpState
  <2>2. PICK how \in {"value", "error", "stopped"} : how = Head(s.outcome) /\ how = s.outcome[1]
    BY <1>5, <2>1
  <2>3. how = "stopped" => o \in stopped
    BY <1>3, <1>5, <2>2 DEF OpOk, Heard
  <2>4. Seen(s) = how
    BY <1>5, <2>2 DEF Seen
  <2>5. Promise!Complete(o, how)
    BY <1>2, <2>3, <2>4 DEF Promise!Complete
  <2> QED BY <2>5 DEF Promise!Next, Promise!Outcome
<1> QED BY <1>4, <1>5

\* A stop request, whether or not the operation is started.
LEMMA PromiseAsk ==
    ASSUME IInv, NEW o \in Ops, stopped' = stopped \cup {o},
           \/ st' = IF st[o].engaged THEN [st EXCEPT ![o] = Counted(st[o])] ELSE st
           \/ st' = st
    PROVE  Promise!Next
<1>1. st \in [Ops -> OpState]
  BY DEF IInv, IoTypes
<1>2. PhaseOf' = PhaseOf
  <2>1. CASE st[o].engaged /\ st' # st
    <3>1. PhaseOf[o] = Seen(st[o]) /\ PhaseOf' = [PhaseOf EXCEPT ![o] = Seen(Counted(st[o]))]
      BY <1>1, <2>1, PhaseMove
    <3>2. Seen(Counted(st[o])) = Seen(st[o])
      BY <1>1, StaysEngaged DEF Seen
    <3> QED BY <3>1, <3>2 DEF PhaseOf
  <2>2. CASE st' = st
    BY <2>2 DEF PhaseOf, Completed
  <2> QED BY <2>1, <2>2
<1> QED BY <1>2 DEF Promise!Next, Promise!Ask

\* The stop callback counts, at which the phase stays the same.
LEMMA PromiseCounts ==
    ASSUME IInv, NEW o \in Ops, stopped' = stopped, st' = [st EXCEPT ![o] = Counted(st[o])]
    PROVE  UNCHANGED <<PhaseOf, stopped>>
<1>1. st \in [Ops -> OpState]
  BY DEF IInv, IoTypes
<1>2. PhaseOf[o] = Seen(st[o]) /\ PhaseOf' = [PhaseOf EXCEPT ![o] = Seen(Counted(st[o]))]
  BY <1>1, PhaseMove
<1>3. Seen(Counted(st[o])) = Seen(st[o])
  BY <1>1, StaysEngaged DEF Seen
<1> QED BY <1>2, <1>3 DEF PhaseOf

\* A completed operation state is destroyed.
LEMMA PromiseRenew ==
    ASSUME IInv, NEW o \in Ops, Destroy(o)
    PROVE  Promise!Next
<1>1. st' = [st EXCEPT ![o] = Fresh] /\ stopped' = stopped /\ st[o].outcome # <<>>
  BY DEF Destroy, Completed
<1>2. PhaseOf[o] = Seen(st[o]) /\ PhaseOf' = [PhaseOf EXCEPT ![o] = Seen(Fresh)]
  BY <1>1, PhaseMove DEF IInv, IoTypes
<1>3. Seen(Fresh) = "idle"
  BY DEF Seen, Fresh
<1>4. Seen(st[o]) \in {"value", "error", "stopped"}
  <2>1. st[o].outcome \in Seq({"value", "error", "stopped"})
    BY DEF IInv, IoTypes, OpState
  <2> QED BY <1>1, <2>1 DEF Seen
<1> QED BY <1>1, <1>2, <1>3, <1>4 DEF Promise!Next, Promise!Renew, Promise!Outcome

\* An operation the context holds something for is started and not completed.
LEMMA HeldPending ==
    ASSUME IInv, NEW o \in Ops, IoOf(o) \in Held \/ CancelOf(o) \in Held
    PROVE  st[o] \in OpState /\ st[o].engaged /\ st[o].outcome = <<>>
<1>1. OpOk(st[o], o, Held, Heard)
  BY DEF IInv, OpsOk
<1> QED BY <1>1 DEF OpOk

\* What start() makes of an operation state that was not used.
LEMMA StartedFacts ==
    ASSUME IInv, NEW o \in Ops, ~st[o].engaged
    PROVE  /\ st[o] \in OpState /\ st[o].outcome = <<>>
           /\ Engaged(st[o]) \in OpState /\ Engaged(st[o]).engaged
           /\ Counted(Engaged(st[o])) \in OpState /\ Counted(Engaged(st[o])).engaged
<1>1. OpOk(st[o], o, Held, Heard)
  BY DEF IInv, OpsOk
<1>2. st[o] \in OpState /\ st[o].outcome = <<>>
  BY <1>1 DEF OpOk, Fresh
<1>3. Engaged(st[o]) \in OpState /\ Engaged(st[o]).engaged
  BY <1>2, StaysEngaged
<1>4. Counted(Engaged(st[o])) \in OpState /\ Counted(Engaged(st[o])).engaged
  BY <1>2, StaysEngaged
<1> QED BY <1>2, <1>3, <1>4

\* The steps of poll_context are steps of the abstract operation.
LEMMA PollPromise ==
    ASSUME IInv, IInv', d_context = "poll", UNCHANGED <<d_context, ringVars>>,
           PollUser \/ PollRun \/ PollFails
    PROVE  Promise!Next \/ UNCHANGED <<PhaseOf, stopped>>
<1> DEFINE Goal == Promise!Next \/ UNCHANGED <<PhaseOf, stopped>>
<1>0. ASSUME st' = st, stopped' = stopped PROVE Goal
  BY <1>0 DEF PhaseOf, Completed
<1>1. ASSUME NEW o \in Ops, PollStartQueued(o) \/ \E r \in Results : PollStartInline(o, r)
      PROVE  Goal
  <2>1. ~st[o].engaged /\ stopped' = stopped
    BY <1>1 DEF PollStartQueued, PollStartInline, PollStart
  <2>2. PollEngage(o).s \in OpState /\ PollEngage(o).s.engaged
    BY <2>1, StartedFacts DEF PollEngage
  <2>3. PICK s : st' = [st EXCEPT ![o] = s] /\ s.engaged
    <3>1. CASE PollStartQueued(o)
      BY <2>2, <3>1 DEF PollStartQueued
    <3>2. CASE \E r \in Results : PollStartInline(o, r)
      <4>1. PICK r \in Results : PollStartInline(o, r)
        BY <3>2
      <4>2. Result(PollEngage(o).s, r).engaged
        BY <2>2, StaysEngaged
      <4> QED BY <4>1, <4>2 DEF PollStartInline
    <3> QED BY <1>1, <3>1, <3>2
  <2> QED BY <2>1, <2>3, StartedFacts, PromiseMove
<1>2. ASSUME NEW o \in Ops, PollStop(o) PROVE Goal
  BY <1>2, PromiseAsk DEF PollStop
<1>3. ASSUME NEW o \in Ops, Destroy(o) PROVE Goal
  BY <1>3, PromiseRenew
<1>4. ASSUME NEW w \in Waits, PollSchedule(w) \/ \E k \in 1..(Len(timers) + 1) : PollTimer(w, k)
      PROVE  Goal
  BY <1>0, <1>4 DEF PollSchedule, PollTimer
<1>5. CASE RunBegin \/ HandleTimer \/ HandleNop \/ HandleIoUndefined \/ PollDrained \/ PollFails
  BY <1>0, <1>5 DEF RunBegin, HandleTimer, HandleNop, HandleIoUndefined, PollDrained, PollFails,
     PollReturnsFalse
<1>6. CASE \E ready \in SUBSET {Fd[o] : o \in Ops} : Poll(ready)
  BY <1>0, <1>6 DEF Poll, ioVars
<1>7. ASSUME NEW k, NEW o \in Ops, NEW r \in Results, HandleIo(k, o, r) PROVE Goal
  <2>1. IoOf(o) \in Held
    BY <1>7, PollFacts, Elements DEF HandleIo, PollOk
  <2>2. Result(st[o], r).engaged
    BY <2>1, HeldPending, StaysEngaged
  <2> QED BY <1>7, <2>1, <2>2, HeldPending, PromiseMove DEF HandleIo
<1>8. CASE HandleCancel
  <2>1. ops # <<>> /\ Last(ops).kind = "cancel" /\ stopped' = stopped
    BY <1>8 DEF HandleCancel, TopIs
  <2>2. Last(ops) \in ToSet(ops)
    BY <2>1, PollFacts, PopFacts DEF PollOk
  <2>3. PICK o \in Ops : o = Last(ops).of /\ Last(ops) = CancelOf(o)
    BY <2>1, <2>2, PollFacts, EntryFacts
  <2>4. CancelOf(o) \in Held
    BY <2>2, <2>3, PollFacts
  <2>5. PICK s : s = CancelResult(st[o])
    OBVIOUS
  <2>6. PICK x : st' = [st EXCEPT ![o] = x] /\ x \in {s, Result(s, "ECANCELED")}
    BY <1>8, <2>3, <2>5 DEF HandleCancel
  <2>7. s.engaged /\ Result(s, "ECANCELED").engaged
    <3>1. st[o] \in OpState /\ st[o].engaged
      BY <2>4, HeldPending
    <3> QED BY <2>5, <3>1 DEF OpState, CancelResult, Result, Complete
  <2> QED BY <2>1, <2>4, <2>6, <2>7, HeldPending, PromiseMove
<1> QED BY <1>1, <1>2, <1>3, <1>4, <1>5, <1>6, <1>7, <1>8 DEF PollUser, PollRun

\* The steps of ring_context are steps of the abstract operation.
LEMMA RingPromise ==
    ASSUME IInv, IInv', d_context = "ring", UNCHANGED <<d_context, pollVars>>,
           RingUser \/ RingRun \/ RingInterrupted \/ Kernel
             \/ (\E a \in Threads : Submit(a) \/ EnterFails(a)) \/ \E o \in Ops : Callback(o)
    PROVE  Promise!Next \/ UNCHANGED <<PhaseOf, stopped>>
<1> DEFINE Goal == Promise!Next \/ UNCHANGED <<PhaseOf, stopped>>
<1>0. ASSUME st' = st, stopped' = stopped PROVE Goal
  BY <1>0 DEF PhaseOf, Completed
<1>1. ASSUME NEW o \in Ops, RingStart(o) PROVE Goal
  <2>1. ~st[o].engaged /\ stopped' = stopped
    BY <1>1 DEF RingStart
  <2>2. PICK s : st' = [st EXCEPT ![o] = s] /\ s \in {Engaged(st[o]), Counted(Engaged(st[o]))}
    BY <1>1 DEF RingStart
  <2> QED BY <2>1, <2>2, StartedFacts, PromiseMove
<1>2. ASSUME NEW o \in Ops, RingStop(o) PROVE Goal
  BY <1>2, PromiseAsk DEF RingStop
<1>3. ASSUME NEW o \in Ops, RingDestroy(o) PROVE Goal
  BY <1>3, PromiseRenew DEF RingDestroy
<1>3a. ASSUME NEW o \in Ops, Callback(o) PROVE Goal
  BY <1>0, <1>3a, PromiseCounts DEF Callback, CancelCounts, CancelDangles
<1>3b. ASSUME NEW o \in Ops, RingStartSpins(o) PROVE Goal
  BY <1>0, <1>3b DEF RingStartSpins
<1>4. ASSUME NEW w \in Waits, RingWait(w) PROVE Goal
  BY <1>0, <1>4 DEF RingWait
<1>5. CASE RunBegin \/ RingDrained \/ RingInterrupted
  BY <1>0, <1>5 DEF RunBegin, RingDrained, RingInterrupted
<1>6. CASE Kernel \/ \E a \in Threads : Submit(a) \/ EnterFails(a)
  BY <1>0, <1>6 DEF Kernel, KernelCompletes, Submit, Fill, Enter, EnterFails, Unlock, ioVars
<1>7. CASE ProcessResult
  <2>1. PICK x : x = Head(cq)
    OBVIOUS
  <2>2. /\ x.kind = "io" => st' = [st EXCEPT ![x.of] = Result(st[x.of], x.result)]
        /\ x.kind = "cancel" => st' = [st EXCEPT ![x.of] = CancelResult(st[x.of])]
        /\ x.kind \notin {"io", "cancel"} => st' = st
        /\ stopped' = stopped /\ cq # <<>>
    BY <1>7, <2>1 DEF ProcessResult
  <2>3. x \in Completion /\ EntryOf(x) \in CqEntries
    <3>1. cq \in Seq(Completion) /\ Unique(cq)
      BY RingFacts DEF RingOk, RingTypes, OnePlace
    <3>2. x \in ToSet(cq)
      BY <2>1, <2>2, <3>1, ReportPop
    <3> QED BY <3>1, <3>2, ReportedHeld
  <2>4. EntryOf(x) \in Held
    BY <2>3, RingFacts
  <2>5. CASE x.kind \in {"io", "cancel"}
    <3>1. PICK o \in Ops : o = x.of /\ EntryOf(x) \in {IoOf(o), CancelOf(o)}
      BY <2>3, <2>5, CompletionFacts
    <3>2. st[o] \in OpState /\ st[o].engaged /\ st[o].outcome = <<>>
      BY <2>4, <3>1, HeldPending
    <3>3. PICK s : st' = [st EXCEPT ![o] = s] /\ s.engaged
      <4>1. Result(st[o], x.result).engaged /\ CancelResult(st[o]).engaged
        BY <3>2, StaysEngaged
      <4> QED BY <2>2, <2>5, <3>1, <4>1
    <3> QED BY <2>2, <3>2, <3>3, PromiseMove
  <2>6. CASE x.kind \notin {"io", "cancel"}
    BY <1>0, <2>2, <2>6
  <2> QED BY <2>5, <2>6
<1> QED BY <1>1, <1>2, <1>3, <1>3a, <1>3b, <1>4, <1>5, <1>6, <1>7 DEF RingUser, RingRun

\* Every step is one of the abstract operation, or none.
LEMMA PromiseStep == IInv /\ IInv' /\ [Next]_vars => [Promise!Next]_Promise!vars
<1> SUFFICES ASSUME IInv, IInv', [Next]_vars
             PROVE  Promise!Next \/ UNCHANGED <<PhaseOf, stopped>>
  BY DEF Promise!vars
<1>1. CASE OnPoll(PollUser) \/ OnPoll(PollRun) \/ OnPoll(PollFails)
  BY <1>1, PollPromise DEF OnPoll
<1>2. CASE \/ OnRing(RingUser) \/ OnRing(RingRun) \/ OnRing(RingInterrupted) \/ OnRing(Kernel)
           \/ \E a \in Threads : OnRing(Submit(a)) \/ OnRing(EnterFails(a))
           \/ \E o \in Ops : OnRing(Callback(o))
  BY <1>2, RingPromise DEF OnRing
<1>3. CASE UNCHANGED vars
  BY <1>3 DEF vars, ioVars, PhaseOf, Completed
<1> QED BY <1>1, <1>2, <1>3 DEF Next

\* Over poll and over io_uring the operations implement the abstract operation
\* state: whatever is outstanding or was cancelled, each start() is followed by
\* one completion at most, and by set_stopped() only after a stop request.
THEOREM Refinement == Spec => KeepsPromise
<1>1. Init => Promise!Init
  <2> SUFFICES ASSUME Init PROVE Promise!Init
    OBVIOUS
  <2>1. \A o \in Ops : st[o] = Fresh
    BY DEF Init, IoInit
  <2>2. PhaseOf = [o \in Ops |-> "idle"]
    BY <2>1 DEF PhaseOf, Completed, Fresh
  <2>3. stopped = {}
    BY DEF Init, IoInit
  <2> QED BY <2>2, <2>3 DEF Promise!Init
<1> QED BY <1>1, PromiseStep, Invariant, PTL DEF Spec, KeepsPromise, Promise!Spec

-----------------------------------------------------------------------------
(* How a stop request is lost                                              *)

\* With poll_context an operation whose cancellation was answered is completed.
Answered == d_context = "poll" => \A o \in Ops : st[o].cancelled => Completed(o)

\* Only cancel::do_result sets d_cancelled.
LEMMA CancelledFacts ==
    ASSUME NEW s \in OpState
    PROVE  /\ Engaged(s).cancelled = s.cancelled
           /\ Counted(s).cancelled = s.cancelled
           /\ \A r : Result(s, r).cancelled = s.cancelled
BY DEF OpState, Engaged, Counted, Result, Complete

\* One operation changes.
LEMMA AnsweredMove ==
    ASSUME IInv, Answered, d_context = "poll", d_context' = d_context,
           NEW o \in Ops, NEW s, st' = [st EXCEPT ![o] = s], s.cancelled => s.outcome # <<>>
    PROVE  Answered'
<1>1. \A u \in Ops : st'[u] = IF u = o THEN s ELSE st[u]
  BY DEF IInv, IoTypes
<1> QED BY <1>1 DEF Answered, Completed

\* The answer to a cancellation completes the operation, which gets its own
\* result with it unless it has got that before.
LEMMA BothAnswered ==
    ASSUME NEW s \in OpState, NEW x, s.outcome = <<>>,
           \/ s.outstanding = 1 /\ x = CancelResult(s)
           \/ s.outstanding = 2 /\ x = Result(CancelResult(s), "ECANCELED")
    PROVE  x.outcome # <<>>
<1>1. CASE s.outstanding = 1 /\ x = CancelResult(s)
  BY <1>1 DEF OpState, CancelResult, Complete
<1>2. CASE s.outstanding = 2 /\ x = Result(CancelResult(s), "ECANCELED")
  <2>1. PICK t : t = CancelResult(s)
    OBVIOUS
  <2>2. PICK b \in BOOLEAN, n \in 0..2 : b = TRUE /\ n = 1
    <3>1. 1 \in 0..2
      OBVIOUS
    <3> QED BY <3>1
  <2>3. t = [s EXCEPT !.cancelled = b, !.outstanding = n]
    BY <1>2, <2>1, <2>2 DEF OpState, CancelResult
  <2>4. t \in OpState /\ t.outstanding = 1 /\ t.outcome = <<>>
    BY <2>2, <2>3 DEF OpState
  <2>5. Result(t, "ECANCELED").outcome # <<>>
    BY <2>4 DEF OpState, Result, Complete
  <2> QED BY <1>2, <2>1, <2>5
<1> QED BY <1>1, <1>2

\* The steps of poll_context keep it.
LEMMA AnsweredStep ==
    ASSUME IInv, Answered, d_context = "poll", UNCHANGED <<d_context, ringVars>>,
           PollUser \/ PollRun \/ PollFails
    PROVE  Answered'
<1>0. ASSUME st' = st PROVE Answered'
  BY <1>0 DEF Answered, Completed
<1>1. ASSUME NEW o \in Ops, PollStartQueued(o) \/ \E r \in Results : PollStartInline(o, r)
      PROVE  Answered'
  <2>1. ~st[o].engaged
    BY <1>1 DEF PollStartQueued, PollStartInline, PollStart
  <2>2. st[o].cancelled = FALSE
    <3>1. OpOk(st[o], o, Held, Heard)
      BY DEF IInv, OpsOk
    <3> QED BY <2>1, <3>1 DEF OpOk, Fresh
  <2>3. PollEngage(o).s \in OpState /\ ~PollEngage(o).s.cancelled
    <3>1. st[o] \in OpState /\ Engaged(st[o]) \in OpState /\ Counted(Engaged(st[o])) \in OpState
      BY <2>1, StartedFacts
    <3>2. ~Engaged(st[o]).cancelled /\ ~Counted(Engaged(st[o])).cancelled
      BY <2>2, <3>1, CancelledFacts
    <3> QED BY <3>1, <3>2 DEF PollEngage
  <2>4. PICK s : st' = [st EXCEPT ![o] = s] /\ ~s.cancelled
    <3>1. CASE PollStartQueued(o)
      BY <2>3, <3>1 DEF PollStartQueued
    <3>2. CASE \E r \in Results : PollStartInline(o, r)
      <4>1. PICK r \in Results : PollStartInline(o, r)
        BY <3>2
      <4>2. ~Result(PollEngage(o).s, r).cancelled
        BY <2>3, CancelledFacts
      <4> QED BY <4>1, <4>2 DEF PollStartInline
    <3> QED BY <1>1, <3>1, <3>2
  <2> QED BY <2>4, AnsweredMove
<1>2. ASSUME NEW o \in Ops, PollStop(o) PROVE Answered'
  <2>1. CASE st[o].engaged
    <3>1. st[o] \in OpState
      BY DEF IInv, IoTypes
    <3>2. /\ Counted(st[o]).cancelled = st[o].cancelled
          /\ Counted(st[o]).outcome = st[o].outcome
      BY <3>1, CancelledFacts, StaysEngaged
    <3>3. Counted(st[o]).cancelled => Counted(st[o]).outcome # <<>>
      BY <3>2 DEF Answered, Completed
    <3>4. st' = [st EXCEPT ![o] = Counted(st[o])]
      BY <1>2, <2>1 DEF PollStop
    <3> QED BY <3>3, <3>4, AnsweredMove
  <2>2. CASE ~st[o].engaged
    BY <1>0, <1>2, <2>2 DEF PollStop
  <2> QED BY <2>1, <2>2
<1>3. ASSUME NEW o \in Ops, Destroy(o) PROVE Answered'
  <2>1. ~Fresh.cancelled
    BY DEF Fresh
  <2> QED BY <1>3, <2>1, AnsweredMove DEF Destroy
<1>4. ASSUME NEW w \in Waits, PollSchedule(w) \/ \E k \in 1..(Len(timers) + 1) : PollTimer(w, k)
      PROVE  Answered'
  BY <1>0, <1>4 DEF PollSchedule, PollTimer
<1>5. CASE RunBegin \/ HandleTimer \/ HandleNop \/ HandleIoUndefined \/ PollDrained \/ PollFails
  BY <1>0, <1>5 DEF RunBegin, HandleTimer, HandleNop, HandleIoUndefined, PollDrained, PollFails,
     PollReturnsFalse
<1>6. CASE \E ready \in SUBSET {Fd[o] : o \in Ops} : Poll(ready)
  BY <1>0, <1>6 DEF Poll, ioVars
<1>7. ASSUME NEW k, NEW o \in Ops, NEW r \in Results, HandleIo(k, o, r) PROVE Answered'
  <2>1. IoOf(o) \in Held
    BY <1>7, PollFacts, Elements DEF HandleIo, PollOk
  <2>2. st[o] \in OpState /\ ~st[o].cancelled
    BY <2>1, HeldPending DEF Answered, Completed
  <2>3. ~Result(st[o], r).cancelled
    BY <2>2, CancelledFacts
  <2> QED BY <1>7, <2>3, AnsweredMove DEF HandleIo
<1>8. CASE HandleCancel
  <2>1. ops # <<>> /\ Last(ops).kind = "cancel"
    BY <1>8 DEF HandleCancel, TopIs
  <2>2. Last(ops) \in ToSet(ops)
    BY <2>1, PollFacts, PopFacts DEF PollOk
  <2>3. PICK o \in Ops : o = Last(ops).of /\ Last(ops) = CancelOf(o)
    BY <2>1, <2>2, PollFacts, EntryFacts
  <2>4. CancelOf(o) \in Held /\ IoOf(o) \notin ToSet(timers)
    BY <2>2, <2>3, PollFacts, EntryFacts
  <2>5. (\E i \in 1..Len(ops) : ops[i] = IoOf(o)) <=> IoOf(o) \in Held
    <3>1. ops \in Seq(PollEntry)
      BY PollFacts DEF PollOk
    <3> QED BY <2>4, <3>1, Elements, PollFacts
  <2>6. /\ st[o] \in OpState /\ st[o].outcome = <<>>
        /\ st[o].outstanding = IF IoOf(o) \in Held THEN 2 ELSE 1
    <3>1. OpOk(st[o], o, Held, Heard)
      BY DEF IInv, OpsOk
    <3> QED BY <2>4, <3>1, HeldPending DEF OpOk
  <2>7. PICK x : x = IF IoOf(o) \in Held THEN Result(CancelResult(st[o]), "ECANCELED")
                     ELSE CancelResult(st[o])
    OBVIOUS
  <2>8. st' = [st EXCEPT ![o] = x]
    BY <1>8, <2>3, <2>5, <2>7 DEF HandleCancel
  <2>9. x.outcome # <<>>
    BY <2>6, <2>7, BothAnswered
  <2> QED BY <2>8, <2>9, AnsweredMove
<1> QED BY <1>1, <1>2, <1>3, <1>4, <1>5, <1>6, <1>7, <1>8 DEF PollUser, PollRun

\* With ring_context a pending operation whose cancellation was reported was
\* given to the kernel after it, or has a result.
EarlyOf(o) ==
    Pending(o) /\ (CancelOf(o) \in CqEntries \/ st[o].cancelled) =>
        o \in missed \/ IoOf(o) \notin Unsubmitted \cup kernel
Early == d_context = "ring" => \A o \in Ops : EarlyOf(o)

\* A step that submits nothing and reports no cancellation of the operation.
LEMMA EarlyFrame ==
    ASSUME NEW o \in Ops, EarlyOf(o), Pending(o)' => Pending(o),
           CancelOf(o) \in CqEntries' \/ st'[o].cancelled => CancelOf(o) \in CqEntries \/ st[o].cancelled,
           o \in missed => o \in missed',
           IoOf(o) \in Unsubmitted' \cup kernel' => IoOf(o) \in Unsubmitted \cup kernel
    PROVE  EarlyOf(o)'
BY DEF EarlyOf

\* A thread submits something else than before.
LEMMA TodoChange ==
    ASSUME RingTypes, sq' = sq, NEW a \in Threads, NEW c, todo' = [todo EXCEPT ![a] = c]
    PROVE  \A e : e \in Unsubmitted' => e \in Unsubmitted \/ e \in ToSet(c)
<1>1. \A b \in Threads : todo'[b] = IF b = a THEN c ELSE todo[b]
  BY DEF RingTypes
<1>2. SqEntries' = SqEntries
  BY DEF SqEntries
<1>3. \A e : e \in Unsubmitted' => e \in SqEntries' \/ \E b \in Threads : e \in ToSet(todo'[b])
  BY DEF Unsubmitted
<1>4. \A e : e \in SqEntries \/ (\E b \in Threads : e \in ToSet(todo[b])) => e \in Unsubmitted
  BY DEF Unsubmitted
<1> QED BY <1>1, <1>2, <1>3, <1>4

\* A thread has done with the entry.
LEMMA LessToSubmit ==
    ASSUME IInv, d_context = "ring", UNCHANGED <<d_context, pollVars>>, NEW a \in Threads, Unlock(a),
           \A e : e \in SqEntries' => e \in SqEntries
    PROVE  \A e : e \in Unsubmitted' => e \in Unsubmitted
<1>1. RingTypes /\ Submitting
  BY RingFacts DEF RingOk
<1>2. todo' = [todo EXCEPT ![a] = Tail(@)] /\ todo[a] # <<>>
  BY <1>1, ThreadFacts DEF Unlock, Submitting
<1>3. \A b \in Threads : todo'[b] = IF b = a THEN Tail(todo[a]) ELSE todo[b]
  BY <1>1, <1>2 DEF RingTypes
<1>4. \A e : e \in ToSet(Tail(todo[a])) => e \in ToSet(todo[a])
  BY <1>1, <1>2, SubmitsFacts DEF Submitting
<1>5. \A e : e \in Unsubmitted' => e \in SqEntries' \/ \E b \in Threads : e \in ToSet(todo'[b])
  BY DEF Unsubmitted
<1>6. \A e : e \in SqEntries \/ (\E b \in Threads : e \in ToSet(todo[b])) => e \in Unsubmitted
  BY DEF Unsubmitted
<1> QED BY <1>3, <1>4, <1>5, <1>6

\* The user and the stop callbacks.
LEMMA EarlyUser ==
    ASSUME IInv, Early, d_context = "ring", UNCHANGED <<d_context, pollVars>>, NEW u \in Ops,
           RingStart(u) \/ CancelCounts(u) \/ RingDestroy(u)
    PROVE  Early'
<1> SUFFICES ASSUME NEW o \in Ops PROVE EarlyOf(o)'
  BY DEF Early
<1>1. EarlyOf(o) /\ st \in [Ops -> OpState] /\ RingTypes
  BY RingFacts DEF Early, IInv, IoTypes, RingOk
<1>2. CqEntries' = CqEntries /\ kernel' = kernel /\ sq' = sq
  BY DEF RingStart, CancelCounts, RingDestroy, CqEntries
<1>3. CASE RingStart(u)
  <2>1. PICK s, c : /\ st' = [st EXCEPT ![u] = s] /\ todo' = [todo EXCEPT ![Context] = c]
                    /\ s \in {Engaged(st[u]), Counted(Engaged(st[u]))}
                    /\ c \in {<<IoOf(u)>>, <<CancelOf(u), IoOf(u)>>}
    BY <1>3 DEF RingStart
  <2>2. CASE o = u
    <3>1. ~st[o].engaged /\ OpOk(st[o], o, Held, Heard)
      BY <1>3, <2>2 DEF RingStart, IInv, OpsOk
    <3>2. CancelOf(o) \notin CqEntries /\ ~st[o].cancelled
      BY <3>1, RingFacts DEF OpOk, Fresh
    <3>3. ~s.cancelled
      <4>1. /\ Engaged(st[o]).cancelled = st[o].cancelled
            /\ Counted(Engaged(st[o])).cancelled = Engaged(st[o]).cancelled
        BY <3>1, StartedFacts, CancelledFacts
      <4> QED BY <2>1, <2>2, <3>2, <4>1
    <3> QED BY <1>1, <1>2, <2>1, <2>2, <3>2, <3>3 DEF EarlyOf
  <2>3. CASE o # u
    <3>1. st'[o] = st[o] /\ missed' = missed
      BY <1>1, <1>3, <2>1, <2>3 DEF RingStart
    <3>2. \A e : e \in ToSet(c) => e.of = u
      <4>1. CASE c = <<IoOf(u)>>
        BY <4>1, EntryFacts DEF ToSet
      <4>2. CASE c = <<CancelOf(u), IoOf(u)>>
        <5>1. Len(c) = 2 /\ c[1] = CancelOf(u) /\ c[2] = IoOf(u) /\ c \in Seq({CancelOf(u), IoOf(u)})
          BY <4>2
        <5>2. \A e : e \in ToSet(c) <=> \E i \in 1..2 : c[i] = e
          BY <5>1, Elements
        <5> QED BY <5>1, <5>2, EntryFacts
      <4> QED BY <2>1, <4>1, <4>2
    <3>3. IoOf(o) \in Unsubmitted' => IoOf(o) \in Unsubmitted
      <4>1. IoOf(o) \notin ToSet(c)
        BY <2>3, <3>2, EntryFacts
      <4> QED BY <1>1, <1>2, <2>1, <4>1, TodoChange, ThreadFacts
    <3> QED BY <1>1, <1>2, <3>1, <3>3, EarlyFrame DEF Pending, Completed
  <2> QED BY <2>2, <2>3
<1>4. CASE CancelCounts(u)
  <2>1. /\ st' = [st EXCEPT ![u] = Counted(st[u])] /\ missed' = missed
        /\ todo' = IF Cancels(Counted(st[u])) THEN [todo EXCEPT ![u] = <<CancelOf(u)>>] ELSE todo
    BY <1>4 DEF CancelCounts
  <2>2. /\ st'[o].cancelled = st[o].cancelled /\ st'[o].outcome = st[o].outcome
        /\ st'[o].engaged <=> st[o].engaged
    BY <1>1, <2>1, CancelledFacts, StaysEngaged
  <2>3. IoOf(o) \in Unsubmitted' => IoOf(o) \in Unsubmitted
    <3>1. CASE Cancels(Counted(st[u]))
      <4>1. IoOf(o) \notin ToSet(<<CancelOf(u)>>)
        BY EntryFacts DEF ToSet
      <4> QED BY <1>1, <1>2, <2>1, <3>1, <4>1, TodoChange, ThreadFacts
    <3>2. CASE ~Cancels(Counted(st[u]))
      BY <1>2, <2>1, <3>2 DEF Unsubmitted, SqEntries
    <3> QED BY <3>1, <3>2
  <2> QED BY <1>1, <1>2, <2>1, <2>2, <2>3, EarlyFrame DEF Pending, Completed
<1>5. CASE RingDestroy(u)
  <2>1. st' = [st EXCEPT ![u] = Fresh] /\ missed' = missed \ {u} /\ todo' = todo
    BY <1>5 DEF RingDestroy, Destroy
  <2>2. CASE o = u
    <3>1. ~st'[o].engaged
      BY <1>1, <2>1, <2>2 DEF Fresh
    <3> QED BY <3>1 DEF EarlyOf, Pending
  <2>3. CASE o # u
    <3>1. st'[o] = st[o] /\ (o \in missed => o \in missed')
      BY <1>1, <2>1, <2>3
    <3>2. Unsubmitted' = Unsubmitted
      BY <1>2, <2>1 DEF Unsubmitted, SqEntries
    <3> QED BY <1>1, <1>2, <3>1, <3>2, EarlyFrame DEF Pending, Completed
  <2> QED BY <2>2, <2>3
<1> QED BY <1>3, <1>4, <1>5

\* submit(): the kernel takes the cancellation before the operation and misses
\* it, or after it, and then it reports both.
LEMMA EarlySubmit ==
    ASSUME IInv, Early, d_context = "ring", UNCHANGED <<d_context, pollVars>>, NEW a \in Threads,
           Fill(a) \/ Enter(a) \/ EnterFails(a)
    PROVE  Early'
<1> SUFFICES ASSUME NEW o \in Ops PROVE EarlyOf(o)'
  BY DEF Early
<1>1. EarlyOf(o) /\ RingTypes /\ Submitting /\ OnePlace /\ Canceled
  BY RingFacts DEF Early, RingOk
<1>2. st' = st
  BY DEF Fill, Enter, EnterFails, Unlock, ioVars
<1>3. Pending(o)' <=> Pending(o)
  BY <1>2 DEF Pending, Completed
<1>4. CASE Fill(a)
  <2>1. /\ UNCHANGED <<cq, kernel, todo, missed>> /\ todo[a] # <<>>
        /\ sq' = Put(sq, Head(todo[a]))
    BY <1>4 DEF Fill
  <2>2. CqEntries' = CqEntries
    BY <2>1 DEF CqEntries
  <2>3. Head(todo[a]) \in ToSet(todo[a])
    BY <1>1, <2>1, SubmitsFacts DEF Submitting
  <2>4. \A i \in Slots : sq'.slot[i] \in {sq.slot[i], Head(todo[a])}
    BY <1>1, <2>1 DEF Put, RingTypes, Ring
  <2>5. \A e : e \in SqEntries' => e \in SqEntries \/ e = Head(todo[a])
    BY <2>4 DEF SqEntries, Slots
  <2>6. \A e : e \in Unsubmitted' => e \in Unsubmitted
    BY <2>1, <2>3, <2>5 DEF Unsubmitted
  <2> QED BY <1>1, <1>2, <1>3, <2>1, <2>2, <2>6, EarlyFrame
<1>5. CASE EnterFails(a)
  <2>1. UNCHANGED <<sq, cq, kernel, missed>> /\ Unlock(a)
    BY <1>5 DEF EnterFails
  <2>2. CqEntries' = CqEntries /\ SqEntries' = SqEntries
    BY <2>1 DEF CqEntries, SqEntries
  <2>3. \A e : e \in Unsubmitted' => e \in Unsubmitted
    BY <2>1, <2>2, LessToSubmit
  <2> QED BY <1>1, <1>2, <1>3, <2>1, <2>2, <2>3, EarlyFrame
<1>6. CASE Enter(a)
  <2>1. PICK e : e = First(sq)
    OBVIOUS
  <2>2. e \in RingEntry /\ e \in SqEntries /\ SqEntries' = SqEntries \ {e}
    BY <1>6, <2>1, EnterFacts
  <2>3. \A x : x \in Unsubmitted' => x \in Unsubmitted
    <3>1. Unlock(a)
      BY <1>6 DEF Enter
    <3> QED BY <2>2, <3>1, LessToSubmit
  <2>4. CASE e.kind # "cancel"
    <3>1. kernel' = kernel \cup {e} /\ UNCHANGED <<cq, missed>>
      BY <1>6, <2>1, <2>4 DEF Enter
    <3>2. CqEntries' = CqEntries /\ e \in Unsubmitted
      BY <2>2, <3>1 DEF CqEntries, Unsubmitted
    <3> QED BY <1>1, <1>2, <1>3, <2>3, <3>1, <3>2, EarlyFrame
  <2>5. CASE e.kind = "cancel"
    <3>1. PICK u \in Ops : u = e.of /\ e = CancelOf(u)
      BY <2>2, <2>5, EntryFacts
    <3>2. CancelOf(o) \in CqEntries' => CancelOf(o) \in CqEntries \/ o = u
      <4>1. \A x : x \in CqEntries' => x \in kernel \/ x \in CqEntries \/ x = e
        <5>1. /\ cq \in Seq(Completion) /\ Unique(cq)
              /\ kernel \subseteq RingEntry /\ IsFiniteSet(kernel) /\ \A x \in kernel : x.kind # "cancel"
              /\ \A x \in kernel : x \notin CqEntries
          BY <1>1 DEF RingTypes, OnePlace
        <5>2. e \notin kernel /\ e \notin CqEntries
          BY <1>1, <2>2 DEF OnePlace
        <5>3. IF e.kind # "cancel"
              THEN kernel' = kernel \cup {e} /\ UNCHANGED cq
              ELSE IF IoOf(e.of) \notin kernel
              THEN cq' = Append(cq, Done(e, "ignored")) /\ UNCHANGED kernel
              ELSE /\ kernel' = kernel \ {IoOf(e.of)}
                   /\ \E r \in Results \cup {"ECANCELED"} :
                        LET x == Done(IoOf(e.of), r)  y == Done(e, "ignored")
                        IN  cq' \in {cq \o <<x, y>>, cq \o <<y, x>>}
          BY <1>6, <2>1 DEF Enter
        <5>4. \A x : x \in kernel' \/ x \in CqEntries' <=> x \in kernel \/ x \in CqEntries \/ x = e
          BY <1>1, <1>2, <2>2, <5>1, <5>2, <5>3, TakenFacts
        <5> QED BY <5>4
      <4>2. CancelOf(o) \notin kernel
        BY <1>1, EntryFacts DEF RingTypes
      <4> QED BY <3>1, <4>1, <4>2, EntryFacts
    <3>3. CASE IoOf(u) \notin kernel
      <4>1. kernel' = kernel /\ missed' = IF IoOf(u) \in Unsubmitted THEN missed \cup {u} ELSE missed
        BY <1>6, <2>1, <2>5, <3>1, <3>3 DEF Enter
      <4>2. CASE o = u
        BY <2>3, <3>3, <4>1, <4>2 DEF EarlyOf
      <4>3. CASE o # u
        BY <1>1, <1>2, <1>3, <2>3, <3>2, <4>1, <4>3, EarlyFrame
      <4> QED BY <4>2, <4>3
    <3>4. CASE IoOf(u) \in kernel
      <4>1. kernel' = kernel \ {IoOf(u)} /\ missed' = missed
        BY <1>6, <2>1, <2>5, <3>1, <3>4 DEF Enter
      <4>2. CASE o = u
        <5>1. IoOf(u) \notin Unsubmitted
          BY <1>1, <3>4, UnsubmittedFacts DEF OnePlace
        <5> QED BY <2>3, <4>1, <4>2, <5>1 DEF EarlyOf
      <4>3. CASE o # u
        BY <1>1, <1>2, <1>3, <2>3, <3>2, <4>1, <4>3, EarlyFrame
      <4> QED BY <4>2, <4>3
    <3> QED BY <3>3, <3>4
  <2> QED BY <2>4, <2>5
<1> QED BY <1>4, <1>5, <1>6

\* The other steps of ring_context: results arrive, and are processed.
LEMMA EarlyOther ==
    ASSUME IInv, Early, d_context = "ring", UNCHANGED <<d_context, pollVars>>,
           \/ RingRun \/ RingInterrupted \/ Kernel \/ (RunBegin /\ UNCHANGED ringVars)
           \/ \E o \in Ops : RingStartSpins(o) \/ RingStop(o) \/ CancelDangles(o)
           \/ \E w \in Waits : RingWait(w)
    PROVE  Early'
<1> SUFFICES ASSUME NEW o \in Ops PROVE EarlyOf(o)'
  BY DEF Early
<1>1. EarlyOf(o) /\ RingTypes /\ OnePlace /\ st \in [Ops -> OpState]
  BY RingFacts DEF Early, RingOk, IInv, IoTypes
<1>2. CASE UNCHANGED <<st, sq, cq, kernel, todo, missed>>
  <2>1. CqEntries' = CqEntries /\ Unsubmitted' = Unsubmitted
    BY <1>2 DEF CqEntries, Unsubmitted, SqEntries
  <2> QED BY <1>1, <1>2, <2>1, EarlyFrame DEF Pending, Completed
<1>3. CASE \/ RingDrained \/ RingInterrupted \/ (RunBegin /\ UNCHANGED ringVars)
           \/ \E u \in Ops : RingStartSpins(u) \/ RingStop(u) \/ CancelDangles(u)
  BY <1>2, <1>3 DEF RingDrained, RingInterrupted, RunBegin, RingStartSpins, RingStop, CancelDangles,
     ringVars
<1>4. ASSUME NEW w \in Waits, RingWait(w) PROVE EarlyOf(o)'
  <2>1. /\ UNCHANGED <<st, sq, cq, kernel, missed>>
        /\ todo' = [todo EXCEPT ![Context] = <<TimerOf(w)>>]
    BY <1>4 DEF RingWait
  <2>2. CqEntries' = CqEntries
    BY <2>1 DEF CqEntries
  <2>3. IoOf(o) \notin ToSet(<<TimerOf(w)>>)
    BY EntryFacts DEF ToSet
  <2>4. IoOf(o) \in Unsubmitted' => IoOf(o) \in Unsubmitted
    BY <1>1, <2>1, <2>3, TodoChange, ThreadFacts
  <2> QED BY <1>1, <2>1, <2>2, <2>4, EarlyFrame DEF Pending, Completed
<1>5. CASE Kernel
  <2>1. PICK e \in kernel, r \in Results : KernelCompletes(e, r)
    BY <1>5 DEF Kernel
  <2>2. /\ kernel' = kernel \ {e} /\ cq' = Append(cq, Done(e, r))
        /\ UNCHANGED <<st, sq, todo, missed>>
    BY <2>1 DEF KernelCompletes, ioVars
  <2>3. Unsubmitted' = Unsubmitted
    BY <2>2 DEF Unsubmitted, SqEntries
  <2>4. CancelOf(o) \in CqEntries' => CancelOf(o) \in CqEntries
    <3> SUFFICES ASSUME CancelOf(o) \in CqEntries' PROVE CancelOf(o) \in CqEntries
      OBVIOUS
    <3>1. PICK i \in 1..Len(cq') : CancelOf(o) = [kind |-> cq'[i].kind, of |-> cq'[i].of]
      BY DEF CqEntries
    <3>2. cq'[i].kind = "cancel"
      BY <3>1 DEF CancelOf
    <3>3. Done(e, r).kind # "cancel"
      BY <1>1, <2>1 DEF Done, RingTypes
    <3>4. i \in 1..Len(cq) /\ cq'[i] = cq[i]
      <4>1. cq \in Seq(Completion)
        BY <1>1 DEF RingTypes
      <4>2. PICK x : x = Done(e, r)
        OBVIOUS
      <4> QED BY <2>2, <3>2, <3>3, <4>1, <4>2
    <3> QED BY <3>1, <3>4 DEF CqEntries
  <2> QED BY <1>1, <2>2, <2>3, <2>4, EarlyFrame DEF Pending, Completed
<1>6. CASE ProcessResult
  <2>1. PICK x : x = Head(cq)
    OBVIOUS
  <2>2. /\ x.kind = "io" => st' = [st EXCEPT ![x.of] = Result(st[x.of], x.result)]
        /\ x.kind = "cancel" => st' = [st EXCEPT ![x.of] = CancelResult(st[x.of])]
        /\ x.kind \notin {"io", "cancel"} => st' = st
        /\ cq' = Tail(cq) /\ cq # <<>> /\ UNCHANGED <<sq, kernel, todo, missed>>
    BY <1>6, <2>1 DEF ProcessResult
  <2>3. Unsubmitted' = Unsubmitted
    BY <2>2 DEF Unsubmitted, SqEntries
  <2>4. /\ \A y : y \in CqEntries' => y \in CqEntries
        /\ x \in Completion /\ EntryOf(x) \in CqEntries
    <3>1. CqEntries = Reported(cq) /\ CqEntries' = Reported(cq')
      BY DEF CqEntries, Reported
    <3>2. cq \in Seq(Completion) /\ Unique(cq)
      BY <1>1 DEF RingTypes, OnePlace
    <3>3. PICK d : d = Tail(cq) /\ d = cq'
      BY <2>2
    <3>4. /\ Reported(d) = Reported(cq) \ {EntryOf(Head(cq))} /\ EntryOf(Head(cq)) \in Reported(cq)
          /\ Head(cq) \in Completion
      BY <2>2, <3>2, <3>3, ReportPop
    <3> QED BY <2>1, <3>1, <3>3, <3>4
  <2>5. CASE x.kind \in {"io", "cancel"} /\ x.of = o
    <3>1. EntryOf(x) \in {IoOf(o), CancelOf(o)} /\ (x.kind = "cancel" => EntryOf(x) = CancelOf(o))
      BY <2>4, <2>5, CompletionFacts
    <3>2. Pending(o)
      <4>1. EntryOf(x) \in Held
        BY <2>4, RingFacts
      <4> QED BY <3>1, <4>1, HeldPending DEF Pending, Completed
    <3>3. CASE x.kind = "cancel"
      BY <1>1, <2>2, <2>3, <2>4, <3>1, <3>2, <3>3, EarlyFrame
    <3>4. CASE x.kind = "io"
      <4>1. st'[o].cancelled = st[o].cancelled
        BY <1>1, <2>2, <2>5, <3>4, CancelledFacts
      <4> QED BY <1>1, <2>2, <2>3, <2>4, <3>2, <4>1, EarlyFrame
    <3> QED BY <2>5, <3>3, <3>4
  <2>6. CASE ~(x.kind \in {"io", "cancel"} /\ x.of = o)
    <3>1. st'[o] = st[o]
      BY <1>1, <2>2, <2>6
    <3> QED BY <1>1, <2>2, <2>3, <2>4, <3>1, EarlyFrame DEF Pending, Completed
  <2> QED BY <2>5, <2>6
<1> QED BY <1>3, <1>4, <1>5, <1>6 DEF RingRun

\* Every step keeps both.
LEMMA EarlyStep ==
    ASSUME IInv, Answered, Early, [Next]_vars
    PROVE  Answered' /\ Early'
<1>1. CASE OnPoll(PollUser) \/ OnPoll(PollRun) \/ OnPoll(PollFails)
  <2>1. d_context = "poll" /\ d_context' = "poll"
    BY <1>1 DEF OnPoll
  <2>2. Answered'
    BY <1>1, AnsweredStep DEF OnPoll
  <2> QED BY <2>1, <2>2 DEF Early
<1>2. CASE \/ OnRing(RingUser) \/ OnRing(RingRun) \/ OnRing(RingInterrupted) \/ OnRing(Kernel)
           \/ \E a \in Threads : OnRing(Submit(a)) \/ OnRing(EnterFails(a))
           \/ \E o \in Ops : OnRing(Callback(o))
  <2>1. d_context = "ring" /\ d_context' = "ring" /\ UNCHANGED <<d_context, pollVars>>
    BY <1>2 DEF OnRing
  <2>2. ASSUME RingUser PROVE Early'
    BY <2>1, <2>2, EarlyUser, EarlyOther DEF RingUser
  <2>3. ASSUME RingRun \/ RingInterrupted \/ Kernel PROVE Early'
    BY <2>1, <2>3, EarlyOther
  <2>4. ASSUME \E a \in Threads : Submit(a) \/ EnterFails(a) PROVE Early'
    BY <2>1, <2>4, EarlySubmit DEF Submit
  <2>5. ASSUME \E o \in Ops : Callback(o) PROVE Early'
    BY <2>1, <2>5, EarlyUser, EarlyOther DEF Callback
  <2>6. Early'
    BY <1>2, <2>2, <2>3, <2>4, <2>5 DEF OnRing
  <2> QED BY <2>1, <2>6 DEF Answered
<1>3. CASE UNCHANGED vars
  <2>1. UNCHANGED <<d_context, st, sq, cq, kernel, todo, missed>>
    BY <1>3 DEF vars, ioVars, ringVars
  <2>2. CqEntries' = CqEntries /\ Unsubmitted' = Unsubmitted
    BY <2>1 DEF CqEntries, Unsubmitted, SqEntries
  <2>3. Answered'
    BY <2>1 DEF Answered, Completed
  <2>4. \A o \in Ops : EarlyOf(o) => EarlyOf(o)'
    BY <2>1, <2>2 DEF EarlyOf, Pending, Completed
  <2> QED BY <2>1, <2>3, <2>4 DEF Early
<1> QED BY <1>1, <1>2, <1>3 DEF Next

\* A stop request for a pending operation is lost in one way only: over io_uring
\* the kernel is given the cancellation before the operation.  Over poll it is
\* never lost, and in every other case over io_uring the cancellation is on its
\* way or the operation has its result.
THEOREM StopLostOnlyEarly == Spec => []LostOnlyWhenEarly
<1>1. Init => Answered /\ Early
  <2>1. Init => \A o \in Ops : st[o] = Fresh
    BY DEF Init, IoInit
  <2> QED BY <2>1 DEF Answered, Early, EarlyOf, Pending, Fresh
<1>2. IInv /\ Answered /\ Early /\ [Next]_vars => Answered' /\ Early'
  BY EarlyStep
<1>3. IInv /\ Answered /\ Early => LostOnlyWhenEarly
  <2> SUFFICES ASSUME IInv, Answered, Early, NEW o \in Ops, o \in stopped, Pending(o)
               PROVE  \/ CancelOnTheWay(o)
                      \/ d_context = "ring" /\ (o \in missed \/ IoOf(o) \notin Unsubmitted \cup kernel)
    BY DEF LostOnlyWhenEarly
  <2>1. OpOk(st[o], o, Held, Heard)
    BY DEF IInv, OpsOk
  <2>2. st[o].engaged /\ st[o].outcome = <<>>
    BY DEF Pending, Completed
  <2>3. callback[o] # "called" => CancelOf(o) \in Held \/ st[o].cancelled
    BY <2>1, <2>2 DEF OpOk, Heard
  <2>4. CASE d_context = "poll"
    <3>1. ~st[o].cancelled
      BY <2>2, <2>4 DEF Answered, Completed
    <3>2. CancelOf(o) \in Held => CancelOf(o) \in ToSet(ops) \/ CancelOf(o) \in ToSet(timers)
      BY <2>4, PollHeld DEF IInv
    <3>3. CancelOf(o) \notin ToSet(timers)
      BY <2>4, Elements, EntryFacts DEF IInv, PollOk
    <3> QED BY <2>3, <3>1, <3>2, <3>3 DEF CancelOnTheWay
  <2>5. CASE d_context = "ring"
    <3>1. EarlyOf(o) /\ RingTypes
      BY <2>5 DEF Early, IInv, RingOk
    <3>2. CancelOf(o) \notin kernel
      BY <3>1, EntryFacts DEF RingTypes
    <3>3. CancelOf(o) \in Held => CancelOf(o) \in Unsubmitted \/ CancelOf(o) \in CqEntries
      <4>1. ToSet(ops) = {} /\ ToSet(timers) = {}
        BY <2>5 DEF IInv, PollInit, ToSet
      <4> QED BY <3>2, <4>1 DEF Held
    <3> QED BY <2>3, <2>5, <3>1, <3>3 DEF CancelOnTheWay, EarlyOf
  <2> QED BY <2>4, <2>5 DEF IInv, IoTypes
<1> QED BY <1>1, <1>2, <1>3, Invariant, PTL DEF Spec

=============================================================================
