# TLA+ models of kuhllib

TLA+ modules, TLC configurations and TLAPS proofs for the asynchronous core of
kuhllib: the stop tokens, the execution and I/O contexts and the sender
algorithms under `src/src/nstd`. Paths below are relative to the repository (`src/`).

## 1. Inventory

kuhllib is a header-heavy C++20 library. Its own logic that keeps state and
runs concurrently is in `src/nstd`; the rest is compile-time machinery,
vendored or historic code.

| Component | State | Operations | Interacts with | What makes it correct |
|---|---|---|---|---|
| `stop_token/in_place_stop_token.hpp` | list head `d_list` (node, `d_marker`, null), links, `d_called`, `d_stop_requested` | `stop`, `insert` (callback ctor), `remove` (callback dtor) | every algorithm that can be cancelled | marker is a lock; callbacks called once, none missed, none called after destruction; nobody waits for ever |
| `stop_token/stop_state.hpp`, `stop_source.cpp`, `stop_callback.hpp` | flag, spin lock `d_busy`, intrusive list | `request_stop`, callback ctor and dtor | as above | a callback runs after a request, and the destructor waits for a running callback |
| `container/intrusive_list.hpp` | the links of head and nodes | insert, erase, pop, move, swap | run loop, stop state, async_scope | the links are a list after every operation |
| `execution/run_loop.*` | phase, list, mutex, condition variable | `push_back`, `run`, `finish`, dtor | `sync_wait`, schedulers | every scheduled operation is run; `run` returns after `finish` |
| `thread/sync_wait.hpp`, `execution/run.hpp` | `done`, result, mutex, condition variable | `set_value/error/stopped`, wait | any sender | the waiter returns exactly the completion; nothing is touched after it returned |
| `execution/when_all.hpp` | outstanding count, error, stop source | child completions, stop callback | stop tokens | one completion, after every child; an error or stop cancels the other children |
| `execution/timeout.hpp` | count of finished parts, stop source | sender and timer completions | stop tokens | the receiver is completed once, by the second; a stopped sender is not used any more |
| `execution/repeat_effect_until.hpp` | flags of the trampoline, inner state | start, next, inner completions | any sender | no two inner operations at a time, one completion |
| `execution/async_scope.*`, `start_detached.hpp`, `task.hpp` | count of nested work, list of waiting states | nest, insert, complete, erase | intrusive list | a state inserted into an empty scope is completed |
| `file/async_io.hpp` | operation, cancel operation, outstanding count | start, result, cancel | contexts, stop tokens | one completion after both the operation and its cancellation are done |
| `file/poll_context.cpp` | one list of operations, timers, poll set with an iterator | submit, `run_one`, cancel | async_io | nothing submitted is lost, a stop is heard, `run` returns drained |
| `file/ring_context.*`, `file/ring.hpp` | submission and completion rings, outstanding count | submit, `run_one`, cancel | async_io | as above; rings do not overflow |
| `net/scope.*`, `net/io_context.cpp`, `timer/async_wait.hpp` | context, stop source | start, stop, run | contexts | a job is destroyed when nobody refers to it any more |
| `kuhl/test`, `toy`, `type_traits`, `concepts`, `algorithm`, `cursor`, `projection`, `cxxrt-source`, `old-boost`, examples | | | | not modelled (see section 7) |

The behaviours that are hard to test are the interleavings of threads that
stop, register and destroy callbacks; completions that arrive inside `start()`,
inside a stop callback or on another thread; operation states that are destroyed
by the completion they report; notifications that are lost or come late;
and cancellations that race the result of what they cancel.
`PROJECT.json` lists them, at the line where they bite, under `hazards`.

## 2. Modules

| Module | Models | State and actions |
|---|---|---|
| `StopSource` | the promise of a stop source, without threads | `requested`, `over`, `phase[c]`; `Request`, `Register`, `Invoke`, `InvokeEarly`, `Drop`, `Complete`; the constant `Twice` says whether a late registration may be invoked twice |
| `Operation` | the promise of an operation state to its receiver, without queues, rings or threads | `phase[o]`, `asked`; `Start`, `Complete`, `Ask`, `Renew` |
| `InPlaceStop` | `in_place_stop_source`, `in_place_stop_callback` | `d_list`, `d_next`, `d_called`, `d_stop_requested` as in the code; each atomic access of `stop()`, `insert()`, `remove()` is an action; the labels of `pc` name the statement a thread is at |
| `StopState` | `stop_state`, `stop_source::request_stop`, `stop_callback` | `d_list` as a sequence, `d_busy`, `d_stop_requested`; one action per stretch between two accesses another thread can see |
| `RunLoop` | `run_loop`, its operation states and scheduler | `d_list`, `d_phase`; a critical section of `d_guard` is one action, waiting and the notification are separate |
| `SyncWait` | `sync_wait` and its receiver | `done`, `res`, `ex` of the frame of a call; the completion functions, `complete()` in its two parts, the wait |
| `WhenAll` | the operation state of `when_all` and the receivers of its children | `d_kind`, `d_count`, `d_error`, `d_result`, `StopSource` as `d_stop_source`, and the marker of `in_place_stop_source` with those who spin on it |
| `RepeatEffectUntil` | the operation state of `repeat_effect_until` and the receiver of the inner operation | `d_running`, `d_ready`, the inner operation, a stack of frames for each thread; each access to the two bools is an action |
| `IntrusiveLinks` | the pointer operations of `intrusive_list` | functions from links to links |
| `IntrusiveList` | lists and nodes in use | `link`, and the sequence `content[h]` each list should hold; one action per member function |
| `AsyncScope` | `async_scope` on top of `IntrusiveLinks` | `d_outstanding`, the links of `d_on_empty` and of the local list of each `complete()`; what is done under `d_mutex` is one action, each turn of the loop is another |
| `Timeout` | the operation state of `timeout` and its receivers | `d_done`, `d_source` with at most one callback and its marker; each access to the count or the source is an action; `late` records accesses after the destruction |
| `AsyncIo` | the operation state of `async_io` | `st[o]` holds its members; `do_result()` of the operation and of its cancellation are functions of it, used by both contexts |
| `PollContext` | `poll_context` | `d_outstanding` and `d_timers` as sequences, the polled descriptors from `d_next_poll` on, and whether that iterator is valid; one action per handler |
| `RingContext` | `ring_context` and `ring` | submission ring with head, tail and slots, completion ring, `d_outstanding`, the holder of `d_mutex`; `submit()` is two actions; the call of a stop callback (`RingStop`) and its first statement (`CancelCounts`) are two, the operation may be destroyed in between; the kernel is external |
| `IoContext` | `io_context`: `AsyncIo` on either context | `d_context` says which; `Next` takes the actions of that context |
| `MC...` | | instances for TLC and symmetry sets |
| `InPlaceStop_proofs`, `StopState_proofs`, `RunLoop_proofs`, `Execution_proofs`, `WhenAll_proofs`, `RepeatEffectUntil_proofs`, `IntrusiveList_proofs`, `IoContext_proofs` | | theorems and proofs |

`StopSource` is what the users of a stop source rely on. `InPlaceStop` is shown to
implement it without `Twice`: one call per registration at most. `StopState`
implements it with `Twice` only: a callback that is registered while the request
is processed is called by `insert()` and, being linked, by `call()` (both are
called `KeepsPromise`). The promise is one of safety. `WhenAll` takes the actions
of `StopSource` as the stop source between its children and adds what the
promise does not say about `in_place_stop_source`: `stop()` and `remove()` put a
marker into the list while they work on it, `remove()` waits for that of another,
but `stop()` and `insert()` spin on it for ever (`inplace_calls`). `Operation` is what a
receiver relies on: one completion for each start, and `set_stopped()` only when
a stop was asked for. `RunLoop` and `IoContext` implement it (their
`KeepsPromise`); this is proved for all parameters (section 6), so no run
repeats it. `PollContext` and
`RingContext` extend `AsyncIo` and call its functions from their handlers, and
`IoContext` composes all three, so that the properties of an operation are
stated once and hold on both contexts. `AsyncScope` works on the same
`IntrusiveLinks` as `IntrusiveList`.

A definition that starts with the comment *Fault* is not part of a
specification. It is a variant of the definition after it with a plausible
mistake, and the property it breaks is listed under `mutants` in `PROJECT.json`.

What the models leave out:

* `InPlaceStop` and `StopState`: the body of a callback may return or, in
  `InPlaceStop`, destroy its own callback. It does not register or destroy other
  callbacks of the same source: it would wait for a lock its own thread holds.
* Memory order: the code uses sequentially consistent atomics and mutexes, so
  the models interleave atomic steps.
* `StopState` and `RunLoop` use a sequence for the intrusive list. Erasing an
  element that was popped before does nothing there; in the code such an element
  is linked to itself.
* `RunLoop`: the client destroys the loop when no thread is in `run()` or
  `finish()`. `phase::running` is never set by the code and does not occur.
* `SyncWait`: `notify_one()` on a frame that is gone has no effect in the model.
* `WhenAll`: values and errors are represented by the child they come from. A
  completion inside a stop callback is the interleaving in which the thread that
  calls `stop()` does nothing else until the child is done.
* `RepeatEffectUntil`: the plain bools are read and written in some order, like
  atomics. An exception out of `start()` of an inner operation is left out: it
  leaves a `noexcept` function and ends the program.
* `IntrusiveList`: a list that was moved from is not used again, and only an
  empty list is assigned to. The code leaves the links of a moved-from list as
  they were, and the nodes of a list that is assigned to pointing into it.
* `AsyncScope`: `upon_empty()` cannot be connected (it names a type that does
  not exist), so the model calls `insert()` and `erase()` as that sender would.
  Nothing counts `d_outstanding` down; a state that waits is never completed.
* `Timeout`: the list of the source is one callback. As in `InPlaceStop`, a
  registration that meets the marker of `stop()`, and a `stop()` that meets that
  of `remove()`, spin for ever.
* `PollContext` is used by one thread: it has no lock. The self-pipe is left
  out, it only makes `poll(2)` return. Time is left out: a timer expires when it
  likes, the earliest first. Whether `accept(2)` blocks the loop, when two
  accepts share one acceptor and one connection arrives, depends on the
  descriptor. The entry whose events match no operation, on which the loop would
  spin, is the one for which `poll(2)` reports an error condition only.
* `RingContext`: the completion ring has room for every result, as the kernel
  guarantees; the kernel looks for the operation of a cancellation when it takes
  the cancellation; `RingAssumption` lets fewer calls fail than there are slots,
  because `submit()` never looks whether the ring is full. When the `stop()` that
  called the callbacks returns is not represented: a `start()` that finds the
  stop requested may run the callback itself (`RingStart`) or meet the marker and
  spin (`RingStartSpins`). A `stop()` that meets the marker of a callback's
  destructor spins and calls no callback; for the operations that is as if no
  stop was requested, and `stopped` does not count it.

## 3. Runs

| Run | Instance | Shows |
|---|---|---|
| `inplace` | 2 threads, 3 callbacks | the marker excludes and is released, the links stay a list of the registered callbacks, nothing is called twice or missed, a closed list stays closed, `InPlaceStop` implements `StopSource` |
| `inplace_destroyed` | violation | `remove()` returns while `stop()` is about to run, or runs, the callback |
| `inplace_calls` | violation | `stop()` or `insert()` that once read the marker never reads the list again |
| `stopstate` | 3 threads, 2 callbacks, each location used twice | `d_busy` excludes, the destructor waits for a running callback, how often a callback is called; `StopState` implements `StopSource` with `Twice`; every operation returns |
| `runloop` | 2 runners, 2 operations started twice, `finish()` twice | each start is executed once at most, `run()` returns with nothing left from before `finish()`; `finish()` gets queued operations completed and `run()` to return |
| `syncwait` | 2 calls | the call returns the completion, after the last write of the receiver; no lost notification |
| `whenall` | 3 children | one honest completion by the last child; the first failure decides; a failure or a stop from downstream ends the whole unless the stop source spins |
| `repeat` | 3 threads, 4 rounds | only completed inner operations are destroyed, the stack does not grow, a completed receiver is left alone; the operation completes its receiver as long as one thread does it all |
| `list` | 4 nodes, 3 lists, symmetry | each list is a ring through its head and exactly its nodes; a node in no list points to itself |
| `asyncscope` | violation: 2 threads, 2 states | two threads that insert into an empty scope: one `complete()` never ends |
| `timeout` | 2 threads, one sender | completed once, by the second of timer and stopped sender; a listening sender is timed out; only the `stop()` of `timer_done()` can be late |
| `io` | both contexts; 2 operations on one descriptor, a timer, 2 slots, counters modulo 4, 1 failing call | completed once and after everything but a stop callback that is yet to be entered, nothing lost, honest outcome, the ring's accounts, `run()` returns drained, in which case a stop is lost, and that it is heard otherwise |

The three violations are disagreements with text in the repository and are
described under `findings`: a comment in `in_place_stop_token.hpp` says what the
marker is for, and the code does not achieve it; a test expects that `stop()`
gets the callbacks called, and a `stop()` that overlaps a `remove()` spins for
ever; a test is named after the promise that `upon_empty()` completes on an empty
`async_scope`, and with two threads `complete()` may spin for ever because
`swap()` of two empty lists links their heads to each other.

Some passing properties record behaviour a reader may not expect, without a text
in the repository to contradict it:

* `StopState.CallCount`: a callback registered after the stop was requested and
  before `call()` has the lock is called twice, by `insert()` and by `call()`.
  `KeepsPromise` of `StopState` is therefore the weaker promise.
* `RunLoop.FinishDrains` needs `finish()`: `push_back()` notifies nobody, so an
  operation started while all runners wait is executed after `finish()` only.
  `FinishEndsRun` promises that one runner returns; with several, `notify_one()`
  may leave the others waiting.
* `SyncWait.ReturnsCompletion`: `set_value()` without arguments empties the
  result, like `set_stopped()`.
* `WhenAll.LastChildCompletes`: after the state is destroyed no child and no
  receiver uses it, but a `stop()` called by `on_stop` may still be running.
* `WhenAll.FailureEndsAll` holds but for a child that is started, or ends,
  while `stop()` is called: `insert()` that meets the marker of `stop()` or
  `remove()`, and `stop()` that meets that of `remove()`, never return, and the
  receiver is never completed. It is the spin of the run `inplace_calls`.
* `RepeatEffectUntil.RepeatsUntilDone` holds on one thread. On two, a completion
  that sees `d_running` set and sets `d_ready` after the loop has read it is
  lost; the comment on the lock says that the bool is no mutex.
* `RepeatEffectUntil.BoundedNesting`: the loop removes the recursion `TODO.md`
  (line 14) is afraid of.
* `RepeatEffectUntil.QuietAfterCompletion`: after the receiver was completed the
  loop still reads `d_ready` and resets `d_running`, nothing else. A receiver
  that destroys the state in its completion is not safe from these two.
* `Timeout.OnlyTimerStopIsLate`: `timer_done()` calls `stop()` after it counted
  itself. A sender that completes as stopped in that moment, or inside that
  `stop()`, completes the receiver, and a receiver that destroys the state (as
  `net::scope` does) leaves `stop()` with a destroyed source. A sender that ends
  with a value or an error never completes the receiver (`CompletedByTheSecond`).
* `IoContext.LastReference`: `stop()` marks a callback as called and then enters
  it, and the destructor of one that is marked returns at once. On the ring an
  operation may complete by itself in between and its state be destroyed, as
  `net::scope` does; the callback then counts in freed memory
  (`async_io.hpp:88`, `CancelDangles`), the case of the run `inplace_destroyed`.
  An operation that completed as stopped leaves no such callback behind, and no
  context and no submission ever refers to a completed operation.
* `IoContext.LostOnlyWhenEarly`: the callback is engaged before the operation is
  submitted (`async_io.hpp:190`). On the ring a stop that is requested already,
  that comes in between, or that finds the operation left behind by a failed
  `io_uring_enter()`, submits a cancellation that finds nothing: the stop is lost
  and the operation waits for its peer. A stop that reaches the callback, whose
  `stop()` does not spin, is lost in no other way.
* `IoContext.UndefinedOnlyWhenRunAgain`: on `poll_context`, after `poll()` returned false a second
  `run()` or `run_one()` reads `d_poll` through an iterator that is not one.
* `IoContext.ReturnsDrained`: on the ring `run()` may return while a stop
  callback on another thread has counted its cancellation and not yet submitted
  it; the operation is then completed by the next `run()` only. An interrupted
  wait, or `poll(2)` failing with anything but `EINVAL`, ends `run()` with
  operations outstanding.
* `IoContext.RingAccounts`: the result of `io_uring_enter()` is ignored; a call
  that failed leaves an entry behind, and from then on each call submits the one
  before.
* `IoContext.StopIsHeard` starts when the operation is with the context, see
  `LostOnlyWhenEarly` for the time before. It also assumes that user code does not
  overtake the cancellation for ever: `poll_context` takes timers first and what
  was scheduled last before what was scheduled earlier.

## 4. Bounds

Two threads show a race on the list of `in_place_stop_source`, and three
callbacks are needed for a removal in the middle of the list and for a head that
is removed and registered again behind another one; the invariants of this run
are proved for every number of both, as are those of all other passing runs for
their parameters (section 6); `Timeout` has none. The third thread of
`stopstate` and `repeat` is there for the races in which two threads hand
something over while another looks on. `MaxLives` and `MaxStarts` of 2 let the
storage of a callback or operation be used again, which is where a stale element
of a list would show. `MaxFinish` of 2 lets two notifications be outstanding.
Three children of `when_all` are needed for two that fail while a third is still
to be started, or removes its callback (77 000 states). Four rounds of `repeat_effect_until` would nest eight frames if
there were a recursion. Four nodes give a list with inner nodes beside a second
one; three lists let one be moved twice. In `io` the two operations share a
descriptor, so that an event for the one is answered by the other, and their
states are destroyed and used again without bound; a ring of two slots with
counters modulo 4 wraps after two submissions, and one failing call
(`MaxFailures`) shifts the entries by one for the rest of the run. It is the
largest instance, 750 000 states in about three minutes.

Symmetry is used in `list` only, which has no temporal property. Deadlock is
checked for `InPlaceStop`, where some thread can always go on or call another
operation, and for the lists. The other models end when the bounds are reached or
the only operation is complete (`IoContext` also when its behaviour is undefined), and
their runs do not check it; that nobody waits for ever is stated by their
liveness properties.

## 5. Fairness

Weak fairness is assumed of threads that are inside an operation and not
blocked: the operating system schedules them. Spin loops are enabled steps only
when the value they wait for is there (`StopState`) or are real steps that
change nothing (`InPlaceStop`). Nothing is assumed about clients: nobody has to
call `stop()`, `finish()` or a destructor. Callbacks and receivers return.
Spurious wakeups may happen and are never relied on. In `WhenAll` a child that
does not listen to the stop token ends by itself and one that listens ends once
it was asked to; without the latter no property about cancellation could hold.
In `RepeatEffectUntil` a started inner operation completes; the predicate becomes
true after `MaxRounds` rounds at the latest. In `IoContext` the thread in `run()`
and the threads inside `submit()` go on; the peer of an operation need not do
anything, so no operation has to complete unless it is stopped. In `Timeout` the
sender need not complete by itself; in `AsyncScope` a thread inside `complete()`
keeps running, and the violation is a loop that runs for ever.

## 6. Proofs

`InPlaceStop_proofs` proves for any set of threads and callbacks, with TLAPS,

* `TypeCorrect`, `MutualExclusion`, `ListSafety`, `AtMostOnce`, `NoneMissed`:
  the invariants of `inplace`, together with `LinkedNotDestroyed` (a linked
  callback is neither destroyed nor called);
* `StaysClosed`: the action property `ClosedForGood`;
* `Refinement`: `Spec => KeepsPromise`.

They rest on the inductive invariant `IInv`. The run's invariants alone are not
inductive. `Ownership` ties the marker to the one thread between taking and
releasing it; `Search` says what a thread walking the list in `remove()` knows of
the links behind it; `Request` ties the flag to the thread in `stop()`; `Calls`
says for each callback and each thread where the single call of a callback is to
come from. `Invariant` shows one step per action, and under it one per conjunct
the action can disturb.

`WhenAll_proofs` proves for any number of children

* `TypeCorrect` (with it, that `d_count` does not wrap), `HonestOutcome`,
  `CompletedByLast`: the invariants of `whenall`;
* `FirstFailure`: the action property `FirstFailureDecides`;
* `NobodyForgotten`: after a failure or a stop from downstream every child that
  waits for a stop was told or is going to be, unless somebody spins on the
  marker; the safety part of `FailureEndsAll`.

Its `IInv` adds to the types `Counting` (`d_count` is the number of children
that have not finished, and none is left when the receiver is completed),
`Progressing` (how far each child and its completion are), `Deciders` and
`Reason` (which child set `d_kind`, and why). The count is a cardinality; one
lemma says that a set without one of its elements has one element less.
`NobodyForgotten` needs `Told` besides: a listening child is registered until it
is told, a request is being processed until nobody is left to be told, and a
failure leads to a request.

`RunLoop_proofs` proves for any sets of runners and operations and any bounds

* `TypeCorrect`, `OncePerStart`, `Drained`: the invariants of `runloop`;
* `NotificationArrives`: from `finish()` until a `run()` returned the threads in
  `run()` are never all asleep without a notification to come, the safety part
  of `FinishEndsRun` and `FinishDrains`;
* `Refinement`: `Spec => KeepsPromise`, the operations implement `Operation`.

Its `IInv` adds `Queue` (`d_list` holds exactly the queued operations,
each once), `Taken` (an operation taken off belongs to one runner),
`Accounts` (starts and executions of each operation balance), `Ending` and
`Quiet` (what is true after `finish()` and after a `run()` returned). Two lemmas
say which elements a sequence has after `Append` and `Tail`.

`StopState_proofs` proves for any threads, callbacks and number of lives of each

* `TypeCorrect`, `Exclusion`, `DestructorWaits`, `Calls`: the invariants of
  `stopstate`;
* `Refinement`: `Spec => KeepsPromise`, with one step for each action that maps
  to a step of `StopSource` and one for each that stutters. The first of two
  calls maps to `InvokeEarly`, the second to `Invoke`, and `Complete` waits for
  it.

Its `IInv` adds to `BusyExclusion` `Owners` (which callback a thread inside an
operation works on, and that no other thread does), `Listed` (`d_list` holds the
linked callbacks, each once), `Processing` (what is true from the request on,
while `call()` runs and when it is over) and `Counts`, which says of each linked
callback how often it has run so far and how often it is still to run. `CallCount`
alone says nothing about a callback before `call()` is over.

`Execution_proofs` is about two components without a common state, `SyncWait`
and `Timeout`; it extends both, and the definitions of `Timeout` have names of
their own for it (`TimeoutInit`, `TimeoutNext`, `TimeoutSpec`). It proves for
any number of concurrent calls of `sync_wait`

* `TypeCorrect`, `Returns`, `FrameLives`: the invariants of `syncwait`;
* `WakeupIsComing`: a caller that waits although `done` is set is about to be
  notified, the safety part of `SyncWaitReturns`.

Its `IInv` says of each call how far the caller is (`CallerState`), how far the
receiver is (`ReceiverState`), what is stored (`Stored`), and that an inline
completion is over before the caller looks (`InlineFirst`). Of `timeout` it proves

* `SecondCompletes`, `StateLives`: the invariants of `timeout`;
* `ListenerNotMissed`: the `stop()` of `timer_done()` is yet to look at the list
  while the callback of an active sender is registered, the safety part of
  `TimesOut`.

`TimeoutInv` is inductive: `CallerOk` says how far `start()` is, `SenderOk` that
only one thread completes the sender, and `CountOk` what `d_done` has to be for
each of these states, and that whoever made it two is the only one to complete the
receiver. The state is destroyed after a completion only, and then all that is
left of both threads is the `stop()`. `ListenerNotMissed` adds `Listening`:
while the sender is active `d_source` tells how far that `stop()` is.

`RepeatEffectUntil_proofs` proves for any number of threads and rounds

* `TypeCorrect`, `DestroysDone`, `Depth`, `Quiet`: the invariants of `repeat`;
* `CompletedOnce`: no step changes how the receiver was completed;
* `TurnKept`: until the receiver is completed the turn to go on is with the inner
  operation, with a frame that is about to take or leave it, or in `d_ready`;
* `NoteRead`: when one thread does it all a turn left in `d_ready` is read by a
  loop on that thread's stack.

The last two are the safety part of `RepeatsUntilDone`; only `NoteRead` needs the
one thread, and it is what fails on two. Its proof adds `Noticed`: `d_running` is
set only while a loop is on the stack, and that loop has not looked at
`d_ready` for the last time when a note is left.

Its `IInv` adds `Shape` (which frame can be above which on a stack; the bound
of four frames follows from it), `OneLoop` (at most one thread has a loop on its
stack) and `Turn` (how `d_ready`, `inner` and the frame that may complete or
replace it exclude one another).

`IntrusiveList_proofs` proves for any number of nodes and lists

* `TypeCorrect`, `Chains`, `Inert`: the invariants of `list`;
* `ErasedTwice`: `erase()` of a node that was erased before changes nothing.

The invariants together are inductive. The work is in the lemmas about
`Ring(l, h, c)`, "the links `l` are a ring through the head `h` and the nodes
`c`": what each function of `IntrusiveLinks` does to the ring it works on, and
that it leaves the others alone.

`IoContext_proofs` proves for any operations and waits, any size of the ring and
any modulus of its counters that is a larger multiple of the size

* `TypeCorrect`, `NoReference`, `Kept`, `Honest`, `Accounts`, `DefinedAtFirst`:
  the invariants of `io`;
* `Drained`: the action property `ReturnsDrained`;
* `Refinement`: `Spec => KeepsPromise`, on either context the operations
  implement `Operation`, whatever is outstanding, cancelled or left behind in the
  ring;
* `StopLostOnlyEarly`: the invariant `LostOnlyWhenEarly`, the safety part of
  `StopIsHeard`. It adds to `IInv` that `poll_context` answers a cancellation by
  completing the operation (`Answered`) and `Early`: on the ring a pending
  operation whose cancellation was reported was given to the kernel after it,
  or has its result.

Its `IInv` holds `OpsOk`, which relates the members of each operation state to
what a context holds of it and not to the context, so that one lemma for each
handler of `AsyncIo` serves both contexts. Of `poll_context` it says that
`d_outstanding` holds nothing twice and that what is scheduled is behind the
operations with a descriptor (`PollOk`); of `ring_context` that every entry is in
one place (`OnePlace`), that the used slots are those from the head to the tail,
modulo the wrap of the counters (`Window`), who is inside `submit()`
(`Submitting`), that a result `ECANCELED` has its cancellation (`Canceled`), and
that a stop callback that was called and not entered is that of a stopped operation
that was started, or dangles because that is gone (`Callbacks`).
`RingAccounts` counts entries by cardinalities; without `OnePlace` and `Window`
the count would not follow the moves between the rings and the kernel.

The assumptions are the named ones in the modules: in `InPlaceStop` the special
list values are no callbacks (`PointersDiffer`); `NAssumption` (at least one
child); `BoundsAssumption`, `MaxLivesAssumption` and `RoundsAssumption` (the bounds
are numbers); `NoneAssumption` (`None` is no operation); `PlacesDiffer` (nodes,
heads and the null pointer differ); `RingAssumption` (the number of slots divides
the modulus of the counters, as it does for the powers of two of io_uring, and
fewer calls fail than there are slots); `ThreadsDiffer` (the names of the thread in
`run()` and of no thread are no operations).

Only model-checked: the liveness properties `MarkerReleased`, `OperationsReturn`,
`SyncWaitReturns`, `FinishDrains`, `FinishEndsRun`, `FailureEndsAll`,
`RepeatsUntilDone`, `TimesOut` and `StopIsHeard` (fairness and `ENABLED` are
outside the prover's reach), and the findings. Every invariant and every action
property of a passing run is a theorem, as is every refinement. So are the
safety parts of these liveness properties: for the first two that is
`MutualExclusion` and `Exclusion`, by which a lock that is taken has a thread
that is going to release it.

## 7. Not modelled

* Completion signatures, concepts, type traits: computed by the compiler.
* `just`, `then`, `let`, `on` and the like: no state of their own between the
  steps of the senders they are made of.
* `start_detached`: deletes its operation state on completion, as `net::scope`
  does (`Destroy` of `AsyncIo`). `task` is a coroutine type whose control flow the
  compiler generates.
* `net::scope` and `execution::run`: the first is one stop source for all its
  jobs, the second leaves the loop when its sender is done; they add no state to
  `IoContext`.
* Sockets, streams, descriptors: fill in an operation for `async_io`; pure I/O.
* `algorithm`, `cursor`, `projection`, `buffer`, `functional`, `executor`: sequential
  value types and drafts.
* `observer_context`, `mapped_memory`: a forwarder for tests and a wrapper of
  `mmap(2)`.
* `kuhl/test`, `toy`, examples, presentations, `cxxrt-source`, `old-boost`: test
  framework, teaching material, demos and predecessors of the library.

Known weak points that no property is about: `notify_one()` of `run_loop::finish()`
comes after the unlock (`run_loop.cpp:108`); the environment of `sync_wait` names a
`run_loop` that no longer exists (`sync_wait.hpp:60`); an inner operation of
`repeat_effect_until` that throws in its construction is destroyed twice
(`repeat_effect_until.hpp:188`); `nest()` is never counted down
(`async_scope.hpp:177`).

## 8. Plan

What is left is `sync_wait` of a `when_all` whose children are scheduled on a
`run_loop`, as a composition of the three modules.
