# A TLA+ model of the TensorFlow runtime in this repository

The repository holds a full TensorFlow 1.x tree under `src/tensorflow/`. This project specifies
the part of it that executes graphs and lets concurrent threads exchange tensors:
`src/tensorflow/tensorflow/core/`. Paths below are relative to that directory.

The specifications are translated from the C++ code, one action per critical section or callback.
TLC checks them on small instances. For the rendezvous, the cancellation manager, the FIFO queue, the
remote rendezvous and the barrier TLAPS proves the safety properties that the runs check, for every
value of the constants; for the allocator it proves that it implements its abstract specification and
most of what the run checks of its structures.

## 1. Inventory

### The core components

| Component | Code | State | Operations | What is hard |
|---|---|---|---|---|
| Rendezvous | `framework/rendezvous.{h,cc}` | a table of item queues by key, a status | Send, RecvAsync, Recv (blocking, with a timeout), StartAbort, destructor | callbacks run after the unlock, in the thread of the other side; abort swaps the table out; a timeout leaves a waiter behind |
| CancellationManager | `framework/cancellation.{h,cc}` | two flags, a notification, the registered callbacks | StartCancel, RegisterCallback, DeregisterCallback (IsCancelled reads a flag) | the callbacks run between two critical sections; DeregisterCallback waits |
| FIFOQueue on QueueBase | `kernels/fifo_queue.cc`, `kernels/queue_base.{h,cc}` | elements, a closed flag, two queues of attempts | Enqueue(Many), Dequeue(Many), DequeueUpTo, Close, cancellation | any thread works off the attempts of any other; completion, cancellation and closing race; partial batches |
| Executor | `common_runtime/executor.cc` | frames, iterations in a circular buffer, pending and dead counts, outstanding operations | Process, PropagateOutputs, NodeDone, Finish, creation and deletion of frames and iterations | threads propagate values across frames with one lock per frame; iterations and frames are deleted as soon as they are done |
| Barrier on PriorityQueue | `kernels/barrier_ops.cc`, `kernels/priority_queue.cc` | incomplete tuples by key, an index, four flags; the ready queue | InsertMany, TakeMany, Close | two mutexes, and callbacks of the queue that take the other one; a tuple is in neither structure for a while; two kinds of Close |
| BFCAllocator with AllocatorRetry | `common_runtime/bfc_allocator.{h,cc}`, `allocator_retry.{h,cc}` | regions, chunks in a linked list, bins, a free list; waiting threads | AllocateRaw, DeallocateRaw, Extend, split and merge, retry until a deadline | four redundant structures that must agree; a wait outside the allocator's lock |
| Remote rendezvous | `distributed_runtime/base_rendezvous_mgr.{h,cc}`, `rpc/rpc_rendezvous_mgr.cc`, `call_options.cc` | a table by step, reference counts, deferred and active calls | FindOrCreate, Initialize, Send, RecvAsync, RecvLocalAsync, StartAbort, Cleanup | calls of other workers come before, during and after the step; RPCs outlive it; abort races with calls being registered |

How they interact: a step (one `Run` call) has an executor per device, one rendezvous and one
cancellation manager. The executor runs kernels; Send and Recv kernels call the rendezvous, queue
kernels call a queue, which outlives the step and registers its blocked operations with the
cancellation manager of the step. A kernel that fails makes the executor abort the rendezvous and
cancel the manager, whose callbacks call back into the queues. Kernels take their memory from an
allocator. A barrier is a resource like a queue and owns one. On a worker of a cluster the rendezvous
of a step is a remote one, which wraps a local one, is found by the number of the step, and fetches
the tensors of other workers by RPC.

What makes them correct:

* Rendezvous: tensors are delivered in the order of sending, each once; no callback is lost or
  called twice; an abort reaches everyone, for good.
* CancellationManager: `DeregisterCallback` returns true only if the callback never runs and false
  only after it has run, so that the operation may be freed; a cancellation comes to its end.
* FIFOQueue: first in, first out across all operations, also those that are split, restored or
  cancelled; each operation is finished once; nobody sleeps although he could go on.
* Executor: a node runs once per iteration, with its inputs; nothing is deleted while it is in
  use; everything done is deleted; the step ends exactly once, after all nodes.
* Barrier: a tuple is in one place until it is handed out; a take is sorted and complete; every
  callback runs once; a closed barrier lets nobody wait.
* BFCAllocator: blocks in use do not overlap and are large enough; free memory is merged and can be
  found; a request is answered by its deadline, and refused only if there is no memory.
* Remote rendezvous: it lives exactly as long as it is used; an abort reaches every call under way;
  a deferred request is served by Initialize; every operation is answered once.

### The rest

`PROJECT.json` lists the other components and why they are not modelled. Some are planned
(section 7): `PendingCounts`, the other queues, DirectSession, master and worker, accumulators and
staging areas. Others are out of scope: kernels (numerical code without state), graph construction
and XLA (sequential compilers), stream executor, platform and RPC layers (input and output), and the
front ends, contrib and tools (clients). The specified code is the concurrent core, a small part of
the lines of the repository; most of the others are numerical kernels, compilers and bindings.

The hazards in `PROJECT.json`, each at its line, are what the properties are aimed at.

## 2. The modules

| Module | Models | Extends |
|---|---|---|
| `Channels` | what a Rendezvous promises: abstract specification | |
| `Rendezvous` | `LocalRendezvousImpl` and `Rendezvous::Recv` | |
| `RendezvousProofs` | theorems about `Rendezvous`: types, queues, order | `Rendezvous` |
| `RendezvousRefinement` | theorems: every callback runs once, `Rendezvous` implements `Channels` | `RendezvousProofs` |
| `CancellationManager` | the manager: one operator per critical section | |
| `CancellableOps` | operations that use managers as `cancellation.h` recommends | `CancellationManager` |
| `CancellableOpsProofs` | theorems about `CancellableOps` | `CancellableOps` |
| `Subsequences` | the subsequence of the elements that are in a set | |
| `SubsequenceProofs` | lemmas about it, for every sequence | `Subsequences` |
| `FIFOQueue` | `FIFOQueue` on `QueueBase` with the managers of the steps | `CancellationManager`, `Subsequences` |
| `FIFOQueueProofs` | theorems about `FIFOQueue` | `FIFOQueue`, `SubsequenceProofs` |
| `Executor` | `ExecutorState`, `FrameState`, `IterationState` | |
| `PriorityQueue` | an unbounded `PriorityQueue`: one operator per critical section | `Subsequences` |
| `Barrier` | `Barrier` with its ready queue | `PriorityQueue` |
| `BarrierProofs` | theorems about `Barrier` | `Barrier`, `SubsequenceProofs` |
| `Blocks` | what an allocator promises: abstract specification | |
| `BFCAllocator` | `BFCAllocator` and `AllocatorRetry` | `Blocks` |
| `BFCAllocatorProofs` | theorems about `BFCAllocator` | `BFCAllocator`, `SubsequenceProofs` |
| `RemoteRendezvous` | `BaseRendezvousMgr`, `BaseRemoteRendezvous`, `RpcRemoteRendezvous`, and what `Worker` and `GraphMgr` do with them | |
| `RemoteRendezvousProofs` | theorems about `RemoteRendezvous` | `RemoteRendezvous` |
| `MC...` | small instances | the module of that name |

`CancellationManager` and `PriorityQueue` have no `Next` of their own: their operators are conjoined
with the state of the module that uses them, which is how the queue and the manager, and the barrier
and its queue, are composed.

A definition `Op_Variant` next to `Op` is `Op` with a plausible slip (a guard dropped, an index off
by one). It is no part of the specification; replacing `Op` by it must violate the property named
for it under `mutants` in `PROJECT.json`, which shows that the property depends on that code.

### Rendezvous

A tensor is named by the Send call that carries it, a waiter by its RecvAsync call, a status by the
StartAbort call that introduces it; an item of a queue is one of these names and `IsSendValue()`
membership in `SendId`. Each call is a small program: `SendMatch` takes a waiter off the queue
under `mu_`, `SendNotify` calls it afterwards; `RecvMatch`/`RecvDeliver` and
`AbortSwap`/`AbortItem`/`AbortReturn` likewise. `RecvTimeout` is the return of a blocking Recv whose
waiter stays in the table. The destructor (`Delete`) needs the last reference: no call is running.
The visiting order of the aborted table is that of a hash map, so it is any order of the keys.
`sent` and `asked` are history variables: the accepted sends and receives of a key in the order
of the lock. Device contexts, `is_dead` and the arguments are data that pass through and are left out.

### CancellationManager, CancellableOps

`CMStartCancel`, `CMNextCallback`, `CMFinishCancel`, `CMNotify` are the stages of StartCancel;
`CMRegister`, `CMDeregister`, `DeregisterTooLate`, `DeregisterBlocks`, `DeregisterWakes` the outcomes
of the other methods. A call of StartCancel on a manager that is cancelling or cancelled changes
nothing and is left out. An operation of `CancellableOps` is issued (or told that it is too late),
completes under the lock of its object, deregisters, possibly blocking, and tells its owner; the
callback cancels it if it is still open. The code of the operation is the pattern in the comment at
`cancellation.h:71`, which the queues follow.

### FIFOQueue

An operation appends an `Attempt`, then flushes. `FlushUnlocked` keeps `mu_` over a loop with many
attempts; it is one action per attempt (`TryEnqueueAttempt`, `TryDequeueAttempt`, `SkipCancelled`,
`NoAttempt`) with `holder` the owner of the lock, and everything else that needs `mu_` requires
`mu_free`. After the unlock come `CleanUp` (DeregisterCallback, which may block the thread, and the
done callback) one operation at a time. `RunEnqueue` and `RunDequeue` are the run callbacks: what a
single call of them takes, gives back, and returns. Enqueue and Dequeue are batches of one. The
threads are those of the operations, of the Close calls and of the StartCancel calls.

`lost` records the elements that a cancelled `DequeueMany` had collected: the code drops them, and
`FirstInFirstOut` says that these are the only ones missing. The yield of a DequeueUpTo to pending
enqueues (`fifo_queue.cc:291-296`) is modelled and cannot happen with this queue, because a closed
queue has worked its enqueue attempts off before the dequeues are tried.

### Executor

The graph is a constant: nodes with a kind, a frame and out edges. A frame instance is named by the path
of iterations and frame names to it, as `MakeFrameName` does. The state is `outstanding_frames_` (each
frame with its iterations in a circular buffer of slots), the nodes handed to the pool, the nodes on
which a thread is between two critical sections, and the counter of outstanding operations. Every
critical section is an action: `ProcessPlain`, `ProcessNext`, `ProcessDeadExit` need one; an Enter is
`ProcessEnter`, `CreateChild` (unless the frame is there), `EnterChild`, `Leave`; a live Exit is
`ProcessExit`, `Leave`; then `DeleteFrame`, `EraseFrame`, `CleanupFramesIterations` if the frame is
done, and `NodeDone`. What happens under one lock (`ActivateNodes`, `IncrementIteration`,
`CleanupIterations`...) is a chain of operators on a frame and the list of nodes that became ready,
folded over edges, stored values and iterations.

Abstractions: a tensor is reduced to whether it exists. Which branch a Switch takes is decided by a trip
count chosen in the initial state (the loop predicate is true in the first `trip` iterations). The
inline queue of a thread is merged with the pool: any ready node may run next, which allows every order
the code can produce. `Fail` of a dead node models that the local status of `Process` is not reset when
a thread goes on to a dead node after an error (`executor.cc:1571`); the model allows it whenever some
node has failed, whichever thread holds it. `ProcessEnter` looks the child frame up, `CreateChild` looks
again before it inserts it: two Enter nodes may both have missed it. The two checks on `status_` and the
abort of the rendezvous and the manager in `NodeDone` have no effect on the frames and are represented
by `status`.

### PriorityQueue, Barrier

A tuple is named by the InsertMany and the position that began it, its key and its index; of its
components the model keeps which ones are there. `TryInsertMany` is the critical section of `mu_`: the
loop of `InsertOneLocked` over the keys (`InsertAll`), which stops at the first error and leaves what it
has done. The enqueueing of the completed tuples (`EnqueueReady`) comes after the unlock, as in the
code, and so does the dequeue of `TryTakeMany`. `Close` keeps `mu_` (`mu = o`) while `CloseReadyQueue`
and the flush run, since `CloseQueueLocked` calls the queue with the lock held. A flush of the queue is
one action per attempt with `queue_mu` held, then `RunCallback` for each operation it has completed, by
whichever thread flushed; the callback of a successful InsertMany takes `mu_` (`NeedsMu`).

Cancellation is one action of a step's canceller: the attempt is removed and a flush follows. How the
manager and the queue exchange tokens, and the wait in DeregisterCallback, are those of `FIFOQueue`
and are left out. Elements of equal index may leave in any order (the queue is a binary heap).

The properties record, as exceptions they name, what the code does and a caller would not expect:

* `DoneExactlyOnce`: the callback of a Close with `cancel_pending_enqueues` after a plain Close that has
  closed the queue is forgotten (`barrier_ops.cc:416`): neither flag answers it and the queue is closed.
* `OnlyPlainCloseWaitsForItself`: a plain Close whose flush completes the attempt of an InsertMany runs a
  callback that locks `mu_`, which the thread holds (`barrier_ops.cc:185`). A Close that cancels does
  not, because it ends those attempts with an error.
* `TuplesAccountedFor`: tuples are lost when an InsertMany fails after it has completed them, when a
  Close cancels, and when a small batch fails (below).

### BFCAllocator

`AllocateRawInternal` and `DeallocateRawInternal` hold `lock_` throughout, so each is one action; the
state of the allocator is a record that passes through the operators of the functions they call, in
their order, and a CHECK that fails is remembered in it. Sizes are in bytes, with the constants of
the code. What the SubAllocator can provide is an input; it may place a region next to another one,
above or below, and the first one is at `Base`, far enough from 0 for every region to be at a positive
address. The arena is small, so `InitialRegion` stands for the 1 MiB of the code. `Less`, which
multiplies by `0.9f` in the code, computes with integers; at these sizes the results are the same.
`NewAddress` is external: malloc or CUDA, behind the SubAllocators, choose the address.

`AllocatorRetry` is the loop around it: attempt, clock, wait on `memory_returned_`, last attempt. The
deadline is set at the first failure; `DeadlinePasses` is the clock, which may reach it wherever the
request is in the loop, and `Timeout` the end of a wait without a notification, which may come before
the deadline (the time to wait is truncated to milliseconds, and a wakeup may be spurious): the
request then waits again. The two locks are different, so a notification can be missed
(`SleepsOnlyIfMissed` says that this is the only way to sleep next to free memory), and `missed` is a
history variable that records it. The loop in `Extend` that asks for nine tenths of the last amount
rounds up to units of 256 bytes and no longer shrinks at nine units: a thread is then `"spinning"` with
`lock_` held; `EveryRequestAnswered` allows that only for such small amounts (`CaughtBelowNineUnits`).

`Blocks` is the abstract specification: blocks are handed out and returned, never overlap, and carry
ids that are never reused; the refinement maps the chunks in use to blocks.

### RemoteRendezvous

One step on one worker. The manager's table, the rendezvous created for the step (there may be
several in a row, since whoever finds none creates one) and the reference counts are state; the local
rendezvous inside is atomic, with `buffered` and `waiting` for its two kinds of items, which is what
`Rendezvous` and `Channels` justify. Threads are the RecvTensor requests of other workers, the
RunGraph call, the sends and receives of its executor, the cancellations of RPCs and CleanupGraph.
The critical sections are those of the code: `StartAbort` ends the local rendezvous first and the
active calls later; `RegisterCall`, the issue of the RPC and its answer are separate; `cancel_func` is
what `CallOptions` holds while the RPC is under way.

Other workers and the master are the environment: a request may come before RunGraph, during it, and
after CleanupGraph, a cancellation of the step may come before RunGraph has looked the rendezvous up
(and then creates it), the step may end without running when sending the caller's inputs fails
(`SendInputsFails`), an RPC may be slow, fail, or be answered although it was cancelled.

Three behaviours of the code bound what the properties can say. A request that is deferred on a
rendezvous nobody initializes is never answered: `StartAbort` ignores the deferred calls, and a request
after CleanupGraph creates such a rendezvous. An abort between `RegisterCall` and the issue of the
RPC cannot cancel it, and the RPC is issued all the same; only calls that were cancelled are promised
to end. And if CleanupGraph overtakes a running step, `RecvOutputs` finds a new rendezvous that is not
initialized and a CHECK ends the process; `CrashesOnlyIfCleanedUp` says that this happens only if the
rendezvous of the step was taken off the table after the step had found it. The properties exempt
these cases; they do not exclude them.

## 3. The runs

| Run | Instance | Distinct states | Shows |
|---|---|---|---|
| `Rendezvous` | 2 keys, 2 sends, 2 receives (one asynchronous, one blocking with a timeout), 2 aborts, fair | 35,037 | types, queues, order, exactly-once, refinement of `Channels`, every callback that is due runs |
| `CancellableOps` | 2 managers, 3 operations, fair | 12,492 | both answers of DeregisterCallback, no callback on a freed operation, no operation left when StartCancel returns, cancellation ends |
| `Queue` | capacity 1; an EnqueueMany of 3, DequeueMany and DequeueUpTo of 2, enqueues of 2 and 1, a Dequeue, an empty batch, closes of both kinds, cancellations of two steps, in six combinations, fair | 926,077 | order, batches, exactly-once, no lost wakeup, capacity and registration up to a close, every operation finishes |
| `Executor` | three graphs: a loop with counter, accumulator and invariant, 2 parallel iterations; a conditional around a loop with a Merge with control input and a ControlTrigger; a loop in a loop; kernels that may fail, fair | 198,297 | a node fires once and with its inputs, lifetime of iterations and frames, counters, limits, the step ends |
| `BFCAllocator` | 3 threads, requests of 0, 300, 600 and 2400 bytes, a limit of 2600, three amounts of memory, growth or not, fair | 209,738 | lists, bins and free list agree, the memory is tiled, refinement of `Blocks`, requests are answered |
| `Barrier` | 3 InsertMany on 2 keys, 2 TakeMany, both closes, cancellations, in six combinations, fair | 67,340 | tuples are accounted for, takes are sorted, callbacks run once, no lost wakeup, operations finish |
| `Remote` | 2 requests, 2 calls (one local), 2 sends, a cancellation, a cleanup, in four combinations, fair | 116,531 | references, aborts, deferred requests, answers |

Where several parts of the state must agree, the invariant a run checks is a conjunction of named
parts: `CountersAgree` and `DeletedWhenDone` (Executor), `ChunksConsistent` (BFCAllocator: the list of
chunks, the bins, the threads and the CHECKs of the code, together `ChunksAgree`, the free list and the
sums), `TuplesAccountedFor` and
`TakesAreSorted` (Barrier), `ReferencesHeld`, `AbortReachesEveryCall` and `OpsAccountedFor`
(RemoteRendezvous), `FirstInFirstOut` and `WithinCapacityUntilClosed` (FIFOQueue). The type invariant of
these modules is one of the parts.

Runs that show a disagreement between the code and what the repository says of it:

| Run | Property | The code |
|---|---|---|
| `RendezvousTimeout` | `TensorIsReturned`: a consumer receives the tensor as soon as it is available (`rendezvous.h:43`) | a timed-out Recv leaves its waiter queued, which swallows the next tensor |
| `IsCancelled` | `IsCancelledIffCalled`: IsCancelled returns true iff StartCancel has been called (`cancellation.h:56`) | the flag is set when all callbacks have returned (`cancellation.cc:51`); until then a reader such as `FunctionLibraryRuntimeImpl::Run` goes ahead |
| `QueueReentrant` | `NoReentrantDeregister`: a callback invokes no method of its manager (`cancellation.h:108`) | `Cancel` flushes, and the flush deregisters at the manager that is calling: it waits for itself |
| `BarrierClose` | `ClosedTakesFail`: after a Close, takes that would block fail (`ops/data_flow_ops.cc:2079`) | after a Close that found an incomplete tuple the ready queue is never closed: the callback that should do it asks for `queue_closed_`, which is set only by closing (`barrier_ops.cc:187`) |
| `BarrierSmallBatch` | `SmallBatchIsReturned`: a small batch returns as many elements as possible (`priority_queue.cc:304`) | a waiting small batch takes what there is, is run again, finds the queue empty and fails |

Two more disagreements are stated as what does hold. The capacity of a queue is its bound only until a
close makes a DequeueMany give its elements back (`WithinCapacityUntilClosed`, `fifo_queue.cc:281`), and
the enqueues that a Close cancels are the ones finished without being deregistered
(`DeregisteredUnlessClosed`, `queue_base.cc:252`, against `cancellation.h:88`).

Deadlock is not checked (`CHECK_DEADLOCK FALSE`): clients may stop calling, and a queue may block its
clients for ever; what must go on is stated as liveness instead.

### Bounds

Nothing is bounded but the number of calls, the trip count in Executor (`MaxTrip`) and the number of
allocations (`MaxAllocs`, three, one per thread at a time); every other call is made at most once.
`Scripts` in the queue, the barrier and the remote rendezvous are combinations of calls of which one is
chosen in the initial state: all calls together would be too many interleavings, and each combination
is one in which something can meet.

The instances are the smallest in which the interesting cases happen: two receives and two sends on two
keys, so that queues of both kinds, a timeout, two aborts and the destructor meet; a batch that is
larger than the capacity, so that it takes several flushes, and another that stays incomplete; two
iterations in parallel in a buffer of three slots with a third iteration that is deferred and reuses a
slot; an InsertMany that completes one tuple and fails at the next key; one that has completed all
tuples when a plain Close flushes for it, and locks `mu_` twice; three blocks, so that one is freed
between two free or two used neighbours, in one region or in two that touch; memory that is less than
the limit, and less than nine units; a request before Initialize and another after Cleanup.

### Fairness

Weak fairness is assumed of threads that are inside an operation and not blocked: those that have
left a critical section and have a callback to run, that flush, or that are inside StartCancel. The
operating system schedules them, and the callbacks considered return. No client is obliged to send,
receive, enqueue, close or cancel, and no pending operation is obliged to complete by itself. In
Executor a step is taken as long as there is a ready node (kernels return and the pool runs what it
is given); the formula is weak fairness of `Next` with its ENABLED condition written out.

In BFCAllocator a thread goes on, a returned block is announced, and the clock, by an action and a
fairness of its own, reaches every deadline; nobody has to return memory. Fairness is written with its
ENABLED conditions spelled out (`CanStep`, `DeadlineAhead`). A wait may end early any number of times:
that requests are answered rests on the deadline staying where the first failure set it. In Barrier a
thread that has started goes on unless it waits for a mutex; no client has to call. In
RemoteRendezvous threads go on, but no call has to come, and an RPC has to end only if it has been
cancelled: another worker may be slow for ever.

In FIFOQueue, where every call is made once, it is enough that some thread goes on as long as one can
(`Progresses`), which is weaker than fairness of each. With two operations of one step the thread of
StartCancel may wait for itself (run `QueueReentrant`), and what it should call is never called:
`EveryOpFinishes` names this case (`WaitsForItself`) as its exception. It cannot happen in the
combination that cancels two operations of different steps.

## 4. The proofs

The theorems hold for every set of keys, calls, managers, operations and threads, every batch size and
every capacity. The assumptions are on what the names stand for, and TLC evaluates them on every run:

* `CallAssumption` (Rendezvous): the names of sends and receives are disjoint, timed receives are
  blocking, `OK` is no abort, `NoTensor` no tensor;
* `ManagerAssumption` (CancellationManager): every token has one manager;
* `QueueAssumption` (FIFOQueue): an operation is an enqueue, a dequeue or a close, and no manager; the
  capacity is positive, batch sizes are natural numbers (a queue without a limit has the largest one);
* `RemoteAssumption`, `ThreadAssumption` (RemoteRendezvous): the kinds of thread are disjoint, two
  receivers of one step do not ask for the same tensor, and there are finitely many threads, which a
  reference count needs;
* `BarrierAssumption` (Barrier), `ThreadAssumption` (PriorityQueue): a thread is an InsertMany, a
  TakeMany, a Close or a cancellation of one of the first two; an InsertMany has a finite list of keys,
  in which a key may occur more than once, and a component; a TakeMany wants at least one element;
* `AllocatorAssumption` (BFCAllocator): sizes and amounts of memory are natural numbers, the limit and
  the first region are not empty.

The sets may be infinite, except for the threads of RemoteRendezvous.

**CancellableOps.** None of the promises is inductive: that `false` means the callback has returned
depends on where the callback is while StartCancel runs. The invariant `IInv` adds

* `ManagerInv`: a manager is idle, cancelling or cancelled; from the first critical section of
  StartCancel on `callbacks_` is empty, and the local copy and the running callback exist only while
  it is cancelling;
* `HandInv`: what a manager holds are tokens of its own, registered, not deregistered, not yet run;
* `OpInv`: until an operation deregisters, its callback is in its manager's hand or has returned.

Then a deregistration under a manager that is idle removes the token from the only place it can be
in (`DeregisterTrue`), one under a cancelled manager finds the hand empty, so the callback has
returned (`DeregisterFalse`), and an operation that is done is in nobody's hand (`FreedIsSafe`).
`DeregisterAnswers` states the two together. `OwnerToldOnce` follows from the outcome being decided
once. `StartCancelEndsOps` says what the caller of StartCancel may rely on when it returns: the hand of
the manager is empty, every callback it took has returned, and no operation of the step is pending.
(The flag that `IsCancelled` reads says no more than that, and less than its comment: run `IsCancelled`.)

**Rendezvous.** `TypeCorrect` is inductive by itself: the guard of `HasWaiter` makes the item popped by
Send a waiter. `QueueCorrect` needs that an aborted rendezvous has an empty table (`AbortedIsEmpty`).
The argument is on sequences: the queue is the excess of the longer of `sent` and `asked` over the
shorter, an append to the longer extends the excess, an append to the shorter takes its head off
(lemmas `ExcessAppend`, `ExcessTail`). `AbortFinal` follows from the same invariant.
`DeliveryInOrder` relates what is carried outside the lock to positions in the history:
`DeliveryInv` says that a call appears in the history iff it has been accepted and at one place
only (`StartedInv`, `AskedInv`), that a Send that is about to notify, and a RecvAsync that is about
to deliver, carry a pair of equal positions (`CarriedInv`), and that every outcome recorded so far
is such a pair (`CalledInv`). Pairs survive because the histories only grow at the end.

**RendezvousRefinement.** `DoneOnce` says that a callback is in one place: the table, the local table
of an abort, the hands of the Send that popped it, or its own thread. `PlaceInv` names these places for
each state of the receive, and `ApartInv` says that no two of them hold the same waiter: within a table
that no waiter is queued twice (`Apart`), and across the tables of two aborts that they have none in
common, because a table is empty when it has been swapped out (`AbortedInv`). The lemmas `PopBoard`,
`PushBoard` and `EmptyBoard` say what a step does to the waiters of a table. `Refinement` takes the
refinement mapping of `Rendezvous` and shows, action by action, that it is a step of `Channels` or a
stutter. `SentInv`, `HandInv` and `TakenInv` connect the positions in the histories with the calls, so
that a delivery that takes place after the unlock is one of the tensor that `Channels` has next.

**FIFOQueue.** The invariant comes in four layers, each proved with the help of those before it.

1. `BaseInv`: types; what an attempt still wants and what it has collected make up its batch, and only
   the dequeue at the front has collected anything (`AttemptInv`); the lock has the owner that
   flushes, and the lists of a thread are in use only in its stages (`FlushInv`). With `WakeInv`: while
   the flush tries the dequeues and nothing has changed, the enqueue at the front has to wait; when the
   lock is free, both have to wait or somebody is about to flush. This gives `WakeupsAreKept`. For
   `WithinCapacity` the elements that a DequeueMany gives back count: it does so on a closed queue only.
2. `Places`: an operation has one attempt (`AttemptsApart`); its callback is with that attempt unless
   it is cancelled, in one list of one thread at one position, or has run (`PlaceInv`). `DoneOnce`
   states it with cardinalities, as the run does (`CountAttempts`, `CountLists`).
3. `RunsInv`: what a manager holds are its own tokens, of operations that were called, and nothing
   once it cancels (`ManagerInv`); the callbacks in the list of a canceller are those of its own tokens,
   those in the list of a Close are enqueues (`CalledInv`); a batch that was handed over is full
   (`BatchInv`). `DeregisteredUnlessClosed` is inductive relative to these: an operation that is
   finished by a flush deregisters first, one that is finished by its manager has been taken off it.
4. `DataInv`: no element was pushed twice and those of one EnqueueMany are there in order
   (`HistoryInv`), as many as its attempt does not want any more (`ProgressInv`, `AllPushedInv`); what is
   lost had been pushed (`LostInv`); the order (`OrderInv`). A cancelled DequeueMany removes the elements
   it has collected from the middle of the sequence; that the rest is still the history without
   them needs that they occur only once (`TakeOut`). `ElementsInOrder` follows.

What one call of a run callback does (`RunEnqueueFacts`, `RunDequeueFacts`) is proved once and cited by
all layers. The last layer needs facts about subsequences of every length: concatenation, selection
from a selection, membership, distinctness. `SubsequenceProofs` proves them by induction in the form
of a least counterexample (`Least`, from `WFMin` of the library, whose parameter is a set): it first
shows that the recursive function in `Keep` exists (`TableExists`, `TablesAgree`), then a principle for
sets of sequences closed under `Append` (`SequenceInduction`). This is why `Subsequences` defines `Keep`
instead of using `SelectSeq`, which the prover does not unfold.

**RemoteRendezvous.** One invariant, `Inv`, serves all theorems but the balance of references. It says
where a thread is that has found a rendezvous (`PlaceInv`), who waits in the local rendezvous (`WaitInv`),
that the rendezvous the step initialized, and no other, has a session (`SessionInv`), that the step is
over only when its operations are answered (`OverInv`), which calls are active (`ActiveInv`,
`InFlightInv`), and that until the rendezvous of the step is cleaned up all look-ups have the same result
(`CleanInv`). `AbortReachesCalls` rests on `InFlightInv`: an abort changes the status and the calls in
two critical sections, and a call that registers in between finds the status bad. `RefsBalance` is proved
on top: each action changes the holders of a rendezvous by one thread, and its count by one; that
threads in the middle of their work are among the holders gives `ReferencesAreHeld`.
`TypeCorrect` says that a count is a natural number, which is no typing of single steps: it follows from
the balance (`CountsAreNatural`). `CrashOnlyIfCleanedUp` is `CleanInv`.

**Barrier.** Again in layers. `StepCases` first brings `Next` into a list of 24 cases without nesting,
and each part of the invariant is shown to be kept by each of them.

1. `CoreInv`: the types, with what `InsertAll` does to the tuples (`LoopOK`, by induction over the
   keys: of the tuples that were incomplete or are new, each is incomplete or ready, not both); who is in
   the critical section of the flush and who keeps `mu_` (`FlushInv`, `MuInv`); an operation with an attempt
   is past the making of it and has no error yet (`CallInv`, `StatusInv`); who has closed the queue
   (`CloseInv`, `ClosedByInv`). `WakeInv`: when `queue_mu` is free, somebody is about to flush, or there is
   no enqueue and the first TakeMany has to wait; it gives `NoWakeupIsLost`. `CancelCloserInv`: the list of
   a Close that cancels has only InsertMany calls that failed, whose callback does not lock `mu_`; with
   `MuInv` it gives `OnlyPlainCloseLocksTwice`.
2. `DoneInv`: a callback is with its thread, with an attempt, on a list, has run, or is that of a second
   Close which is forgotten; no two of these (`PlaceInv`), and not on two lists or twice on one
   (`ListsApart`). `CallbacksRunOnce` counts them as the run does.
3. `TakeInv`: a TakeMany whose attempt waits has collected nothing, unless it is a small one in the
   middle of the flush that then fails it (`PartialInv`); what was handed over is sorted and complete
   (`GotInv`); the index of an InsertMany that succeeded is below `input_index` (`IndexInv`). This is
   `TakesInOrder`. The tuples taken are sorted because the attempt takes the smallest elements of the
   queue in one step.
4. `WholeInv`: each tuple is in at most one place, `At(e, kind, x)` being place `x` of one of six kinds, and
   in one or lost for a reason (`WhereInv`); for the reason that an InsertMany failed, attempts carry
   only tuples of keys of their call (`KeyInv`). A step leaves the tuples where they are (`KeptWhere`), moves some
   from one place to another (`MovedWhere`), or is the loop over the keys (`InsertWhere`).
   `EveryTupleAccountedFor` follows by counting.

**BFCAllocator.** The operators of the module work on a record `m`, so most lemmas are about records
and not about steps. `MemInv(m, X)` is the invariant of the memory, where `X` holds the free chunks
that an operation has taken out of their bins: between two calls of the code's functions `X` is not
empty, and only then may two free chunks be neighbours. Its parts:

* `ListInv`, `ApartInv`: neighbours know each other and touch, and no two chunks overlap;
* `RegionInv`, `SpaceInv`: a chunk is in one region with its successor, and the first and the last touch
  the ends of the region; regions are apart, at positive addresses, and within the limits;
* `UnusedInv`: the list of the Chunk structures that are not needed never reaches one that is, nor one
  structure in two ways, so that `AllocateChunk` returns one that stands for no memory;
* `BinInv`, `JoinInv`: a free chunk outside `X` is in the bin for its size and in no other, and has no free
  neighbour outside `X`;
* `UseInv`: a block is as large as its request, less than twice the rounded request, and has an id that
  was given out.

There is one lemma for each function of the code, which says what it does to `X` and to the blocks in
use: `RemoveOK`, `InsertOK`, `SplitOK`, `MergeOK`, `UseOK`, `ReleaseOK`, `ExtendOK`; `TakeOK`,
`CoalesceNextOK` and `CoalescePrevOK` put them together in the order of the code, and `AllocOK` and
`FreeOK` are about the two critical sections. The recursive functions (`Log2Floor`, the doubling and the
backpedalling of `Extend`) exist and have the values wanted because each step lowers a rank
(`RecursionExists`, `LessFacts`); `FoundFacts` needs that `Log2Floor` is monotone: a chunk that would do
is never in a bin below the one where the search begins.

A request that fails is in vain until memory is returned: `Quiet(m, n)` says that no free chunk has `n`
bytes, and that the limit leaves less or the SubAllocator has refused for good (`Stuck`: it has
backpedalled before and has not enough for the next region). Requests of others keep it (`QuietFind`,
`QuietExtend`). The invariant of the threads, `Inv`, adds that a thread holds the block of one chunk and
no two the same (`HoldInv`), and that a thread that has failed or waits has missed a notification, or
one is on its way, or its request is `Quiet` (`SleepInv`); this gives `SleepIsJustified`.
`GivingUpIsJustified` follows from `AllocOK`. `AllocatorImplementsBlocks` maps an attempt that gets a
block to `Allocate` (`GotAllocates`), one that does not to a stutter, and `DeallocateRaw` to
`Deallocate`. `StructuresAgree` is what `Inv` says of the structures in the terms of the run.

TLC has checked the invariants, with their strengthenings, on the instances above; `AbortIsFinal` and
`ToldOnce`, once proved, are no longer part of the runs.

Only model-checked: liveness and everything under fairness (`DoneEventuallyRuns`, `CancelEndsEveryOp`,
`EveryOpFinishes`, `AbortedOpsEnd`, `Terminates`, `EveryRequestAnswered`), which is out of the prover's
reach; the properties of Executor, whose proofs are planned (section 7); of `ChunksConsistent`, the
parts `TypeOK`, `BytesAccountedFor` and `ChunksNotLost`. What the folds of Executor and the sums of
BFCAllocator compute needs induction over what is folded, as for `Keep` and for the loop of `InsertAll`,
and that the walk along the unused Chunk structures meets all of them needs one over its length; so far
they are checked on the instances.

## 5. What is not modelled in the modelled components

* Rendezvous: `CreateKey`, `ParseKey`, the hash of keys (two keys with one hash would share a queue).
* FIFOQueue: failing allocations (`fifo_queue.cc:134`, `:274`, `:322`), several components per
  element, shape and type checks.
* Executor: Send and Recv nodes (which run even if dead), asynchronous kernels as a class of their
  own (a kernel is a step that ends), device contexts, statistics, tracing, `DumpState`, a device whose
  `FillContextMap` or `Sync` fails.
* PriorityQueue: TryEnqueue, TryDequeue and a limited capacity, which Barrier does not use.
* Barrier: Initialize, checks of shapes and types, failing allocations, the kernels around it.
* BFCAllocator: the rounding of `0.9f`, allocation visitors, the other statistics and ClearStats, dumps,
  alignment (every block is a multiple of 256 bytes).
* RemoteRendezvous: CleanupAll and the destructor of the manager, a second Initialize of a rendezvous
  (its abort and "Double init" branches; a step has one RunGraph), the tensors of the caller's inputs,
  partial runs, look-up errors of
  RecvFromRemoteAsync, copies between devices; several steps (they share no rendezvous).
* The memory model: fields are read and written under their locks; the one read without a lock,
  `IsCancelled`, reads a flag that is only ever set.

## 6. How to run

In this directory: `tlc -workers 2 -config Queue.cfg MCFIFOQueue` for a run (`PROJECT.json` names
the module of each), `tlapm RendezvousProofs.tla` for the proofs of a module, and likewise
`RendezvousRefinement`, `CancellableOpsProofs`, `SubsequenceProofs`, `FIFOQueueProofs`,
`RemoteRendezvousProofs`, `BFCAllocatorProofs` and `BarrierProofs` (the longest, some eight minutes).

## 7. Plan

Done: the four core components, Barrier, the BFC allocator and the remote rendezvous with their runs,
the abstract specifications of the rendezvous and the allocator, the proofs of section 4. Next:

1. Executor and Rendezvous together: transfer nodes, abort and cancellation on the first error, two
   executors of one step. Property: the step ends on all devices, with the first error.
2. FIFOQueue with allocation failures and two components; RandomShuffleQueue and PaddingFIFOQueue as
   other run callbacks of the same module.
3. PendingCounts: packed and large counters as operators on bit fields, against the plain counts that
   Executor uses.
4. DirectSession: Run, partial runs, timeouts and Close; GraphMgr and PartialRunMgr.
5. Conditional accumulators, staging areas and the resource manager.
6. Proofs: the sums of BFCAllocator and its list of unused Chunk structures; the counters of Executor.
