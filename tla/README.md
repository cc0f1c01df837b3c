# TLA+ models of the RT-Thread kernel in RTOS-example-adc

The repository is firmware for an STM32F407 board: a small application (an LCD
and an ADC thread, a hardware timer, an EEPROM on I2C) on top of RT-Thread
4.1.0, which is vendored in `rt-thread/` and configured by `rtconfig.h`: one
processor, 32 priorities, a 1000 Hz tick, no soft timers, no signals. The
application only creates threads, prints and sleeps; what can go wrong in
interesting ways is in the kernel it runs on, and that is what is modelled
here. Paths below are relative to `src/`, and `ipc.c` and the like are in
`rt-thread/src/`.

## The system and its parts

| Part | State | Operations | Correct when |
|---|---|---|---|
| Scheduler (`scheduler.c`) | ready queue per priority, priority bitmap, current thread, lock nesting | `rt_schedule`, insert, remove, enter and exit critical | queues, states and bitmap agree; the most urgent ready thread runs; nobody is preempted without cause |
| Threads (`thread.c`, `idle.c`) | state, priority, thread timer, defunct list | create, start, sleep, yield, suspend, resume, control, exit, detach, delete, reclaim | a thread is on the one list its state says; a closed thread never runs again and is reclaimed only when nobody runs on its stack |
| Time (`clock.c`, `timer.c`, `irq.c`) | tick, time slices, sorted timer list | `rt_tick_increase`, `rt_timer_check`, start, stop, control | slices are refilled, timers expire in order and only when due |
| Semaphores (`ipc.c`) | count, list of waiters | take, release, reset, delete | tokens are neither lost nor doubled; nobody waits in vain; waiters are served in order |
| Mutexes (`ipc.c`) | owner, hold count, saved priority, waiters | take, release, delete | one owner; priority inversion is bounded; inherited priorities go back |
| Events, mailboxes, message queues (`ipc.c`) | bit set, ring of mails, free and queued blocks, waiters | send, receive, urgent, reset, delete | no message lost, doubled or left lying while somebody waits |
| Memory (`mem.c`, `mempool.c`) | block list, free pointer; free blocks and waiters | alloc, realloc, free | no overlap, free neighbours are merged, the count is right |
| Driver IPC (`components/drivers/ipc`) | data queue, completion, wait queue, work queue, ring buffers | push, pop, wait, done, submit, cancel | as for semaphores and queues, used from interrupts |
| Devices (`device.c`, `components/drivers/serial` and others) | open count, receive FIFO, DMA queue | open, close, read, write, interrupt | every byte once and in order |
| Application (`applications`) | thread table, TIM6 | two threads that print, sleep and return | nothing beyond the kernel's promises |

How they interact. A thread calls into the kernel; the kernel protects its data
by disabling interrupts for a short region, and switches threads in
`rt_schedule`, which every blocking or waking operation calls *after* such a
region. SysTick and device interrupts call the same functions: SysTick charges
the time slice and expires timers, whose callback `_thread_timeout` takes a
thread off whatever list it waits on; a device interrupt releases a semaphore
or sends a message. All IPC objects share `_ipc_list_suspend`,
`_ipc_list_resume` and `_ipc_list_resume_all`, the thread timer and
`thread->error` to tell the woken thread why it woke.

What is hard: an interrupt between two regions of one operation, an
interrupt between the region in which a thread suspends itself and its
`rt_schedule`, a timeout racing with a release or a deletion, operations
applied to a thread in any state, priorities that change while threads wait,
and the few places that read shared state with interrupts enabled. They are
listed line by line under `hazards` in `PROJECT.json`.

## Modules

| Module | Models | Notes |
|---|---|---|
| `RtList` | the doubly linked list of `include/rtservice.h` | a list is the sequence of its entries |
| `IpcList` | `_ipc_list_suspend` | FIFO and priority order |
| `Kernel` | the critical regions of `scheduler.c`, `thread.c` | functions from kernel state to kernel state, composed as the C functions call each other |
| `Scheduler` | scheduler, life of a thread, slices, SysTick, idle | state machine over `Kernel` |
| `Tokens` | what a semaphore promises | abstract: tokens, and who is inside a take |
| `Semaphore` | semaphores of `ipc.c` | implements `Tokens` |
| `Mutex` | mutexes of `ipc.c` with priority inheritance | state machine over `Kernel`, so that who runs is what `rt_schedule` decides |
| `Waiters` | the threads inside the calls of an object that wakes its waiters to test again | shared by the five modules below |
| `Channel` | what a mailbox, a message queue and a data queue promise | abstract: a bounded sequence with urgent entries |
| `Mailbox` | mailboxes of `ipc.c` | implements `Channel` |
| `Chains` | the singly linked chains of blocks of `ipc.c` and `mempool.c` | used by the next two |
| `MessageQueue` | message queues of `ipc.c`, with the copies outside of the regions | implements `Channel` |
| `MemPool` | `mempool.c` | |
| `Event` | events of `ipc.c` | |
| `DataQueue` | `dataqueue.c` of the driver IPC | implements `Channel` |
| `Alarms` | what the hard timers promise | abstract: who is due, when, and in which order |
| `Timer` | `timer.c` under `rt_tick_increase` | implements `Alarms` |
| `Arena` | what a heap promises | abstract: disjoint blocks |
| `Heap` | the small memory heap of `mem.c` | implements `Arena` |
| `WorkQueue` | `workqueue.c` with delayed works | |
| `SerialRx` | reception in `serial.c` and the reader of the shell | |
| `SerialTx` | DMA transmission in `serial.c` | over the sequence that `DataQueue` implements |
| `RingBuffer` | `ringbuffer.c` | |
| `Completion`, `WaitQueue` | `completion.c`, `waitqueue.c` | |
| `MCScheduler`, `MCSemaphore`, `MCMutex`, `MCTimer` | instances for TLC | |
| `MCIpc`, `MCDrivers` | instances of several components, each by itself | `class` says which one a behaviour is about; the heap, from which driver objects are allocated, is a class of `MCDrivers` |
| `ListProofs`, `KernelProofs` | lemmas on lists, their order, rings of `n` places with an offset and a length, and on each function of `Kernel` | checked by TLAPS |
| `SchedulerProofs`, `SemaphoreProofs`, `MutexProofs`, `IpcProofs`, `TimerProofs`, `DriversProofs` | theorems and their proofs | checked by TLAPS |

A definition that only serves to be compared with the real one, a *mutant*, is
marked as a plausible slip; nothing else uses it.

### How state and actions correspond to the code

*Steps.* A region the code runs with interrupts disabled is one step. Where
the code leaves such a region and goes on, the thread's `pc` says where it is,
and interrupts (and through `rt_schedule` other threads) may come in. In
`Scheduler` the regions of `rt_thread_startup`, `rt_thread_resume`,
`rt_thread_detach`, `rt_thread_delete`, `rt_tick_increase` and the idle
thread's dequeue are separate actions, and the final `rt_schedule` of every
operation is one of its own (`Reschedule`).

*Lists.* `rt_list_remove` does not know which list the node is on, so `Unlink`
takes a thread off whatever list of the kernel it is on. An IPC wait list is
part of the object; `Scheduler`, which has no objects, leaves it out, and lets
`DeviceInterrupt` wake any suspended thread some list still has.

*Thread timers.* Everywhere but in `Timer` a thread timer is a flag: active or
not. Any active timer may expire at any tick, which includes every order and
every timing of the sorted list.

*Kernel.* `stat` and `yield` are the two parts of `thread->stat`. `owed` is a
history variable: some operations (`rt_thread_resume`, priority changes, a
mutex release without waiters) make a thread ready, or less urgent, and leave
the call of `rt_schedule` to their caller; `owed` says such a call is outstanding,
and the properties about who runs except exactly those steps.

*Semaphore* lets any thread act between two regions instead of following the
scheduler: every schedule `rt_schedule` can produce is among the behaviours, so
what holds here holds for them. The same goes for `Waiters` and the modules
over it, and for the drivers. `Mutex` cannot do that, since priority
inheritance is about who runs.

*Waiters.* A semaphore and a mutex hand over what they have; the other objects
only wake a waiter, which is `recvAgain` or `sendAgain` until its next region
tests again, and may find that a third thread was faster. A thread resumed with
an error (timeout, deletion of the object, reset) only returns that error, so it
is out of the call at once. `forgot` is a history variable: a thread that was woken and
is then deleted takes the wake-up with it, which the code cannot notice, and
the properties except it. An object is deleted with interrupts disabled while
nobody is inside a call past its wait (`NobodyInside`): the code has nothing to
guard against that, and the thread would go on with a freed object.

*MessageQueue.* Send and receive have three regions each (take a block, copy, link;
unlink, copy, free), and threads may be anywhere among them. `carried` is a
history variable: the message the block in a thread's hand is meant to hold,
which `CopiedIntact` compares with what the block holds. `lost` are the blocks that
went with a thread deleted between two regions.

*Event.* A bit pattern is a set of bits. A waiter keeps its pattern and option.
`rt_event_send` is one step, the walk included, since it is one region.

*Timer.* `rt_timer_check` takes a timer that is due off the list, runs its timeout
function (`callback`, in which that function may start, stop, change, detach and
initialise any timer, its own included), and puts it back if it is periodic and
still on the temporary list. `rt_timer_stop` has a test outside of its region
(`stopping`). The tick has `Wrap` values, 8 in the run, and wraps around all the
time; differences are compared as in the code, modulo `Wrap`.

*Heap.* Offsets are in words of `RT_ALIGN_SIZE`, so that alignment is a
conversion of sizes done before. `kservice.c` holds the heap lock around every call, which
makes each one step.

*WorkQueue.* `Careful` says that a work that waits for its delay is not submitted
again without one, and that nobody cancels a work while it is being submitted.
The worker runs a work with the queue unlocked. A delayed work is linked in one
region and its timer started later; `clash` is a history variable, the works that
were submitted again or cancelled in between. Then the timer may have been
detached, by a cancellation or because another submitter started it and it fired:
the assertion of `rt_timer_start` (`timer.c:409`) fails and the caller stays in
`rt_assert_handler`, so that it takes no step any more. `Careful` excludes the
cancellation and not the other submitter.

*SerialTx.* `WriterMasksIrq` says whether a writer keeps interrupts disabled
from the push to the start of the DMA. It is a habit that works only when the
queue has room, since `rt_data_queue_push` would otherwise have to wait.

*RingBuffer.* The calls are one step each: the code has no lock of its own, and its
callers (serial port and pipe) serialise them.

*Completion and WaitQueue.* `rt_completion_done` looks at the flag with interrupts
enabled and sets it later, and a thread leaves `rt_wqueue_wait` in two regions,
one for the flag and one for its node; each is a step. `oneSleeper`, chosen at the
beginning, says whether one thread at most is inside `rt_completion_wait`. Nothing
in the drivers keeps a second one out: two writers may be in `_serial_int_tx`
(`serial.c:336`). One that would have to wait fails an assertion and stays there;
one that finds the flag set consumes it, although another was woken for it. So
`CompletionIsSeen` has two parts: nobody is suspended while a completion stands,
for any callers, and a woken thread still finds it, for one at a time. It says
nothing of a thread whose timeout came: on its return it clears a completion
signalled meanwhile (`completion.c:110`).

In `WaitQueue` things are put there and wake-ups given one for one, by several
threads at once. (A write of many bytes to a pipe wakes one reader: it is one
thing, and so is what is left of it when that reader took less.) `alone`, chosen
at the beginning, says whether one thread at a time looks and waits. For it the
flag is enough. Of several threads one may sleep with something there: two have
looked, two wake-ups find nobody on the list, the first to wait clears the one
flag, and the second sleeps; or a wake-up meets the node of a thread whose
timeout has come, or its flag is cleared by a thread that wakes meanwhile. `lost`
is a history variable: one of these happened, and what was announced may still
be there. `WakeupReachesPoller` excepts that, and only that.

*Simplifications.* The idle thread's clean-up after the dequeue is merged with
the unlinking (nothing else looks at the thread in between). `DeviceInterrupt`
performs the resumption and the `rt_schedule` of the release it stands for in
one step. `Mutex` treats the end of a time slice and the expiry of a timer as
one step each; `Scheduler` has them in detail. A thread that blocks holds no
scheduler lock, as `RT_DEBUG_SCHEDULER_AVAILABLE` demands. A thread that closes
itself with `rt_thread_detach` or `rt_thread_delete` comes back into its own code,
closed, since only `rt_thread_control` goes on to `rt_schedule`: it goes on, with
that call `owed`, until it makes one. That it neither blocks nor returns before
is a precondition: it would fail an assertion at its detached timer (`timer.c:295`,
`timer.c:565`) or be linked on two lists (`ipc.c:131`). A thread deletes a
semaphore once, and a mutex is deleted by its owner. In the passing run a thread
owns at most one mutex at a time (`Nested = FALSE`).

*What a deleted mutex leaves.* `rt_mutex_release` takes back what the owner
inherited; `rt_mutex_detach` and `rt_mutex_delete` (`ipc.c:781`, `ipc.c:865`) do
not. The thread keeps the inherited priority, a later take saves it as the
original one, and every release comes back to it: an inherited priority can
outlive its mutex for ever. `own` is a history variable: the priority of a
thread's own, which is the one it was created with, or what such a deletion has
left it. `BaseRestored` is stated with it.

## Callers that disable interrupts

Four kernel functions look at shared state with interrupts enabled and rely on
it afterwards: `rt_thread_resume` (the check at `thread.c:894`),
`rt_thread_detach` and `rt_thread_delete` (`thread.c:406` to `413`), and
`_ipc_list_resume_all` (`ipc.c:225`). Inside the kernel most calls of
`rt_thread_resume` are made with interrupts disabled; for the others nothing
enforces it. `rt_mp_detach` and `rt_data_queue_reset` have the loop of
`_ipc_list_resume_all` once more. `MemPool` has the first with interrupts
disabled; `DataQueue` has test and region of the second apart, and no step where
the list was emptied in between, because what the code does there, with the
head of the list taken for a thread, is undefined. `CallerMasksIrq` says whether
the callers disable interrupts. The passing runs and
the proofs assume it; two runs drop the assumption and show what happens, so
that the assumption is a stated precondition and not a hole.

## Runs

| Run | Instance | Shows |
|---|---|---|
| `scheduler` | idle, main and two threads that are alike, two priorities, slices of 1 and 2 ticks, one level of scheduler lock; symmetry on the two | `TypeOK`, `ReadyTable`, `DefunctList`, `CurrentThread`, `TimeoutAssertion`, `HighestRuns`, `PreemptionJustified`, `ClosedStaysOff` hold. About 1.59 million states |
| `scheduler_unmasked` | the same with `CallerMasksIrq = FALSE` | `DetachedLeavesQueue` fails: a thread timer expires inside `rt_thread_detach`, and the closed thread is left on a ready queue |
| `semaphore` | three threads, two as urgent as each other, at most two tokens, both queue flags | `TypeOK`, `WaitsForToken`, `WaitersInOrder`, `ImplementsTokens`, `TimedTakeReturns` hold. About 68,000 states |
| `semaphore_unmasked` | the same with `CallerMasksIrq = FALSE` | `ResumeAllFindsThread` fails: the last waiter times out between the emptiness test and the region, and the list head is taken for a thread |
| `mutex` | idle, low, middle, high, two mutexes, hold count up to 2, one mutex at a time; symmetry on the mutexes | `TypeOK`, `OwnedOrFree`, `TakeTellsOwner`, `InversionBounded`, `BaseRestored` hold. About 1.35 million states |
| `mutex_nested` | the same, two mutexes at a time | `NoInversion` fails: releasing one mutex takes away the priority inherited through the other |
| `ipc_objects` | three alike threads; a mailbox of 3, a message queue of 2 blocks, a pool of 3 blocks, an event of 2 bits, a data queue of 3 with low-water mark 1; two mails and messages, all alike | `TypeOK`, `NobodyWaitsForWhatIsThere`, `BlocksConserved`, `CopiedIntact`, `PoolConserved`, `EventServed`, `MbImplementsChannel`, `MqImplementsChannel`, `DeliveredOnce`, `DqImplementsChannel` hold. About 248,000 states |
| `timer` | three timers of 1 or 2 ticks, one-shot and periodic, tick of 8 values | `TypeOK`, `StartedEarlyCalledEarly`, `ImplementsAlarms` hold. About 463,000 states |
| `heap` | 21 words, header and least size 3, sizes 1, 3, 4 and 9 | `WellFormed`, `FitIsFound`, `ImplementsArena` hold. About 35,000 states |
| `drivers` | three works, two submitters; a receive FIFO of 4 characters; a transmit queue of 2, three buffers, two writers; a ring of 4 with blocks up to 5; two threads and two callers at a completion; three pollers, at most three things there | `AcceptedIsHeld`, `ReceivedReachesShell`, `TransmitsInOrder`, `HoldsLatest`, `CompletionIsSeen`, `WakeupReachesPoller` hold. About 133,000 states |
| `work_queue_delayed` | the work queue with `Careful = FALSE` | `HandlerFindsQueue` fails: the delay of a work that was executed already comes to its end |
| `serial_dma` | the transmitter with `WriterMasksIrq = FALSE` | `TransmitsHead` fails: the interrupt comes between the push and the test of `activated`, and a buffer is sent twice, or another is reported as sent |

Why the bounds are enough for what is asked. Scheduling decisions compare the
current thread with one other and with the queue behind it: two alike threads
besides main and idle give queues of length two on either priority, equal and
unequal neighbours, and a third party for every race; slices of 1 and 2 make a
slice end at once and after a decrement. Semaphore queues of three have a
middle to leave from, and two tokens distinguish none, one and full. Priority
inversion needs exactly a low, a middle and a high thread; two mutexes let the
middle thread hold one of its own. A mailbox, data queue or pool of
three and a ring of four have an empty, a full and several middle states, and
the read and write offsets wrap around each other; two values are enough to
tell that a wrong one came out, a third thread is the one that is faster than a woken
one. With three timers one can act on another while a third is between them in
the list, times of 1 and 2 give equal and different expiry, and 8 values are the
narrowest tick in which such times, their doubles and the half that means
"past" are distinct. The heap holds up to four minimal items, so that an item
with free neighbours on both sides, on one and on none is there, with a further
one to be found beyond; the sizes are below, at and above the least size and
one that needs several items merged. Three pollers and three things let two wake-ups meet two threads that
looked, with a third of each. No counter is cut by a state constraint:
the limits `MaxValue`, `MaxHold` are the code's own limits made small, and
`MaxNest` bounds how deep `rt_enter_critical` is nested, and `MaxThings` how much is
put there for the pollers before it is taken.

Fairness is assumed only for `TimedTakeReturns`: `SysTick` keeps coming whatever
thread runs, so an active timer expires, and a thread that deletes a semaphore
with interrupts disabled gets to the end of it. Threads are promised nothing,
because a more urgent thread may keep any other from running for ever. All
other properties are safety properties and hold without fairness.

What the violating runs mean for the code is said in `PROJECT.json` under
`findings`, with the lines of the code that state the opposite.

## Proofs

TLAPS proves the following for every set of threads, every set of priorities,
every size, slice and limit. What is assumed is named: the assumptions on the constants
of the modules (`PrioritiesAssumption`, `ThreadsAssumption`, `TimerTimesAssumption`,
...; the distinguished values like `NoPriority` and `Nobody` are none of the ordinary ones), and
in the statements of some theorems one of `CallerMasksIrq`, `~Nested`,
`WriterMasksIrq` and `Careful`, which are the preconditions that the violating
runs show to be needed.

* `SchedulerProofs`: every property of the run `scheduler` (`TypeCorrect`,
  `ReadyTableCorrect`, `DefunctListCorrect`, `CurrentThreadCorrect`,
  `TimeoutAssertionHolds`, `PriorityScheduling`, `Preemption`,
  `ClosedForGood`), under `CallerMasksIrq`; and `DetachedThreadsLeaveQueues`, the
  property that fails without it.
* `SemaphoreProofs`: `SemaphoreTypeCorrect`, `NobodyWaitsInVain`, `ServedInOrder`,
  `MaskedResumeAll` and `TokensConserved`, the refinement of `Tokens`, under
  `CallerMasksIrq`.
* `MutexProofs`: `TypeCorrect`, `MutexesAreOwnedOrFree` and `TakersKnow`, nested or
  not; and under `~Nested` `InheritanceBoundsInversion`, which has `InversionBounded`,
  `BaseRestored`, and `NoInversion`, the property that fails in the run with nesting.
* `IpcProofs`: for mailboxes and data queues of any size, `MailboxIsChannel` and
  `DataQueueIsChannel`, the refinements of `Channel`, and `MailboxServes` and
  `DataQueueServes`: nobody waits for what is there. `EventServes` and
  `EventsAreDeliveredOnce`, for any threads and bits. `BlocksAreConserved` and
  `MemPoolServes`, for a pool of any
  number of blocks; `MessageBlocksAreConserved`, `MessageCopiesAreIntact`,
  `MessageQueueServes` and `MessageQueueIsChannel`, for a message queue of any
  number of blocks. `IpcTypes` and `NobodyWaitsInVain` put the five together, as
  the run `ipc_objects` has them.
* `TimerProofs`: every property of the run `timer`: `TimersTyped`, `TimersInOrder`
  and `TimersAreAlarms`, the refinement of `Alarms`, for any timers, times and width of the tick.
* `DriversProofs`: every property of the run `drivers`: `TransmissionInOrder` (under
  `WriterMasksIrq`), `CompletionSeen`, `WakeupArrives`,
  `AcceptedWorkIsHeld` with and without `Careful`, `CarefulHandlerFindsQueue` under it, `RingHolds` for a ring
  of any size, and `ReceptionReachesShell` for a FIFO of any size, by interrupt and by DMA.
  Every property of the run `heap`: `HeapStaysInOrder`, `HeapFindsFit` and `HeapIsArena`,
  the refinement of `Arena`, for a heap of any size with headers, least items and
  requests of any size.

*The argument for the scheduler.* None of the invariants is inductive alone:
that the ready table is right after `rt_schedule` depends on who is current,
that depends on where each thread stands in its call, and that the timeout
assertion holds depends on both. `IInv`, which theorem `Invariance` establishes, is their conjunction, with `Queues`
(what each list holds, in terms of two sets of threads), `PointsOK` (what is
known at each `pc`, which is where masked interrupts are used). What executes in
its own code (`Executes`) is RUNNING, or closed itself and owes an `rt_schedule`. The proof has three layers: a lemma for each list operation
(`ListProofs`), a lemma for each kernel function (`KernelProofs`), of which `ScheduleLemma` is
the central one, and one step per action. The action properties follow from
the same invariant.

*The argument for the semaphore.* `IInv` adds to `WaitsForToken` that the list
holds exactly the waiting threads, that only waiting threads have an active
timer, and what is known of a deletion under way: with interrupts disabled
nobody joins the list, so past the emptiness test there is still a thread on
it. The abstract token count is the count plus the tokens on their way to
threads that were resumed and did not return yet; a token that is handed over
leaves the sum as it is. The order of the waiters is an invariant of its own:
an entry that leaves a list leaves the others in order (`RemoveOrdered`), and one that joins
comes behind all it may follow and before the others (`InsertOrdered`).

*The argument for the mutex.* It uses the kernel lemmas of the scheduler. That
a woken thread is told the truth depends on what it was woken by, so `IInv` joins
to `OwnedOrFree` (in its parts `Objects`, `Lists` and `Waits`) and
`TakeTellsOwner` where each thread is (`Points`) and that the most urgent thread
runs (`HighestRuns`): with interrupts disabled during a deletion only the
thread that deletes can act. Without nesting nobody who waits owns a mutex
(`OneAtATime`), so that priorities are inherited over one step and no
more; then an owner is as urgent as all its waiters, and since it is
READY or RUNNING the thread that runs is, by `HighestRuns`, at least as urgent.
What an owner saved, and a release comes back to, is its `own` priority, which
only a deletion changes.

*The argument for the objects that wake their waiters.* `Served` says that
while threads are suspended on one side, at least as many are on their way to
test again as there are entries for them, or that a wake-up went with a deleted
thread. It
needs `Queued` (the lists hold exactly the suspended threads of their side),
and for the mailbox and the pool nothing else but types (`MbIInv`, `MpIInv`);
the data queue also needs `DqFlags`, which ties its two flags to its two
indices, and the message queue its two chains, whose lengths are what it counts. `IpcProofs` says once what each way in and out of a call does to
`Queued` and `Served`; each operation adds how its counter changes.

*The argument for the rings.* `Ring` is the sequence found from the read offset
on. `ListProofs` says that writing behind it appends, writing before it puts
in front, and moving the read offset takes the first off. With these
the refinement is a step by step translation, from `MbRing` (the
write offset is the read offset plus the count, modulo the size) or `DqFlags`.

*The argument for the pool.* `MpIInv` says that there is a sequence `s` of all
the blocks that are not in use, without repetition, that the words of the
blocks chain together in its order and whose length is the count.
`ChainLemma` says that such a sequence is what `Chain` finds, so that the
existence gives `PoolConserved`. Putting a block at the head and taking
one off change `s` by one entry.

*The argument for the message queue.* `MqIInv` says that there are two such
sequences, `f` for the free list and `q` for the queue (`Whole`), and that each
block is in one of them, in one thread's hand, or lost with a deleted thread
(`Places`); `InHand` says what the block in a hand is known to hold at each
point of a call, which is why nothing that other threads do while a copy runs
with interrupts enabled can touch it: they write only to their own block and to
`next` of those on a list (`Untouched`). Each operation is treated twice: its
effect on `f`, `q` and the hands (`TakeData`, `CopyData`, `LinkData`,
`RecvData`, `FreeData`), and on the waiters. A reset turns the queue round in
front of the free list (`Turned`). The refinement maps the messages in `q`;
only the steps that link, unlink or clear are visible.

*The argument for the event.* `Walk` is the walk of `rt_event_send` along its
waiters, a recursive function of the position each of whose steps is one `Visit`.
`EventWalkExists` says that there is such a function, `EventWalkLemma` what it has
done up to each position (`Visited`): the bits only get fewer, so a waiter that is
passed over stays unsatisfied, and one that is resumed takes bits that no one
before it cleared. Both are proved by the first position that would violate
them. `EvIInv` adds that a waiter waits for what it asked for, and for something.

*The argument for the timers.* The differences of ticks that the code compares are what
they look like only among ticks less than half the range apart. `Ahead` says that
this is so: nothing linked is overdue (what is due at a tick leaves the list in that
tick), and nothing was set for longer than half. Then `AfterLemma` and `ExpiredLemma` turn the
comparisons of the code into comparisons of the ticks that are left, `StartedKeeps` shows that
the place `rt_timer_start` finds keeps the list in order, and by the order
nothing is due if the first is not. `HeldApart` (the timer that is called is off
the list and exists) says when `rt_timer_check` may put it back. The refinement goes step by
step: each action is one of `Alarms` or changes nothing there.

*The arguments for the drivers.* `TxIInv`: at most one writer is past its push,
what it pushed is still the first of the queue if the DMA is idle, and
`activated` agrees with the DMA; that is where masked interrupts are needed.
`CompletionIInv`: the list is empty or holds one thread, and under `oneSleeper`
one thread at most is inside the wait. `WaitqIInv`: whoever sleeps is listed, and
whoever is listed sleeps or timed out (`WaitqShape`); when more is there than the
wake-ups to come and the threads on the way account for, the flag is set and nobody
sleeps, or a wake-up was lost (`Accounted`); and for a thread that waits alone,
without that last way out (`AloneAccounted`). `WqIInv` adds to `AcceptedIsHeld`
the types and that the worker has no current work while it
tests or sleeps (`WqShape`), and that without a clash one caller is about to start
a timer, which is stopped until then (`StoppedOnce`); under `Careful` `DelaysHold` adds that a work whose timer
runs, or is about to be started, is still the queue's. `RingIInv`: the write position is as many places
ahead of the read position as bytes are kept, and the mirror bits differ exactly if the end of
the buffer lies between. `BlockWritten` and `BlockRead` say what a copy in one or in two parts
does to what is kept; a forced put drops first (`RingDropStep`) and then
adds (`RingAddStep`). `RxIInv` adds to the contents of the FIFO (`RxHolds`) that
`is_full` is set only while the two indices meet, and that the shell
is told of what came (`ShellKnows`).

*The argument for the heap.* `HeapIInv` adds to `WellFormed` that offsets are
inside the memory, that `heap_end` counts as used, so that no merge passes it, and that
an item is as long as was asked for. There is one lemma for each thing the code does
to the items: `MergedLemma`, `SplitLemma` and `SetUsedLemma` say that the tiling and both
links survive, `PlugLemma` that `plug_holes` leaves no two free neighbours if only the
given item had one, `TakeLemma`, `FreedLemma` and `ShrunkLemma` that the free items
stay apart and `lfree` stays the lowest. The two loops along the items are recursive
functions of the offset; `SearchLemma` and `NextFreeLemma` say that they find the next
item of a set, by the greatest offset at which they would not (`WalkLemma`). The account is
exact because the stretches of the items are disjoint (`OccupiedLemma`). For `FitIsFound`
take the item that the free stretch begins in (`ItemAtLemma`): it is free, its next
neighbour is used or the end and lies behind the stretch, so that it fits, and being free
it is not below `lfree`. For the refinement no more is needed than that blocks lie in
their items and that items do not overlap (`VacantLemma`).

Only model-checked is `TimedTakeReturns` of the semaphore, which needs fairness and
is out of the prover's reach. The properties of the violating runs are false, so
there is nothing to prove of them but the precondition that makes them true: that
is `DetachedThreadsLeaveQueues` for `DetachedLeavesQueue`, `MaskedResumeAll` for
`ResumeAllFindsThread`, `InheritanceBoundsInversion` for `NoInversion`,
`CarefulHandlerFindsQueue` for `HandlerFindsQueue`, and `TransmissionInOrder`, whose
property includes `TransmitsHead`. So each of the five runs that find a violation is
matched by a theorem: without the precondition the code breaks the property, with it
it cannot.

## Not modelled

* Mutexes: deletion by a thread that is not the owner, and the deletion of a
  thread that owns a mutex or waits for one.
* Timers: soft timers and more than one level of the skip list (`rtconfig.h`
  has neither), the readings of `rt_timer_control`.
* Heap: `rt_calloc`, `rt_malloc_align`, the high-water mark, the checks of
  the shell. Each is arithmetic around one call that is modelled.
* Driver IPC: the event callback and `peek` of the data queue, wake-up functions other
  than the default one, the wait inside `rt_workqueue_cancel_work_sync`,
  `rt_workqueue_cancel_all_work` (which reads the first work of a list with
  interrupts enabled), the destruction of a work queue, `ringblk_buf.c` (nothing in the build uses it)
  and the pipe device (a ring buffer under a mutex), but for the use of its wait
  queues in `WaitQueue`.
* Serial device: polled transfer, opening, closing and control; transmission
  character by character on interrupts is only a completion.
* Device framework: registration and open count have no lock at all, so that
  they are correct only when no two threads open or close a device at a time;
  there is no property beyond that sentence.
* Hooks, the object registry beyond the life of an IPC object, stacks and the
  context switch itself (assembly, deferred to PendSV), command line editing,
  the console, the string functions: text processing, or code with no state
  that outlives a call.
* The application, the board's register access, STM32 HAL and CMSIS, and the vendored
  components (lwIP, FatFs and so on), which `rtconfig.h` leaves out of the build.
  They are nearly all the lines of the repository; what is modelled is the
  kernel the firmware is built from.

## Plan

1. Done: `Kernel`, `Scheduler`, `Semaphore` with `Tokens`, `Mutex`.
2. Done: the other IPC objects, timers, the heap, driver IPC and the two halves
   of the serial device.
3. Done: proofs for mailbox, message queue, data queue, pool and drivers.
4. Done: proofs for the event, the mutex, the order of waiters, the ring buffer,
   reception and the timers.
5. Done: proofs for `Heap`.
6. Left: mutexes whose owner or waiters are deleted; the parts of the heap and of the
   serial device listed above.
