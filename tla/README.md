# pthreadpool in TLA+

TLA+ modules that model pthreadpool, the TLC configurations that check them, and
theorems about them that TLAPS proves. The code is the library's C source
(`src/src/`, `src/include/pthreadpool.h`); every definition that models code is
listed with the lines it stands for in `PROJECT.json` under `map`.

## The system

pthreadpool runs a loop over a range of items on the calling thread and on worker
threads. The workers are either threads the pool owns or threads borrowed from an
*executor*, an object of the application with a `schedule` function.

| Part | Source | State | Operations |
|---|---|---|---|
| Thread protocol | `pthreads.c` | `num_active_threads`, `work_is_done`, `threads_count`, `job_id`, `execution_mutex` | `pthreadpool_parallelize`, `thread_main`, `thread_wrap_up`, `pthreadpool_set_threads_count`, `pthreadpool_create_v2`, `pthreadpool_destroy` |
| Executor threads | `pthreads.c` | `executor`, `executor_context`, `is_active`, `num_recruited_threads` | `ensure_num_threads`, `pthreadpool_release`, `pthreadpool_release_executor_threads`, `pthreadpool_update_executor` |
| Waits and signals | `pthreads.c` | `num_waiting_threads` (futex), two mutexes and two condition variables (condvar) | three `wait_on_*`, three `signal_*` |
| Item claiming | `portable-api.c`, `threadpool-atomics.h` | `range_start`, `range_end`, `range_length` of each `thread_info` | `thread_parallelize_*` |
| Fast path | `fastpath.c` | the same | `pthreadpool_thread_parallelize_*_fastpath` |
| Loop nests, tiles | `portable-api.c`, `fastpath.c` | `params`, each thread's coordinates | the wrappers and thread functions of the 1d..6d nests |
| Dynamic chunks | `portable-api.c` | the same ranges | `get_chunk`, `*_dynamic` functions |
| Thread-id and uarch variants | `portable-api.c`, `fastpath.c` | `uarch_index` | `*_with_thread`, `*_with_uarch` functions |
| Sequential shim | `shim.c` | none | every function as a loop of the caller |
| Legacy API | `legacy-api.c` | none | `pthreadpool_compute_*` |
| Memory | `memory.c` | none | aligned allocation |

How they interact. A wrapper (`pthreadpool_parallelize_1d`) looks at
`threads_count` and either runs the loop itself or calls `pthreadpool_parallelize`
with a thread function. That call takes `execution_mutex`, deals the range out to
the `thread_info` structs, publishes the job by storing 1 in
`num_active_threads`, signals, has threads scheduled if there is an executor, and
works as thread 0. Workers join with a compare-and-swap on `num_active_threads`,
run the thread function, and leave through `thread_wrap_up`; the last one raises
`work_is_done`. Everything between the threads goes through these atomics.

What is hard about it: `num_active_threads` is one word that says how many
threads run, whether they are wrapping up, whether the pool is idle and whether
threads shall go home; threads join late, or after the job; borrowed threads
leave on their own and are replaced while they do; sleeping threads must not
miss a signal; and the pool is freed by a caller that must know that the last
thread is out of it. `PROJECT.json` lists these hazards by line under `hazards`.

What makes each part correct:

* thread protocol: calls are serialized; every item is begun before a call ends
  and none is in progress when it returns; the count is exact; a job's threads
  have distinct ids below `threads_count`; every call returns;
* executor threads: one thread per `thread_info`; the recruit count is exact;
  nobody is left when the pool is freed; released threads go home; schedule is
  called with the context that belongs to it;
* waits: no thread sleeps through a signal meant for it, no caller sleeps on a
  condition that has come true unannounced, no thread keeps a mutex;
* claiming: every item once, none lost, whoever comes;
* loop nests: the task is called once for every cell of the grid, on whole tiles
  cut only at the grid's edge, and told the right thread and uarch.

## Modules

| Module | Models | Shown to be |
|---|---|---|
| `PoolContract` | what `pthreadpool.h` promises the callers | (abstract) |
| `ThreadPool` | the thread protocol and the executor threads, waits as reload loops | an implementation of `PoolContract` (proved) |
| `FutexPool` | `ThreadPool` with the futex build's waits and signals | an implementation of `ThreadPool` (proved) |
| `CondvarPool` | `ThreadPool` with the condition-variable build's waits and signals | an implementation of `ThreadPool` (proved) |
| `ParallelFor` | a parallel loop as its threads see it | (abstract) |
| `WorkStealing` | the deal and `thread_parallelize_1d` | an implementation of `ParallelFor` (proved) |
| `FastPath` | `WorkStealing` with the claims of `fastpath.c` | an implementation of `WorkStealing`, and so of `ParallelFor` (proved) |
| `LoopNest` | the index arithmetic of the nests, and what a nest is | |
| `ThreadFunctions`, `FastFunctions` | the `thread_parallelize_*` functions of `portable-api.c` and `fastpath.c`, each as a nest | |
| `PublicApi`, `ShimApi` | the functions of `pthreadpool.h`, with and without threads, and the legacy ones | |
| `LoopJob` | one call of any of them, from the wrapper's decision to its return | |
| `MCThreadPool`, `MCFutexPool`, `MCCondvarPool`, `MCStealing`, `MCLoopJob` | instances for TLC | |
| `ThreadPoolProofs`, `JobProofs` | the proofs about `ThreadPool`: the count and the threads' lives; the jobs, which build on both | |
| `FutexProofs`, `CondvarProofs` | the proofs about `FutexPool` and `CondvarPool` | |
| `StealingProofs`, `FastProofs` | the proofs about `WorkStealing` and `FastPath` | |
| `NestProofs`, `LoopProofs` | the proofs about `LoopNest`, and with them those about `LoopJob` | |

### ThreadPool

Every access of a thread to a variable that other threads use is a step of its
own, in the order of the code. `pc` says where a thread is:

* a caller goes `idle`, `lock`, `publish`, `ensStart`.. (`ensure_num_threads`),
  `work`/`item` (`run_thread_function`), `wrapLoad`, `wrapFlip`, `wrapAdd`
  (`thread_wrap_up`), `awaitDone`, `restore`; `swapExecutor` and `swapContext`
  are `pthreadpool_update_executor`, `awaitThreads` is `pthreadpool_destroy`;
* a worker is `exited` before and after `thread_main`, and `start`, `ensStart`..,
  `reload`, `loop`, `joined`, `work`/`item`, `wrap`.., `signalDone`, `recheck`,
  `reacquire`, `release`, `signalRecruited` inside it. At `loop` it acts on its
  local `curr_active_threads` (`curr`).

A worker is a pair of a `thread_info`'s number and an activation of `thread_main`
on it: a departing thread and its replacement overlap, which is where the
protocol is at its most delicate. `Generations` bounds the activations of one
`thread_info` that exist at once.

Folded into neighbouring steps are only accesses nobody else can see: what a job
sets up under `execution_mutex` before it is published (`job_id`, `threads_count`
and the ranges are read by participants only), and the arguments of the job.
`threads_count` is also read without a lock by the wrappers; that look is the
guard of `CallParallelize`.

The items of a job are a number, `remaining`; `WorkStealing` justifies this: it
implements `ParallelFor`, in which a thread leaves only when no item is left to
reserve. `ThreadPool` assumes that much of the thread function and nothing else.

The application is modelled as the header asks it to behave:
`pthreadpool_release_executor_threads` and `pthreadpool_destroy` are called when
no other call is in progress, nothing is called after `pthreadpool_destroy`. All
other calls overlap freely.

### FutexPool

`stage` says where a thread is inside the futex code, on top of `pc`. The kernel
is external: FUTEX_WAIT compares and queues in one step, may return early; a wake
of n wakes any n of the queued threads. `SignallingCall` begins the signal that
follows the store of DONE; a caller whose signal is under way is still inside its
call.

### CondvarPool

The other build, over `ThreadPool` in the same way: `stateMutex` and
`completionMutex` are the two mutexes, the threads on the two condition variables
are those whose `stage` is `asleep`. A thread that finds nothing goes from `none`
to `lock` (it wants the mutex), `check` (it has the mutex and has looked in vain),
`asleep`, and `relock` once it has been woken; `notify` and `broadcast` are a
signal whose store is made and whose mutex is not yet taken. Taking a mutex goes
with the access that follows it and releasing one with the access before it,
which hides nothing: whoever wants the mutex in between would have to wait. What
lies between a look and the sleep it leads to stays apart. A mutex that the code
does not release (`ReturnBorrowed`) stays with its thread.

The loop of `wait_on_num_active_threads` holds the mutex while it spins. Of its
iterations one look is modelled, since a later look sees whatever an earlier one
would have. With `DontSpinWorkers` there is none.

### WorkStealing and FastPath

A claim lowers `range_length` (the only contended word); a thief then lowers
`range_end`. `FastPath` replaces the compare-and-swap by the unconditional
subtraction modulo `SizeModulus`. The variable `fast` chooses the path of a job,
so one run covers both.

### LoopNest, the functions, LoopJob

`portable-api.c`, `fastpath.c`, `shim.c` and `legacy-api.c` consist of some 170
functions that differ in a few respects, and the models are made of those
respects. A thread function is a record (`Nest`, `DynamicNest`): the number of
axes, the axes after which the linear index is divided, in the order in which the
code divides (`cuts`), how many of the last axes are tiled, the identifiers the
task is passed (`ids`), whether items are claimed in chunks (`dynamic`), and
whether coordinates are carried from one item to the next or divided out for each
(`walks`). `ThreadFunctions`, `FastFunctions`, `PublicApi` and `ShimApi` have a
definition for every function, under its own name; a function of the interface
names the thread function it runs and the fast one that may take its place.

`LoopJob` is what they share. `Split` divides an index as the static functions
do, `RowMajor` as the dynamic ones do, `Advance` carries. The one-at-a-time claim
is a single step there (`ClaimOne`), since `WorkStealing` and `FastPath` have it in full and
implement the same abstract loop; a chunk's claim is modelled in its two accesses
(`SizeChunk`, `SubtractChunk`) and a theft in a third (`TakeEnd`), with `size_t`
arithmetic modulo `SizeModulus` and `get_chunk`'s signed reading of it. A job
whose nest is a single tile on every axis, or that has one thread, is run by the
wrapper's own loops (`CallInOrder`), and so is every job of the shim. The legacy
functions that have no counterpart divide the index in their task (`TaskNest`).

What the task does is not modelled, only which cells of the grid it is told to
process; `cpuinfo` is external and may answer anything in `CpuUarchs`, something
else at each look.

## Runs

| Run | Configuration | Instance | Shows |
|---|---|---|---|
| `own_threads` | `PoolOwnThreads.cfg` | 2 callers, 3 threads, own | ids unique, job ids grow, the contract, calls return |
| `executor_fanout` | `ExecutorFanOut.cfg` | 1 caller, 3 threads, executor | the same with borrowed threads; threads go back |
| `executor_turnover` | `ExecutorTurnover.cfg` | 3 threads, 2 activations each, 2 executors | the counters, the assertions, one thread per `thread_info`, nobody left |
| `futex_sleep` | `FutexSleep.cfg` | 3 threads, own | no lost wake-up, calls return |
| `futex_mixed` | `FutexMixed.cfg` | 2 threads, own and then two executors | the same with both kinds of threads; no caller sleeps on a word that has the value it waits for |
| `condvar_sleep` | `CondvarSleep.cfg` | 3 threads, own, then an executor | no broadcast slept through, no caller forgotten, calls return while threads are the pool's own |
| `loops` | `Loops.cfg` | every function, up to 3 threads, nests of 1 to 6 axes | every cell once, on whole tiles, right ids; coordinates in step; chunks accounted for; calls return |
| `stealing` | `Stealing.cfg` | up to 3 threads, ranges 2, 4, 5, 7 | every item once, none lost, the abstract loop |
| `mixed_pool` | `MixedPool.cfg` | own threads, then an executor | violated: ids are not unique |
| `torn_executor` | `TornExecutor.cfg` | 2 executors | violated: schedule with the other context |
| `condvar_borrowed` | `CondvarBorrowed.cfg` | 3 threads, executor | violated: a thread keeps the mutex and another waits for ever |
| `condvar_freed` | `CondvarFreed.cfg` | 2 threads, executor | violated: the pool is freed before its last signal |

Bounds. `MaxThreads = 3` is the least pool in which two workers race with each
other and with the caller, in which a job can use fewer threads than there are
(so that ranks replace thread numbers and a thread finds no place), and in which
a borrowed thread schedules another one. `MaxJobs = 2` lets a thread carry state
from one job into the next; with two executors also a release between them. Two
activations per `thread_info` are a departing thread and its replacement. The
ranges of `stealing` are fewer items than threads, an even deal, deals with a
remainder, and one close enough to `SizeModulus = 9` that the wrapper refuses the
fast path; with 9 a wrapped `range_length` and the threshold `9 - 3` are within
reach of every thread's overshoot. `MaxJobs` is a bound on the model only;
`JobIdModulus` exceeds it, so that job ids do not come round.

In `condvar_sleep` one job is enough, because a job, the release of the threads
and DONE are three different broadcasts, and two workers are the least number for
which a signal in place of a broadcast loses one (the mutant of
`NobodySleepsThrough`). `loops` has, for each kind of nest, ranges with cut tiles,
rows that end within a thread's range, axes of one tile and, for the two-axis
tiles, a last axis of one tile (`GroupAxis`); chunks of several sizes arise from 3
threads and both values of `fastest_to_slowest_ratio`. `SizeModulus = 64` is
beyond twice every product in the instances and lets `range_length` be pushed
below zero by every thread at once. `CpuUarchs` gives one thread two kinds of
core, one of them beyond `MaxUarch`. The shapes of up to four axes are also run
on one thread.

Fairness. `FairSpec` and `FutexFairSpec` assume weak fairness of each worker's
steps and of each caller's steps inside a call: the operating system runs
threads that can run, an executor runs what it is given, tasks return. Nothing
obliges the application to make a call, the kernel to wake a sleeper nobody
signals, or, in `stealing` and `loops`, any thread but the caller to take part. A borrowed
thread may spin or give itself back at any iteration, since the model has no
clock; fairness of `WorkerStep` lets it do either. Waiting for
`execution_mutex` is not promised to end: mutexes are not fair. In
`CondvarFairSpec` the two short mutexes of the waits are taken with strong
fairness, that is, a thread is not overtaken at them for ever; without that a
thread could be kept from the first look it takes under the mutex by others that
spin there.

Deadlock is checked in every run but those of `CondvarPool`; elsewhere the only
states without other successors are those in which the work is over
(`Terminated`). `CondvarPool` has others: after finding 4 nobody can take the
mutex.

## What is proved

The theorems hold for every value of the constants that satisfies the assumptions
of the modules. Of these only a few are more than typing: in `ThreadPool` there
are fewer threads than `INT_MAX`; in `WorkStealing` and `FastPath` `SizeModulus`
exceeds the number of threads, and a job on the fast path has fewer items than
that; in `LoopJob` a nest has no empty axis (`ShapesAssumption`) and its
`linear_range` fits a `ptrdiff_t`, as which `get_chunk` reads it
(`SizeAssumption`). Four theorems have a hypothesis of their own, and each needs
it: without it the property fails.

| Theorem | Hypothesis | Without it |
|---|---|---|
| `ThreadIdsAreUnique` | the pool runs threads of its own only (`Executors = {}`), or begins with an executor (`FirstExecutors \subseteq Executors`) | finding 1, run `mixed_pool` |
| `InfoHasOneThread` | the pool begins with an executor | finding 1, the same two threads |
| `JobIdsNeverRepeat` | `MaxJobs + Cardinality(Callers) < JobIdModulus` | the assertion on job ids fails (see the observations) |
| `NoLostBroadcast` | `DontSpinWorkers = FALSE` | the observation on `PTHREADPOOL_FLAG_DONT_SPIN_WORKERS` |

### ThreadPool

`ThreadPoolProofs`:

* `TypeCorrect`: `Spec => []TypeOK`; the type invariant is inductive.
* `CountIsExact`: `Spec => []ActiveCount`, and `AssertionsNeverFail`:
  `Spec => []AssertionsHold`. Both follow from `CountInv`. The count is not
  inductive by itself: the plain stores of 1 and of DONE would break it if they
  met a participant. They do not, because the caller that stores holds
  `execution_mutex` or knows all others to be idle (`MutexHeld`), because
  participants imply a caller that still waits for them (`JobHasCaller`), and
  because that caller stops waiting only on a flag that is raised when nobody is
  left, once (`DoneOnce`). `WrapUpSeen` says that the sign, once flipped, stays
  until all are out. Each action is either `Quiet` (moves nobody in or out) or
  has a lemma of its own.

and, of the threads' lives:

* `RecruitsAreCounted`: `Spec => []RecruitedCount`, and `FreedIsUnused`:
  `Spec => []FreedWhenUnused`, from `LifeInv`: the recruit count is exact, a pool
  without an executor has only the threads it joins (`OwnThreads`), and nobody
  enters a pool that is being destroyed (`Quiesced`).
* `InfoHasOneThread`: `Spec => []OneThreadPerInfo`, from `HolderInv`. Whoever
  becomes the holder of a `thread_info`, by scheduling a thread for it or by
  taking it back on the way out, has exchanged `is_active` from 0 to 1 and so
  found no holder; a thread that clears it is the one holder. That nobody
  schedules a thread in its own place, or in that of the caller, is
  `CursorInRange`.

`JobProofs`:

* `PoolImplementsContract`: `Spec => ImplementsContract`, the refinement of
  `PoolContract`. The pool's size there is `threads_count`, or what the call in
  progress will restore. A step that begins an item is a step of the contract
  because no more threads work on a job than have a place in it (`CrowdFits`),
  which follows from the order in which they are counted in; the end of a call is
  one because by then no item is left (`JobKept`) and, by `CountInv`, no
  participant.
* `ThreadIdsAreUnique`: `Spec => []UniqueThreadIds`, from `IdInv`. In a job that
  uses fewer threads than the pool has, a thread's id is the rank under which it
  was counted in: ranks differ (`RanksDiffer`) because they are below the count
  while it grows (`RanksBelow`), and only a rank below `threads_count` has a place
  (`IdsInRange`). In a job that uses all of them the id is the thread's number
  (`OwnIds`), and no two threads at work have the same one:
  by `OwnThreads` in a pool of its own threads, by `HolderInv` in one that
  borrows them.
* `JobIdsNeverRepeat`: `Spec => []JobIdsGrow`, from `NumberInv`: a job that is
  about to be published has a number no thread has seen (`FreshNumber`), and
  while it runs only its participants have (`SeenNumbers`), so a thread that
  joins late, or a second time, would have to be a participant already.
  `NumbersLeft` counts the calls that were let through and have yet to take a
  number: the bound of the model is on calls, the modulus on numbers.

### The waits

`FutexProofs` and `CondvarProofs` begin with a refinement, `FutexImplementsPool`
(`FutexSpec => Spec`) and `CondvarImplementsPool` (`CondvarSpec => Spec`): each
step of either build is a step of `ThreadPool` or leaves its variables alone, so
that everything proved of `ThreadPool` holds of both; the next proofs use it in
that way.

* `FutexTypeCorrect`: `FutexSpec => []FutexTypeOK`, from `FutexInv`.
  `num_waiting_threads` is the number of threads between their announcement and
  its withdrawal (`WaitersCounted`), those are threads of the pool that have seen
  no job (`WaitersWait`), so at most `MaxThreads - 1`, and what a signaller asks
  the kernel to wake is never negative.
* `NobodyNeededSleeps`: `FutexSpec => []NobodyOversleeps`, from `AwakeInv`. Once
  `num_active_threads` is positive nobody falls asleep, since the kernel compares
  the word with what the thread last saw; all that are asleep then have announced
  themselves before the signaller reads `num_waiting_threads`, and the wake it
  computes from that number leaves at most `Spare` of them (`EnoughAwake`).
  Threads that are counted but not asleep only make the wake larger than needed.
  Signals do not overlap (`OneSignaller`), and only their stores raise the word
  (`OnlyStoresRaise` of the protocol).
* `NoCallerSleepsOn`: `FutexSpec => []CallersAreWoken`. It is inductive together
  with `FutexInv` and `LifeInv`: the thread that stores the word is the one that
  wakes, and a caller looks and sleeps in one step of the kernel.
* `CondvarTypeCorrect`: `CondvarSpec => []CondvarTypeOK`: between a look and the
  sleep the mutex is held.
* `NoLostBroadcast`: `CondvarSpec => []NobodySleepsThrough`.
  `num_active_threads` turns positive only in a store that a broadcast follows
  (`OnlyStoresRaise`: a thread that counts up from a negative value never passes
  zero, by `CountInv`); a thread that is to sleep has seen it non-positive under
  the mutex, and the broadcast waits for that mutex. Only that look under the
  mutex needs the hypothesis.
* `NoCallerForgotten`: `CondvarSpec => []CompletionNotified`. Two conditions, the
  end of a job and the departure of the last thread, share one condition variable
  and are announced by `cond_signal`, which wakes one thread. That this is the
  right one follows from `OneWaiter`: `MutexHeld` and `Quiesced` leave one caller
  at most inside the waits.

### Claiming

`StealingProofs` is about `WorkStealing` for every `MaxThreads` and every set of
ranges.

* `EveryItemOnce`: `Spec => []ItemsOnce`, from `StealInv`. What makes it hold is
  `RangeAccounting`: `range_length` plus the thieves that have reserved an item
  and not fetched its index is the distance between the two ends of a range, so
  the ends never cross and what lies between them (`Window`) is untouched
  (`Fresh`). Windows stay in the ranges dealt out (`InsideDeal`), and those are
  disjoint (`DealFacts`).
* `NothingIsLost`: `Spec => []NothingLost`, from `LossInv`: the ranges dealt out
  cover the job's (`DealCovers`), an item leaves a window only into a thread's
  hands and those only into `done` (`Covered`), and a thread that leaves has seen
  every range empty, where it stays (`Exhausted`).
* `StealingImplementsLoop`: `Spec => ImplementsLoop`. A reservation is a thief
  between its two accesses (`Reserved`), an open item one that nobody has been
  handed (`Open`). `ParallelFor` lets a thread reserve only when more items are
  open than are reserved, which is a statement about sums over the ranges; the
  proof has no sums. The reservations of a range are numbered and each is given
  the item of that number in the range's window (`SlotOf`), which maps `Reserved`
  injectively into `Open` and, when a thread finds an item, misses the one it
  takes; when every range is empty the map is onto, so a thread that leaves
  leaves nothing to reserve.

`FastProofs` is about `FastPath`, where `fast` chooses either path.

* `FastPathIsStealing`: `FastSpec => Slow!Spec`. Read as what is left of a range
  (`LeftLength`: zero for a wrapped value), `range_length` on the fast path goes
  through a behaviour of `WorkStealing`: a subtraction that succeeds is its
  decrement, one that goes below zero is a look at an empty range. This needs
  `FastInv`: every thread passes an empty range once, so the overshoot of a range
  is at most the number of threads that have passed it (`Overshoot`), and a
  wrapped value is above the threshold.
* `FastLengthsAccount`: `FastSpec => []FastAccounting`, and for both paths
  `FastTypeCorrect` (`TypeOK`), `FastItemsOnce` (`ItemsOnce`), `FastNothingLost`
  (`NothingLost`) and `FastImplementsLoop` (`ImplementsLoop`): the theorems of
  `StealingProofs` carried over by the refinement. The run `stealing` checks
  these five properties.

### Loop nests and chunks

`NestProofs` is about the operators of `LoopNest`, for any number of axes. The
products of tile counts and the divisions of an index are functions defined by
recursion over the axes; what they compute is shown by induction, which takes the
form of a least counterexample (`LeastNumber`, from the library's theorem that the
natural numbers are well-founded).

* `SplitIsRowMajor`: the static functions divide the linear index in an order of
  their own, each division cutting a group of axes in two, so long as it divides
  exactly once after every axis but the last (`ValidCuts`). What is left of the
  index for a group is its number among the tiles of that group (`GroupNumber`),
  and by `DivideTwice` a division of one group number yields two.
* `AdvanceWalks`: an axis carries when the part of the index that belongs to it and
  the axes before it grows by one, so the odometer and the division agree.
  `TilesWalk` says the same of the static functions, which count in elements: the
  start of a tile is beyond the range just when its number is beyond the count of
  tiles (`RoundUp`).
* Row-major numbering hits every tile (`RowMajorOnto`) once (`RowMajorInjective`).

`LoopProofs` is about `LoopJob`, that is, about every function of the interface and
of the shim: of each it uses only that its nest suits its number of axes
(`PublicWrappers`, over the list of them) and what `JobIsGood` says of the job the
wrapper starts. `MaxThreads`, the nests' shapes and the uarchs are arbitrary.

* `WalkInStepHolds`: `Spec => []WalkInStep`, and `ChunkAccountingHolds`:
  `Spec => []ChunkAccounting`, both from `ClaimInv`, which says of every range where
  the items begin that nobody has located (`RangeFront`), and that this is where its
  owner is. A subtraction that comes too late leaves `range_length` below zero; read
  as signed it stays there, because every thread makes at most one such subtraction
  on a range. That is what `RangeOK` counts, by the threads that are about to make
  theirs (`Subtracting`); each takes at most `MaxChunk` off, so all of them together
  no more than `linear_range`. A thread that has passed a range never comes back to it
  (`Passed`).
* `LoopTypeOKHolds`, `CallsKeepContractHolds`, `CellsOnceHolds` and `GridDoneHolds`,
  from `JobInv`: every item waits in a range, is held by a thread, is in the call a
  thread is in or has been processed (`Tracks`, whose two functions the proof
  carries along: each step moves items on by one stage). The cells of a call are
  those of its items (`BoxOfTiles`), those of different items are disjoint
  (`TilesApart`) and those of all items are the grid (`WholeGrid`), so that the
  account of the items is one of the cells. In the wrapper's own loops the calls
  are numbered (`SerialTracks`).

Of the properties of the run `loops` only `CallEnds` is not among these. Where the
instances there have nests of at most 6 axes, a few tiles each and 3 threads, the
theorems have any number of threads, any tiles and any ranges.

The inductive invariants of `ThreadPool` and `FutexPool`, and `ClaimInv`, were
checked by TLC on the instances above before they were proved; every theorem that
names a property of a run states what that run checks.

### What is only model-checked

* Liveness (`CallsReturn`, `CallsReturnOwnThreads`, `ThreadsGoBack`, `JobEnds`,
  `CallEnds`): proofs under fairness need ENABLED, which the prover does not
  handle.
* The four runs that expect a violation.

## Findings

1. `mixed_pool`: `pthreadpool_update_executor` accepts a pool with threads of its
   own, whose `is_active` is 0; a second thread is then scheduled for the same
   `thread_info`, and both may work on one job under one `thread_id`, which
   `thread_main` says is unique. (What
   `FreedIsUnused` says of freeing a pool covers such a pool too.)
2. `condvar_freed`: `threadpool-object.h` asks threads to decrement
   `num_recruited_threads` as the last thing they do. `pthreadpool_release` signals
   after the decrement (`pthreads.c:365`), in the build with condition variables
   by locking `completion_mutex`, and `pthreadpool_destroy`, which only looks at
   the count, may have destroyed that mutex and freed the pool in between. Own
   threads are joined and not affected; with futexes the signal uses only the
   address of the word. `FreedIsUnused` says that this signal is all that can
   come after the pool is freed.
3. `torn_executor`: between the two stores of `pthreadpool_update_executor` a
   thread in `ensure_num_threads` may call the new executor's `schedule` with the
   old context.
4. `condvar_borrowed`: in the build with condition variables
   `wait_on_num_active_threads` returns (`pthreads.c:233`) with
   `num_active_threads_mutex` locked (`pthreads.c:220`) when the thread is a
   borrowed one. The next thread that waits, or the caller that signals, blocks.

Further observations that are not runs:

* `PTHREADPOOL_FLAG_DONT_SPIN_WORKERS` loses wake-ups in the build with condition
  variables: between the look at `pthreads.c:217` and the wait at 261 a thread
  does not look again, so a broadcast that comes first is lost, and with DONE
  `pthread_join` never returns. With `DontSpinWorkers = TRUE` in
  `CondvarSleep.cfg` TLC finds `NobodySleepsThrough` violated, and without that
  invariant `CallsReturnOwnThreads`. The flag is documented for borrowed threads.
* `job_id` is 32 bits wide, and the assertion in `thread_main`
  (`pthreads.c:544`) fails after 2^32 jobs on one pool; nothing but the assertion
  reads `last_job_id`. With `JobIdModulus = 2` in `PoolOwnThreads.cfg` TLC finds
  `JobIdsGrow` violated.
* `ensure_num_threads` checks for "wrapping up" and DONE but not for idle, so a
  thread may be scheduled when its job is over.
* A nest with an empty axis beside one of several tiles passes the wrappers' test
  for a single tile; `linear_range` is then 0, against the assertion in
  `pthreadpool_parallelize`, and without assertions the deal divides by zero. An
  empty one-dimensional range calls a `*_dynamic` task once, with count 0.
* `thread_parallelize_3d_tile_1d_dynamic_with_uarch_with_thread` reads its
  parameters through another member of the union than the wrapper wrote, of the
  same layout.
* `shim.c` has no `pthreadpool_parallelize_3d_tile_2d_dynamic_with_uarch` and no
  `pthreadpool_update_executor`; it passes `default_uarch_index` as it is, also
  beyond `max_uarch_index`.
* Without futexes `pthreadpool_destroy` destroys mutexes and condition variables
  that were initialized only for pools of more than one thread.

## What is not modelled

* Weak memory: all accesses are sequentially consistent. The code's acquire,
  release and relaxed orders are not examined.
* Empty axes, and nests whose products or `start + tile` exceed `size_t`: what
  follows is undefined or cannot be run to its end (`ShapesAssumption`).
* Nests of more tiles than `PTRDIFF_MAX`, whose ranges `get_chunk` may take for
  exhausted (`SizeAssumption`).
* The FPU state, flags other than their effect on spinning, logging, allocation
  failure, failure of `pthread_create`, `cpuinfo`.
* The C++ wrappers, benchmarks and tests. Of `memory.c` only the release of the
  pool appears, as `freed`.
* How often a thread spins and what `pthreadpool_yield` does.
* The fast path with ranges within `max_num_threads` of `SIZE_MAX`, where the
  wrapper compares with a `threads_count` read earlier.

## Plan

1. Done: `PoolContract`, `ThreadPool`, `FutexPool`, `ParallelFor`, `WorkStealing`,
   `FastPath`, their runs and the first proofs.
2. Done: `CondvarPool`, its runs and proofs.
3. Done: `LoopNest`, the functions and `LoopJob`, with the dynamic chunks, the
   identifier variants, the shim and the legacy interface.
4. Done: the refinements of `PoolContract`, `ThreadPool` (both builds), `ParallelFor`
   and `WorkStealing`; every safety property checked of these modules.
5. Done: what the nests compute, and every safety property of `LoopJob`.
