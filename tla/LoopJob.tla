------------------------------- MODULE LoopJob -------------------------------
(***************************************************************************)
(* One call of a pthreadpool_parallelize function, from the wrapper's      *)
(* decision to the return: either the wrapper runs the nest itself, or     *)
(* pthreadpool_parallelize deals the linear range out and every thread of  *)
(* the job claims items, takes their indices apart and calls the task.     *)
(*                                                                         *)
(* WorkStealing has the claims of the one-at-a-time functions step by      *)
(* step and FastPath the fast path's; here they are the frame of what is   *)
(* done with the items.  The chunk claims of the dynamic functions are     *)
(* modelled here: a chunk is sized by a first look at range_length, which  *)
(* other threads may lower before the subtraction, and below zero.         *)
(***************************************************************************)
EXTENDS PublicApi

CONSTANTS
    Shapes,        \* what nests are run: [threads, tiled, range, tile]
    MaxThreads,    \* how many threads the largest pool has
    CpuUarchs,     \* what cpuinfo_get_current_uarch_index may answer each thread
    DefaultUarch,  \* default_uarch_index
    MaxUarch,      \* max_uarch_index
    SizeModulus,   \* a size_t holds the numbers below it
    NoCall         \* the thread is not in the task

Threads == 0 .. (MaxThreads - 1)

\* The tests of the wrappers do not cover a nest with an empty axis beside one
\* of several tiles: pthreadpool_parallelize then asserts that linear_range > 1.
ASSUME ShapesAssumption ==
    /\ MaxThreads \in Nat
    /\ \A s \in Shapes : /\ s.threads \in 1 .. MaxThreads
                         /\ s.range \in Seq(Nat \ {0}) \ {<<>>}
                         /\ s.tile \in Seq(Nat \ {0})
                         /\ Len(s.tile) = Len(s.range)
                         /\ s.tiled \in 0 .. Len(s.range)
                         /\ \A a \in 1 .. (Len(s.range) - s.tiled) : s.tile[a] = 1
ASSUME UarchAssumption ==
    CpuUarchs \in [Threads -> SUBSET Nat] /\ DefaultUarch \in Nat /\ MaxUarch \in Nat
\* get_chunk reads range_length as a ptrdiff_t: it holds linear_range.
ASSUME SizeAssumption ==
    /\ SizeModulus \in Nat \ {0} /\ SizeModulus % 2 = 0
    /\ \A s \in Shapes : 2 * Linear(TileCounts(s.range, s.tile)) < SizeModulus

Shim == INSTANCE ShimApi

VARIABLES
    job,          \* the call: nest, range, tile, counts, threads, serial, shim
    rangeEnd,     \* range_end of every thread_info
    rangeLength,  \* range_length of every thread_info
    pc,           \* where each thread is
    offset,       \* tid of the loop over the ranges, the thread's own first
    from,         \* the next item of the thread's own range or of its chunk
    chunk,        \* how many items of its chunk a thread has yet to do
    at,           \* the coordinates of from, as the thread has them
    call,         \* the task call a thread is in
    ratio,        \* fastest_to_slowest_ratio
    uarch,        \* uarch_index
    done          \* the cells of the grid that have been processed

claimVars == <<rangeEnd, rangeLength>>
localVars == <<offset, from, chunk, at>>
vars == <<job, claimVars, pc, localVars, call, ratio, uarch, done>>

\* "range <= 1" on the axes that are not tiled, "range <= tile" on the others.
OneTile(s) == \A a \in DOMAIN s.range : s.range[a] <= s.tile[a]

\* The wrapper's choice of what the threads run.
NestsOf(f, s) ==
    {f.run} \cup (IF Linear(TileCounts(s.range, s.tile)) < SizeModulus - s.threads
                  THEN {f.fast} ELSE {})

\* In the serial loops of the dynamic functions the grouped axis is one step.
SerialTile(nest, s) ==
    IF ~nest.dynamic THEN s.tile
    ELSE LET group == GroupAxis(nest, TileCounts(s.range, s.tile))
         IN  [a \in DOMAIN s.tile |-> IF a >= group THEN s.range[a] ELSE s.tile[a]]

JobOf(f, nest, s) ==
    LET counts == TileCounts(s.range, s.tile)
        serial == f.serial \/ s.threads <= 1 \/ OneTile(s)
    IN  [nest |-> nest, range |-> s.range,
         tile |-> IF serial THEN SerialTile(nest, s) ELSE s.tile, unit |-> s.tile,
         counts |-> counts, serial |-> serial, shim |-> f.serial,
         threads |-> IF serial THEN 1 ELSE Smaller(Linear(counts), s.threads)]

Jobs ==
    UNION {{JobOf(c[1], nest, c[2]) : nest \in NestsOf(c[1], c[2])} :
           c \in {d \in (PublicFunctions \cup Shim!ShimFunctions) \X Shapes :
                     d[1].run.axes = Len(d[2].range) /\ d[1].run.tiled = d[2].tiled}}

\* pthreadpool_parallelize: the first remainder threads get one item more.
LengthOf(j, t) ==
    IF j.serial \/ t >= j.threads THEN 0
    ELSE LET n == Linear(j.counts) IN
         n \div j.threads + (IF t < n % j.threads THEN 1 ELSE 0)
StartOf(j, t) ==
    LET n == Linear(j.counts) IN
    IF j.serial \/ t >= j.threads THEN n
    ELSE t * (n \div j.threads) + Smaller(t, n % j.threads)

Init ==
    /\ job \in Jobs
    /\ rangeLength = [t \in Threads |-> LengthOf(job, t)]
    /\ rangeEnd = [t \in Threads |-> StartOf(job, t) + LengthOf(job, t)]
    /\ pc = [t \in Threads |-> "out"]
    /\ offset = [t \in Threads |-> 0]
    /\ from = [t \in Threads |-> StartOf(job, t)]
    /\ chunk = [t \in Threads |-> 0]
    /\ at = [t \in Threads |-> Zeros(job.counts)]
    /\ call = [t \in Threads |-> NoCall]
    /\ ratio = [t \in Threads |-> 2]
    /\ uarch = [t \in Threads |-> DefaultUarch]
    /\ done = {}

Goto(t, label) == pc' = [pc EXCEPT ![t] = label]

\* size_t arithmetic, and the reading of a size_t as a ptrdiff_t.
NoWrapMutant(n) == n  \* of Wrap: a size_t that can be negative
Wrap(n) == n % SizeModulus
Signed(n) == IF n < SizeModulus \div 2 THEN n ELSE n - SizeModulus

-----------------------------------------------------------------------------
(* Beginning.                                                              *)

\* get_fastest_to_slowest_ratio.
RatioOn(cpu) == IF cpu > 0 THEN 4 ELSE 2

UarchOn(cpu) == IF cpu > MaxUarch THEN DefaultUarch ELSE cpu

\* Where in the grid item n is: in elements, in tiles for the dynamic functions.
Coordinates(n) ==
    IF job.nest.dynamic THEN RowMajor(job.counts, n)
    ELSE [a \in DOMAIN job.counts |->
             Split(job.nest.cuts, job.counts, n)[a] * job.tile[a]]

LookUpCpu(t) ==
    /\ \E cpu \in CpuUarchs[t] :
          ratio' = [ratio EXCEPT ![t] = IF job.nest.dynamic /\ ~job.serial THEN RatioOn(cpu) ELSE @]
    /\ \E cpu \in CpuUarchs[t] :
          uarch' = [uarch EXCEPT ![t] = IF "uarch" \in job.nest.ids /\ ~job.shim
                                        THEN UarchOn(cpu) ELSE @]

\* A thread of the pool, the caller among them, enters thread_parallelize_*.
Join(t) ==
    /\ pc[t] = "out"
    /\ ~job.serial
    /\ t < job.threads
    /\ LookUpCpu(t)
    /\ at' = [at EXCEPT ![t] = Coordinates(from[t])]
    /\ Goto(t, "claim")
    /\ UNCHANGED <<job, claimVars, offset, from, chunk, call, done>>

\* The wrapper, or the shim, runs the loops itself.
BeginSerial(t) ==
    /\ pc[t] = "out"
    /\ job.serial
    /\ t = 0
    /\ LookUpCpu(t)
    /\ Goto(t, "serial")
    /\ UNCHANGED <<job, claimVars, localVars, call, done>>

-----------------------------------------------------------------------------
(* Claiming.                                                               *)

\* The static functions look from their own range forwards, the dynamic ones
\* backwards.
Victim(t) ==
    IF job.nest.dynamic THEN (job.threads + t - offset[t]) % job.threads
                        ELSE (t + offset[t]) % job.threads

OwnRange(t) == offset[t] = 0

\* With the claim made, the owner knows its items; a thief has yet to lower
\* the victim's range_end.
Claimed(t, n) ==
    /\ chunk' = [chunk EXCEPT ![t] = n]
    /\ Goto(t, IF OwnRange(t) THEN "chunk" ELSE "take")

\* pthreadpool_try_decrement.  The fast path's claim has the same outcomes.
ClaimOne(t) ==
    /\ pc[t] = "claim"
    /\ ~job.nest.dynamic
    /\ rangeLength[Victim(t)] > 0
    /\ rangeLength' = [rangeLength EXCEPT ![Victim(t)] = @ - 1]
    /\ Claimed(t, 1)
    /\ UNCHANGED <<job, rangeEnd, offset, from, at, call, ratio, uarch, done>>

\* get_chunk sizes the chunk by what it sees ...
SizeChunk(t) ==
    /\ pc[t] = "claim"
    /\ job.nest.dynamic
    /\ Signed(rangeLength[Victim(t)]) > 0
    /\ chunk' = [chunk EXCEPT ![t] = Larger(rangeLength[Victim(t)] \div ratio[t], 1)]
    /\ Goto(t, "subtract")
    /\ UNCHANGED <<job, claimVars, offset, from, at, call, ratio, uarch, done>>

GiveUpMutant(t) == job.threads  \* of NextOffset: one empty range is enough
StayMutant(t) == offset[t]      \* of NextOffset: stays at the empty range
NextOffset(t) == offset[t] + 1

\* Nothing is left there: on to the next range, or out.
MoveOn(t) ==
    /\ offset' = [offset EXCEPT ![t] = NextOffset(t)]
    /\ from' = [from EXCEPT ![t] = 0]
    /\ chunk' = [chunk EXCEPT ![t] = 0]
    /\ Goto(t, IF NextOffset(t) < job.threads THEN "claim" ELSE "gone")

FoundEmpty(t) ==
    /\ pc[t] = "claim"
    /\ IF job.nest.dynamic THEN Signed(rangeLength[Victim(t)]) <= 0
                           ELSE rangeLength[Victim(t)] = 0
    /\ MoveOn(t)
    /\ UNCHANGED <<job, claimVars, at, call, ratio, uarch, done>>

UnsignedMutant(n) == n > 0  \* of StillPositive: a size_t is never below zero
StillPositive(n) == Signed(n) > 0

\* ... and gets what the subtraction finds, which may be less or nothing.
SubtractChunk(t) ==
    LET left == rangeLength[Victim(t)] IN
    /\ pc[t] = "subtract"
    /\ rangeLength' = [rangeLength EXCEPT ![Victim(t)] = Wrap(@ - chunk[t])]
    /\ IF StillPositive(left)
       THEN Claimed(t, Smaller(chunk[t], left)) /\ UNCHANGED <<offset, from>>
       ELSE MoveOn(t)
    /\ UNCHANGED <<job, rangeEnd, at, call, ratio, uarch, done>>

FetchSubMutant(end, n) == end  \* of LoweredEnd: the value before the decrement
LoweredEnd(end, n) == end - n

\* A thief's items are the last ones of the victim's range.
TakeEnd(t) ==
    /\ pc[t] = "take"
    /\ \E new \in {LoweredEnd(rangeEnd[Victim(t)], chunk[t])} :
          /\ rangeEnd' = [rangeEnd EXCEPT ![Victim(t)] = @ - chunk[t]]
          /\ from' = [from EXCEPT ![t] = new]
          /\ at' = [at EXCEPT ![t] = Coordinates(new)]
    /\ Goto(t, "chunk")
    /\ UNCHANGED <<job, rangeLength, offset, chunk, call, ratio, uarch, done>>

-----------------------------------------------------------------------------
(* Processing.                                                             *)

\* The cells a call of the task with these arguments is to process.
Cells(start, size) ==
    LET Along(a) == start[a] .. (start[a] + size[a] - 1)
        axes == DOMAIN start
    IN  {cell \in [axes -> UNION {Along(a) : a \in axes}] : \A a \in axes : cell[a] \in Along(a)}

Task(t, start, size) ==
    [start |-> start, size |-> size,
     thread |-> IF "thread" \in job.nest.ids THEN t ELSE 0,
     uarch |-> IF "uarch" \in job.nest.ids THEN uarch[t] ELSE DefaultUarch]

\* A static function calls the task for one tile.
CallOnTile(t) ==
    /\ pc[t] = "chunk"
    /\ ~job.nest.dynamic
    /\ call' = [call EXCEPT ![t] =
                   Task(t, at[t], SizeAt(job.range, job.tile, at[t]))]
    /\ from' = [from EXCEPT ![t] = @ + 1]
    /\ at' = [at EXCEPT ![t] = IF job.nest.walks THEN Advance(@, job.tile, job.range)
                               ELSE Coordinates(from[t] + 1)]
    /\ chunk' = [chunk EXCEPT ![t] = 0]
    /\ Goto(t, "task")
    /\ UNCHANGED <<job, claimVars, offset, ratio, uarch, done>>

\* A dynamic function calls the task for the tiles of its chunk that lie in one
\* row, along the axis GroupAxis.  A nest of a single such row has one call.
CallOnRow(t) ==
    LET group == GroupAxis(job.nest, job.counts)
        tiles == Smaller(job.counts[group] - at[t][group], chunk[t])
        steps == [a \in DOMAIN at[t] |-> IF a = group THEN tiles ELSE 1]
        start == [a \in DOMAIN at[t] |-> at[t][a] * job.tile[a]]
        sizes == [a \in DOMAIN at[t] |-> steps[a] * job.tile[a]]
    IN
    /\ pc[t] = "chunk"
    /\ job.nest.dynamic
    /\ call' = [call EXCEPT ![t] = Task(t, start, SizeAt(job.range, sizes, start))]
    /\ from' = [from EXCEPT ![t] = @ + tiles]
    /\ at' = [at EXCEPT ![t] = Advance(@, steps, job.counts)]
    /\ chunk' = [chunk EXCEPT ![t] = IF group = 1 THEN 0 ELSE @ - tiles]
    /\ Goto(t, "task")
    /\ UNCHANGED <<job, claimVars, offset, ratio, uarch, done>>

\* One iteration of the wrapper's own loops.
CallInOrder(t) ==
    /\ pc[t] = "serial"
    /\ at[t][1] < job.range[1]
    /\ call' = [call EXCEPT ![t] =
                   Task(t, at[t], SizeAt(job.range, job.tile, at[t]))]
    /\ at' = [at EXCEPT ![t] = Advance(@, job.tile, job.range)]
    /\ Goto(t, "task")
    /\ UNCHANGED <<job, claimVars, offset, from, chunk, ratio, uarch, done>>

EndSerial(t) ==
    /\ pc[t] = "serial"
    /\ at[t][1] >= job.range[1]
    /\ Goto(t, "gone")
    /\ UNCHANGED <<job, claimVars, localVars, call, ratio, uarch, done>>

\* The task returns.
Finish(t) ==
    /\ pc[t] = "task"
    /\ done' = done \cup Cells(call[t].start, call[t].size)
    /\ call' = [call EXCEPT ![t] = NoCall]
    /\ Goto(t, IF job.serial THEN "serial" ELSE IF chunk[t] > 0 THEN "chunk" ELSE "claim")
    /\ UNCHANGED <<job, claimVars, localVars, ratio, uarch>>

Claiming(t)   == ClaimOne(t) \/ SizeChunk(t) \/ FoundEmpty(t) \/ SubtractChunk(t) \/ TakeEnd(t)
Processing(t) == CallOnTile(t) \/ CallOnRow(t) \/ CallInOrder(t) \/ EndSerial(t) \/ Finish(t)

\* The call returns when the caller and every thread that took part are out.
Over == pc[0] = "gone" /\ \A t \in Threads : pc[t] \in {"out", "gone"}

Terminated == Over /\ UNCHANGED vars

Next ==
    \/ \E t \in Threads : Join(t) \/ BeginSerial(t) \/ Claiming(t) \/ Processing(t)
    \/ Terminated

Spec == Init /\ [][Next]_vars

\* As in WorkStealing: the caller takes part, and who takes part keeps going.
FairSpec ==
    /\ Spec
    /\ WF_vars(Join(0) \/ BeginSerial(0))
    /\ \A t \in Threads : WF_vars(Claiming(t) \/ Processing(t))

-----------------------------------------------------------------------------
(* What must hold.                                                         *)

Labels == {"out", "claim", "subtract", "take", "chunk", "task", "serial", "gone"}

LoopTypeOK ==
    /\ job \in Jobs
    /\ rangeEnd \in [Threads -> 0 .. (SizeModulus - 1)]
    /\ rangeLength \in [Threads -> 0 .. (SizeModulus - 1)]
    /\ pc \in [Threads -> Labels]
    /\ offset \in [Threads -> 0 .. MaxThreads]
    /\ from \in [Threads -> 0 .. Linear(job.counts)]
    /\ chunk \in [Threads -> 0 .. Linear(job.counts)]
    /\ at \in [Threads -> [DOMAIN job.counts -> Nat]]
    /\ ratio \in [Threads -> {2, 4}]
    /\ uarch \in [Threads -> (UNION {CpuUarchs[t] : t \in Threads}) \cup {DefaultUarch}]
    /\ done \subseteq Cells(Zeros(job.range), job.range)

\* The thread is on its way through its own range, or through a chunk.
HasPlace(t) ==
    \/ OwnRange(t) /\ pc[t] \in {"claim", "subtract", "chunk", "task"} /\ ~job.serial
    \/ chunk[t] > 0 /\ pc[t] \in {"chunk", "task"}

\* A thread divides once, for the first item of its own range or of a chunk, and
\* carries from there: its coordinates stay those a division would give, over
\* every row end and every cut tile.
WalkInStep ==
    \A t \in Threads : HasPlace(t) =>
        \A a \in DOMAIN job.counts :
            at[t][a] = RowMajor(job.counts, from[t])[a]
                       * (IF job.nest.dynamic THEN 1 ELSE job.tile[a])

\* The chunks thieves have taken from range_length of v, but not yet from its end.
PendingChunks(v) ==
    LET thieves == {t \in Threads : pc[t] = "take" /\ Victim(t) = v}
    IN  Cardinality(UNION {{t} \X (1 .. chunk[t]) : t \in thieves})

\* What the owner of v has claimed from the front of its range.
OwnerPosition(v) == from[v] + (IF pc[v] = "subtract" THEN 0 ELSE chunk[v])

\* range_length counts the items between the owner's position and range_end
\* that nobody has claimed.  Threads that sized their chunk by a look that was
\* out of date may push it below zero, never change what the others get.
ChunkAccounting ==
    \A v \in Threads : v < job.threads /\ ~job.serial =>
        LET unclaimed == Larger(Signed(rangeLength[v]), 0)
        IN  IF pc[v] # "gone" /\ OwnRange(v)
            THEN rangeEnd[v] - OwnerPosition(v) = unclaimed + PendingChunks(v)
            ELSE unclaimed = 0

\* A call lies in the grid, begins on a tile and covers whole tiles.
FitsGrid(c) ==
    \A a \in DOMAIN job.range :
        LET end == c.start[a] + c.size[a]
            unit == job.unit[a]
        IN  /\ c.start[a] \in 0 .. (job.range[a] - 1)
            /\ c.start[a] % unit = 0
            /\ end \in (c.start[a] + 1) .. job.range[a]
            /\ c.size[a] % unit = 0 \/ end = job.range[a]
            /\ job.nest.dynamic \/ c.size[a] <= unit

\* The identifiers tell calls in progress apart, and a uarch that the task was
\* not told to expect is replaced; default_uarch_index itself may be beyond it.
TellsCaller(c, others) ==
    /\ "thread" \in job.nest.ids => \A d \in others : d.thread # c.thread
    /\ c.uarch = DefaultUarch \/ (c.uarch <= MaxUarch /\ ~job.shim)

\* "function(context, i, count) ... where i is in the range [0, range) and a
\* multiple of the provided tile and count is an integer multiple of tile
\* unless i + count == range"; a statically tiled function is passed one tile;
\* the thread and the uarch are those the documentation promises.
CallsKeepContract ==
    \A t \in Threads : call[t] # NoCall =>
        /\ FitsGrid(call[t])
        /\ TellsCaller(call[t], {call[u] : u \in Threads \ {t}} \ {NoCall})

\* "The specified function will be called once for each item", by one thread.
CellsOnce ==
    \A t \in Threads : call[t] # NoCall =>
        LET cells == Cells(call[t].start, call[t].size) IN
        /\ cells \cap done = {}
        /\ \A u \in Threads \ {t} : call[u] # NoCall =>
              cells \cap Cells(call[u].start, call[u].size) = {}

\* "When the function returns, all items have been processed."
GridDone == Over => done = Cells(Zeros(job.range), job.range)

\* The call returns, whoever else comes.
CallEnds == <>(pc[0] = "gone")
==============================================================================
