----------------------------- MODULE LoopProofs -----------------------------
(***************************************************************************)
(* The loops of a call, for every nest the interface offers, every range   *)
(* whose linear_range a ptrdiff_t holds, every tile, number of threads and *)
(* order of their steps: a claimed item is claimed by one thread, the      *)
(* coordinates a thread carries along are those of its item, every call of *)
(* the task keeps the interface's contract, and when the call returns the  *)
(* task has been called on every cell of the grid exactly once.            *)
(*                                                                         *)
(* ClaimInv, the invariant of the claims, says how far each range has been *)
(* taken from its end, between a thread's subtraction from range_length    *)
(* and the one from range_end that follows it.  JobInv adds the account    *)
(* of the items: each one waits in a range, or a thread holds it, or a     *)
(* thread's current call covers it, or its cells have been processed.      *)
(***************************************************************************)
EXTENDS LoopJob, NestProofs, FiniteSetTheorems

-----------------------------------------------------------------------------
(* The functions of the interface: what each runs suits its number of axes.*)

ValidNest(nest, axes) ==
    /\ nest.axes = axes
    /\ nest.dynamic \in BOOLEAN
    /\ IF nest.dynamic THEN nest.tiled \in 1 .. axes ELSE ValidCuts(nest.cuts, axes)

\* The lists of cuts that the functions of the interface use are valid.
LEMMA CutLists ==
    /\ ValidCuts(<<>>, 1)
    /\ ValidCuts(<<1>>, 2)
    /\ ValidCuts(<<2, 1>>, 3)
    /\ ValidCuts(<<2, 1, 3>>, 4)
    /\ ValidCuts(<<3, 2, 4, 1>>, 5)
    /\ ValidCuts(<<4, 2, 1, 3>>, 5)
    /\ ValidCuts(<<3, 2, 5, 1, 4>>, 6)
    /\ ValidCuts(<<4, 2, 5, 1, 3>>, 6)
<1>1. ValidCuts(<<>>, 1)
  BY DEF ValidCuts
<1>2. ValidCuts(<<1>>, 2)
  BY DEF ValidCuts
<1>3. ValidCuts(<<2, 1>>, 3)
  BY DEF ValidCuts
<1>4. ValidCuts(<<2, 1, 3>>, 4)
  BY DEF ValidCuts
<1>5. ValidCuts(<<3, 2, 4, 1>>, 5)
  BY DEF ValidCuts
<1>6. ValidCuts(<<4, 2, 1, 3>>, 5)
  BY DEF ValidCuts
<1>7. ValidCuts(<<3, 2, 5, 1, 4>>, 6)
  BY DEF ValidCuts
<1>8. ValidCuts(<<4, 2, 5, 1, 3>>, 6)
  BY DEF ValidCuts
<1>9. QED
  BY <1>1, <1>2, <1>3, <1>4, <1>5, <1>6, <1>7, <1>8

\* A nest without dynamic chunks suits as many axes as its cuts say.
LEMMA StaticNests ==
    ASSUME NEW cuts, NEW tiled, NEW ids, ValidCuts(cuts, Len(cuts) + 1)
    PROVE  /\ ValidNest(Nest(cuts, tiled, ids), Len(cuts) + 1)
           /\ ValidNest(TaskNest(cuts, tiled), Len(cuts) + 1)
BY DEF ValidNest, Nest, TaskNest

\* A nest with dynamic chunks suits its axes.
LEMMA DynamicNests ==
    ASSUME NEW axes, NEW tiled \in 1 .. axes, NEW ids
    PROVE  ValidNest(DynamicNest(axes, tiled, ids), axes)
BY DEF ValidNest, DynamicNest

\* The two lemmas above, for the lists of cuts in use.
LEMMA ListedNests ==
    \A tiled, ids :
        /\ ValidNest(Nest(<<>>, tiled, ids), 1) /\ ValidNest(TaskNest(<<>>, tiled), 1)
        /\ ValidNest(Nest(<<1>>, tiled, ids), 2) /\ ValidNest(TaskNest(<<1>>, tiled), 2)
        /\ ValidNest(Nest(<<2, 1>>, tiled, ids), 3) /\ ValidNest(TaskNest(<<2, 1>>, tiled), 3)
        /\ ValidNest(Nest(<<2, 1, 3>>, tiled, ids), 4) /\ ValidNest(TaskNest(<<2, 1, 3>>, tiled), 4)
        /\ ValidNest(Nest(<<3, 2, 4, 1>>, tiled, ids), 5) /\ ValidNest(TaskNest(<<3, 2, 4, 1>>, tiled), 5)
        /\ ValidNest(Nest(<<4, 2, 1, 3>>, tiled, ids), 5) /\ ValidNest(TaskNest(<<4, 2, 1, 3>>, tiled), 5)
        /\ ValidNest(Nest(<<3, 2, 5, 1, 4>>, tiled, ids), 6) /\ ValidNest(TaskNest(<<3, 2, 5, 1, 4>>, tiled), 6)
        /\ ValidNest(Nest(<<4, 2, 5, 1, 3>>, tiled, ids), 6) /\ ValidNest(TaskNest(<<4, 2, 5, 1, 3>>, tiled), 6)
<1> TAKE tiled, ids
<1>1. ValidNest(Nest(<<>>, tiled, ids), 1) /\ ValidNest(TaskNest(<<>>, tiled), 1)
  BY CutLists, Len(<<>>) + 1 = 1, StaticNests
<1>2. ValidNest(Nest(<<1>>, tiled, ids), 2) /\ ValidNest(TaskNest(<<1>>, tiled), 2)
  BY CutLists, Len(<<1>>) + 1 = 2, StaticNests
<1>3. ValidNest(Nest(<<2, 1>>, tiled, ids), 3) /\ ValidNest(TaskNest(<<2, 1>>, tiled), 3)
  BY CutLists, Len(<<2, 1>>) + 1 = 3, StaticNests
<1>4. ValidNest(Nest(<<2, 1, 3>>, tiled, ids), 4) /\ ValidNest(TaskNest(<<2, 1, 3>>, tiled), 4)
  BY CutLists, Len(<<2, 1, 3>>) + 1 = 4, StaticNests
<1>5. ValidNest(Nest(<<3, 2, 4, 1>>, tiled, ids), 5) /\ ValidNest(TaskNest(<<3, 2, 4, 1>>, tiled), 5)
  BY CutLists, Len(<<3, 2, 4, 1>>) + 1 = 5, StaticNests
<1>6. ValidNest(Nest(<<4, 2, 1, 3>>, tiled, ids), 5) /\ ValidNest(TaskNest(<<4, 2, 1, 3>>, tiled), 5)
  BY CutLists, Len(<<4, 2, 1, 3>>) + 1 = 5, StaticNests
<1>7. ValidNest(Nest(<<3, 2, 5, 1, 4>>, tiled, ids), 6) /\ ValidNest(TaskNest(<<3, 2, 5, 1, 4>>, tiled), 6)
  BY CutLists, Len(<<3, 2, 5, 1, 4>>) + 1 = 6, StaticNests
<1>8. ValidNest(Nest(<<4, 2, 5, 1, 3>>, tiled, ids), 6) /\ ValidNest(TaskNest(<<4, 2, 5, 1, 3>>, tiled), 6)
  BY CutLists, Len(<<4, 2, 5, 1, 3>>) + 1 = 6, StaticNests
<1>9. QED
  BY <1>1, <1>2, <1>3, <1>4, <1>5, <1>6, <1>7, <1>8

\* The same for the dynamic nests in use.
LEMMA ListedDynamicNests ==
    \A ids :
        /\ ValidNest(DynamicNest(1, 1, ids), 1)
        /\ ValidNest(DynamicNest(2, 1, ids), 2)
        /\ ValidNest(DynamicNest(2, 2, ids), 2)
        /\ ValidNest(DynamicNest(3, 1, ids), 3)
        /\ ValidNest(DynamicNest(3, 2, ids), 3)
        /\ ValidNest(DynamicNest(4, 2, ids), 4)
BY DynamicNests

\* The thread functions that a wrapper names suit their axes.
LEMMA ThreadNests ==
    /\ ValidNest(thread_parallelize_1d, 1)
    /\ ValidNest(thread_parallelize_1d_with_thread, 1)
    /\ ValidNest(thread_parallelize_1d_with_uarch, 1)
    /\ ValidNest(thread_parallelize_1d_tile_1d, 1)
    /\ ValidNest(thread_parallelize_1d_tile_1d_dynamic, 1)
    /\ ValidNest(thread_parallelize_1d_tile_1d_dynamic_with_thread, 1)
    /\ ValidNest(thread_parallelize_1d_tile_1d_dynamic_with_uarch_with_thread, 1)
    /\ ValidNest(thread_parallelize_2d, 2)
    /\ ValidNest(thread_parallelize_2d_with_thread, 2)
    /\ ValidNest(thread_parallelize_2d_tile_1d, 2)
    /\ ValidNest(thread_parallelize_2d_tile_1d_with_uarch, 2)
    /\ ValidNest(thread_parallelize_2d_tile_1d_with_uarch_with_thread, 2)
    /\ ValidNest(thread_parallelize_2d_tile_1d_dynamic, 2)
    /\ ValidNest(thread_parallelize_2d_tile_1d_dynamic_with_thread, 2)
    /\ ValidNest(thread_parallelize_2d_tile_1d_dynamic_with_uarch_with_thread, 2)
    /\ ValidNest(thread_parallelize_2d_tile_2d, 2)
    /\ ValidNest(thread_parallelize_2d_tile_2d_with_uarch, 2)
    /\ ValidNest(thread_parallelize_2d_tile_2d_dynamic, 2)
    /\ ValidNest(thread_parallelize_2d_tile_2d_dynamic_with_uarch, 2)
    /\ ValidNest(thread_parallelize_2d_tile_2d_dynamic_with_thread, 2)
    /\ ValidNest(thread_parallelize_3d, 3)
    /\ ValidNest(thread_parallelize_3d_tile_1d, 3)
    /\ ValidNest(thread_parallelize_3d_tile_1d_with_thread, 3)
    /\ ValidNest(thread_parallelize_3d_tile_1d_with_uarch, 3)
    /\ ValidNest(thread_parallelize_3d_tile_1d_with_uarch_with_thread, 3)
    /\ ValidNest(thread_parallelize_3d_tile_1d_dynamic, 3)
    /\ ValidNest(thread_parallelize_3d_tile_1d_dynamic_with_thread, 3)
    /\ ValidNest(thread_parallelize_3d_tile_1d_dynamic_with_uarch_with_thread, 3)
    /\ ValidNest(thread_parallelize_3d_tile_2d, 3)
    /\ ValidNest(thread_parallelize_3d_tile_2d_with_uarch, 3)
    /\ ValidNest(thread_parallelize_3d_tile_2d_dynamic, 3)
    /\ ValidNest(thread_parallelize_3d_tile_2d_dynamic_with_uarch, 3)
    /\ ValidNest(thread_parallelize_3d_tile_2d_dynamic_with_thread, 3)
    /\ ValidNest(thread_parallelize_4d, 4)
    /\ ValidNest(thread_parallelize_4d_tile_1d, 4)
    /\ ValidNest(thread_parallelize_4d_tile_2d, 4)
    /\ ValidNest(thread_parallelize_4d_tile_2d_with_uarch, 4)
    /\ ValidNest(thread_parallelize_4d_tile_2d_dynamic, 4)
    /\ ValidNest(thread_parallelize_4d_tile_2d_dynamic_with_uarch, 4)
    /\ ValidNest(thread_parallelize_5d, 5)
    /\ ValidNest(thread_parallelize_5d_tile_1d, 5)
    /\ ValidNest(thread_parallelize_5d_tile_2d, 5)
    /\ ValidNest(thread_parallelize_6d, 6)
    /\ ValidNest(thread_parallelize_6d_tile_1d, 6)
    /\ ValidNest(thread_parallelize_6d_tile_2d, 6)
    /\ ValidNest(pthreadpool_thread_parallelize_1d_fastpath, 1)
    /\ ValidNest(pthreadpool_thread_parallelize_1d_with_thread_fastpath, 1)
    /\ ValidNest(pthreadpool_thread_parallelize_1d_with_uarch_fastpath, 1)
    /\ ValidNest(pthreadpool_thread_parallelize_1d_tile_1d_fastpath, 1)
    /\ ValidNest(pthreadpool_thread_parallelize_2d_fastpath, 2)
    /\ ValidNest(pthreadpool_thread_parallelize_2d_with_thread_fastpath, 2)
    /\ ValidNest(pthreadpool_thread_parallelize_2d_tile_1d_fastpath, 2)
    /\ ValidNest(pthreadpool_thread_parallelize_2d_tile_1d_with_uarch_fastpath, 2)
    /\ ValidNest(pthreadpool_thread_parallelize_2d_tile_1d_with_uarch_with_thread_fastpath, 2)
    /\ ValidNest(pthreadpool_thread_parallelize_2d_tile_2d_fastpath, 2)
    /\ ValidNest(pthreadpool_thread_parallelize_2d_tile_2d_with_uarch_fastpath, 2)
    /\ ValidNest(pthreadpool_thread_parallelize_3d_fastpath, 3)
    /\ ValidNest(pthreadpool_thread_parallelize_3d_tile_1d_fastpath, 3)
    /\ ValidNest(pthreadpool_thread_parallelize_3d_tile_1d_with_thread_fastpath, 3)
    /\ ValidNest(pthreadpool_thread_parallelize_3d_tile_1d_with_uarch_fastpath, 3)
    /\ ValidNest(pthreadpool_thread_parallelize_3d_tile_1d_with_uarch_with_thread_fastpath, 3)
    /\ ValidNest(pthreadpool_thread_parallelize_3d_tile_2d_fastpath, 3)
    /\ ValidNest(pthreadpool_thread_parallelize_3d_tile_2d_with_uarch_fastpath, 3)
    /\ ValidNest(pthreadpool_thread_parallelize_4d_fastpath, 4)
    /\ ValidNest(pthreadpool_thread_parallelize_4d_tile_1d_fastpath, 4)
    /\ ValidNest(pthreadpool_thread_parallelize_4d_tile_2d_fastpath, 4)
    /\ ValidNest(pthreadpool_thread_parallelize_4d_tile_2d_with_uarch_fastpath, 4)
    /\ ValidNest(pthreadpool_thread_parallelize_5d_fastpath, 5)
    /\ ValidNest(pthreadpool_thread_parallelize_5d_tile_1d_fastpath, 5)
    /\ ValidNest(pthreadpool_thread_parallelize_5d_tile_2d_fastpath, 5)
    /\ ValidNest(pthreadpool_thread_parallelize_6d_fastpath, 6)
    /\ ValidNest(pthreadpool_thread_parallelize_6d_tile_1d_fastpath, 6)
    /\ ValidNest(pthreadpool_thread_parallelize_6d_tile_2d_fastpath, 6)
    /\ ValidNest(compute_3d_tiled, 3)
    /\ ValidNest(compute_4d_tiled, 4)
BY ListedNests, ListedDynamicNests DEF
        thread_parallelize_1d, thread_parallelize_1d_with_thread,
        thread_parallelize_1d_with_uarch, thread_parallelize_1d_tile_1d,
        thread_parallelize_1d_tile_1d_dynamic,
        thread_parallelize_1d_tile_1d_dynamic_with_thread,
        thread_parallelize_1d_tile_1d_dynamic_with_uarch_with_thread, thread_parallelize_2d,
        thread_parallelize_2d_with_thread, thread_parallelize_2d_tile_1d,
        thread_parallelize_2d_tile_1d_with_uarch,
        thread_parallelize_2d_tile_1d_with_uarch_with_thread,
        thread_parallelize_2d_tile_1d_dynamic,
        thread_parallelize_2d_tile_1d_dynamic_with_thread,
        thread_parallelize_2d_tile_1d_dynamic_with_uarch_with_thread,
        thread_parallelize_2d_tile_2d, thread_parallelize_2d_tile_2d_with_uarch,
        thread_parallelize_2d_tile_2d_dynamic,
        thread_parallelize_2d_tile_2d_dynamic_with_uarch,
        thread_parallelize_2d_tile_2d_dynamic_with_thread, thread_parallelize_3d,
        thread_parallelize_3d_tile_1d, thread_parallelize_3d_tile_1d_with_thread,
        thread_parallelize_3d_tile_1d_with_uarch,
        thread_parallelize_3d_tile_1d_with_uarch_with_thread,
        thread_parallelize_3d_tile_1d_dynamic,
        thread_parallelize_3d_tile_1d_dynamic_with_thread,
        thread_parallelize_3d_tile_1d_dynamic_with_uarch_with_thread,
        thread_parallelize_3d_tile_2d, thread_parallelize_3d_tile_2d_with_uarch,
        thread_parallelize_3d_tile_2d_dynamic,
        thread_parallelize_3d_tile_2d_dynamic_with_uarch,
        thread_parallelize_3d_tile_2d_dynamic_with_thread, thread_parallelize_4d,
        thread_parallelize_4d_tile_1d, thread_parallelize_4d_tile_2d,
        thread_parallelize_4d_tile_2d_with_uarch, thread_parallelize_4d_tile_2d_dynamic,
        thread_parallelize_4d_tile_2d_dynamic_with_uarch, thread_parallelize_5d,
        thread_parallelize_5d_tile_1d, thread_parallelize_5d_tile_2d, thread_parallelize_6d,
        thread_parallelize_6d_tile_1d, thread_parallelize_6d_tile_2d,
        pthreadpool_thread_parallelize_1d_fastpath,
        pthreadpool_thread_parallelize_1d_with_thread_fastpath,
        pthreadpool_thread_parallelize_1d_with_uarch_fastpath,
        pthreadpool_thread_parallelize_1d_tile_1d_fastpath,
        pthreadpool_thread_parallelize_2d_fastpath,
        pthreadpool_thread_parallelize_2d_with_thread_fastpath,
        pthreadpool_thread_parallelize_2d_tile_1d_fastpath,
        pthreadpool_thread_parallelize_2d_tile_1d_with_uarch_fastpath,
        pthreadpool_thread_parallelize_2d_tile_1d_with_uarch_with_thread_fastpath,
        pthreadpool_thread_parallelize_2d_tile_2d_fastpath,
        pthreadpool_thread_parallelize_2d_tile_2d_with_uarch_fastpath,
        pthreadpool_thread_parallelize_3d_fastpath,
        pthreadpool_thread_parallelize_3d_tile_1d_fastpath,
        pthreadpool_thread_parallelize_3d_tile_1d_with_thread_fastpath,
        pthreadpool_thread_parallelize_3d_tile_1d_with_uarch_fastpath,
        pthreadpool_thread_parallelize_3d_tile_1d_with_uarch_with_thread_fastpath,
        pthreadpool_thread_parallelize_3d_tile_2d_fastpath,
        pthreadpool_thread_parallelize_3d_tile_2d_with_uarch_fastpath,
        pthreadpool_thread_parallelize_4d_fastpath,
        pthreadpool_thread_parallelize_4d_tile_1d_fastpath,
        pthreadpool_thread_parallelize_4d_tile_2d_fastpath,
        pthreadpool_thread_parallelize_4d_tile_2d_with_uarch_fastpath,
        pthreadpool_thread_parallelize_5d_fastpath,
        pthreadpool_thread_parallelize_5d_tile_1d_fastpath,
        pthreadpool_thread_parallelize_5d_tile_2d_fastpath,
        pthreadpool_thread_parallelize_6d_fastpath,
        pthreadpool_thread_parallelize_6d_tile_1d_fastpath,
        pthreadpool_thread_parallelize_6d_tile_2d_fastpath, compute_3d_tiled, compute_4d_tiled

\* What a wrapper gives its threads, fast path or not, suits its ranges.
ValidWrapper(f) ==
    /\ f.serial = FALSE
    /\ ValidNest(f.run, f.run.axes) /\ ValidNest(f.fast, f.run.axes)

\* A wrapper is valid when the thread functions it chooses from are.
LEMMA Wrappers ==
    ASSUME NEW run, NEW fast, NEW axes, ValidNest(run, axes), ValidNest(fast, axes)
    PROVE  /\ ValidWrapper(Wrapper(run, fast))
           /\ ValidWrapper(DynamicWrapper(run))
           /\ ValidWrapper(LegacyWrapper(run))
BY DEF ValidWrapper, Wrapper, DynamicWrapper, LegacyWrapper, ValidNest

\* So every function of the interface runs nests of its own number of axes.
LEMMA PublicWrappers == \A f \in PublicFunctions : ValidWrapper(f)
<1>1. /\ ValidWrapper(pthreadpool_parallelize_1d)
      /\ ValidWrapper(pthreadpool_parallelize_1d_with_thread)
      /\ ValidWrapper(pthreadpool_parallelize_1d_with_uarch)
      /\ ValidWrapper(pthreadpool_parallelize_1d_tile_1d)
      /\ ValidWrapper(pthreadpool_parallelize_1d_tile_1d_dynamic)
      /\ ValidWrapper(pthreadpool_parallelize_1d_tile_1d_dynamic_with_thread)
      /\ ValidWrapper(pthreadpool_parallelize_1d_tile_1d_dynamic_with_uarch_with_thread)
      /\ ValidWrapper(pthreadpool_parallelize_2d)
      /\ ValidWrapper(pthreadpool_parallelize_2d_with_thread)
      /\ ValidWrapper(pthreadpool_parallelize_2d_tile_1d)
      /\ ValidWrapper(pthreadpool_parallelize_2d_tile_1d_with_uarch)
      /\ ValidWrapper(pthreadpool_parallelize_2d_tile_1d_with_uarch_with_thread)
      /\ ValidWrapper(pthreadpool_parallelize_2d_tile_1d_dynamic)
      /\ ValidWrapper(pthreadpool_parallelize_2d_tile_1d_dynamic_with_thread)
      /\ ValidWrapper(pthreadpool_parallelize_2d_tile_1d_dynamic_with_uarch_with_thread)
      /\ ValidWrapper(pthreadpool_parallelize_2d_tile_2d)
      /\ ValidWrapper(pthreadpool_parallelize_2d_tile_2d_dynamic)
      /\ ValidWrapper(pthreadpool_parallelize_2d_tile_2d_dynamic_with_uarch)
      /\ ValidWrapper(pthreadpool_parallelize_2d_tile_2d_dynamic_with_thread)
      /\ ValidWrapper(pthreadpool_parallelize_2d_tile_2d_with_uarch)
      /\ ValidWrapper(pthreadpool_parallelize_3d)
      /\ ValidWrapper(pthreadpool_parallelize_3d_tile_1d)
      /\ ValidWrapper(pthreadpool_parallelize_3d_tile_1d_with_thread)
      /\ ValidWrapper(pthreadpool_parallelize_3d_tile_1d_with_uarch)
      /\ ValidWrapper(pthreadpool_parallelize_3d_tile_1d_with_uarch_with_thread)
      /\ ValidWrapper(pthreadpool_parallelize_3d_tile_1d_dynamic)
      /\ ValidWrapper(pthreadpool_parallelize_3d_tile_1d_dynamic_with_thread)
      /\ ValidWrapper(pthreadpool_parallelize_3d_tile_1d_dynamic_with_uarch_with_thread)
      /\ ValidWrapper(pthreadpool_parallelize_3d_tile_2d)
      /\ ValidWrapper(pthreadpool_parallelize_3d_tile_2d_dynamic)
      /\ ValidWrapper(pthreadpool_parallelize_3d_tile_2d_dynamic_with_uarch)
      /\ ValidWrapper(pthreadpool_parallelize_3d_tile_2d_dynamic_with_thread)
      /\ ValidWrapper(pthreadpool_parallelize_3d_tile_2d_with_uarch)
      /\ ValidWrapper(pthreadpool_parallelize_4d)
      /\ ValidWrapper(pthreadpool_parallelize_4d_tile_1d)
      /\ ValidWrapper(pthreadpool_parallelize_4d_tile_2d)
      /\ ValidWrapper(pthreadpool_parallelize_4d_tile_2d_with_uarch)
      /\ ValidWrapper(pthreadpool_parallelize_4d_tile_2d_dynamic)
      /\ ValidWrapper(pthreadpool_parallelize_4d_tile_2d_dynamic_with_uarch)
      /\ ValidWrapper(pthreadpool_parallelize_5d)
      /\ ValidWrapper(pthreadpool_parallelize_5d_tile_1d)
      /\ ValidWrapper(pthreadpool_parallelize_5d_tile_2d)
      /\ ValidWrapper(pthreadpool_parallelize_6d)
      /\ ValidWrapper(pthreadpool_parallelize_6d_tile_1d)
      /\ ValidWrapper(pthreadpool_parallelize_6d_tile_2d)
      /\ ValidWrapper(pthreadpool_compute_1d)
      /\ ValidWrapper(pthreadpool_compute_1d_tiled)
      /\ ValidWrapper(pthreadpool_compute_2d)
      /\ ValidWrapper(pthreadpool_compute_2d_tiled)
      /\ ValidWrapper(pthreadpool_compute_3d_tiled)
      /\ ValidWrapper(pthreadpool_compute_4d_tiled)
  BY Wrappers, ThreadNests DEF
        pthreadpool_parallelize_1d, pthreadpool_parallelize_1d_with_thread,
        pthreadpool_parallelize_1d_with_uarch, pthreadpool_parallelize_1d_tile_1d,
        pthreadpool_parallelize_1d_tile_1d_dynamic,
        pthreadpool_parallelize_1d_tile_1d_dynamic_with_thread,
        pthreadpool_parallelize_1d_tile_1d_dynamic_with_uarch_with_thread,
        pthreadpool_parallelize_2d, pthreadpool_parallelize_2d_with_thread,
        pthreadpool_parallelize_2d_tile_1d, pthreadpool_parallelize_2d_tile_1d_with_uarch,
        pthreadpool_parallelize_2d_tile_1d_with_uarch_with_thread,
        pthreadpool_parallelize_2d_tile_1d_dynamic,
        pthreadpool_parallelize_2d_tile_1d_dynamic_with_thread,
        pthreadpool_parallelize_2d_tile_1d_dynamic_with_uarch_with_thread,
        pthreadpool_parallelize_2d_tile_2d, pthreadpool_parallelize_2d_tile_2d_dynamic,
        pthreadpool_parallelize_2d_tile_2d_dynamic_with_uarch,
        pthreadpool_parallelize_2d_tile_2d_dynamic_with_thread,
        pthreadpool_parallelize_2d_tile_2d_with_uarch, pthreadpool_parallelize_3d,
        pthreadpool_parallelize_3d_tile_1d, pthreadpool_parallelize_3d_tile_1d_with_thread,
        pthreadpool_parallelize_3d_tile_1d_with_uarch,
        pthreadpool_parallelize_3d_tile_1d_with_uarch_with_thread,
        pthreadpool_parallelize_3d_tile_1d_dynamic,
        pthreadpool_parallelize_3d_tile_1d_dynamic_with_thread,
        pthreadpool_parallelize_3d_tile_1d_dynamic_with_uarch_with_thread,
        pthreadpool_parallelize_3d_tile_2d, pthreadpool_parallelize_3d_tile_2d_dynamic,
        pthreadpool_parallelize_3d_tile_2d_dynamic_with_uarch,
        pthreadpool_parallelize_3d_tile_2d_dynamic_with_thread,
        pthreadpool_parallelize_3d_tile_2d_with_uarch, pthreadpool_parallelize_4d,
        pthreadpool_parallelize_4d_tile_1d, pthreadpool_parallelize_4d_tile_2d,
        pthreadpool_parallelize_4d_tile_2d_with_uarch,
        pthreadpool_parallelize_4d_tile_2d_dynamic,
        pthreadpool_parallelize_4d_tile_2d_dynamic_with_uarch, pthreadpool_parallelize_5d,
        pthreadpool_parallelize_5d_tile_1d, pthreadpool_parallelize_5d_tile_2d,
        pthreadpool_parallelize_6d, pthreadpool_parallelize_6d_tile_1d,
        pthreadpool_parallelize_6d_tile_2d, pthreadpool_compute_1d,
        pthreadpool_compute_1d_tiled, pthreadpool_compute_2d, pthreadpool_compute_2d_tiled,
        pthreadpool_compute_3d_tiled, pthreadpool_compute_4d_tiled
<1>2. QED
  BY <1>1 DEF PublicFunctions

\* The shim's functions run everything on the caller.
LEMMA ShimWrappers ==
    \A f \in Shim!ShimFunctions :
        f.serial = TRUE /\ f.run.dynamic \in BOOLEAN /\ f.fast = f.run
<1> DEFINE Alone(f) == f.serial = TRUE /\ f.run.dynamic \in BOOLEAN /\ f.fast = f.run
<1>1. ASSUME NEW axes, NEW tiled, NEW ids
      PROVE  /\ Alone(Shim!SerialNest(axes, tiled, ids))
             /\ Alone(Shim!SerialDynamicNest(axes, tiled, ids))
  <2>1. Alone(Shim!SerialNest(axes, tiled, ids))
    BY DEF Shim!SerialNest, Shim!DynamicNest
  <2>2. Alone(Shim!SerialDynamicNest(axes, tiled, ids))
    BY DEF Shim!SerialDynamicNest, Shim!DynamicNest, Shim!DynamicWrapper
  <2>3. QED
    BY <2>1, <2>2
<1> HIDE DEF Alone
<1>2. /\ Alone(Shim!pthreadpool_parallelize_1d)
      /\ Alone(Shim!pthreadpool_parallelize_1d_with_thread)
      /\ Alone(Shim!pthreadpool_parallelize_1d_with_uarch)
      /\ Alone(Shim!pthreadpool_parallelize_1d_tile_1d)
      /\ Alone(Shim!pthreadpool_parallelize_1d_tile_1d_dynamic)
      /\ Alone(Shim!pthreadpool_parallelize_1d_tile_1d_dynamic_with_thread)
      /\ Alone(Shim!pthreadpool_parallelize_1d_tile_1d_dynamic_with_uarch_with_thread)
      /\ Alone(Shim!pthreadpool_parallelize_2d)
      /\ Alone(Shim!pthreadpool_parallelize_2d_with_thread)
      /\ Alone(Shim!pthreadpool_parallelize_2d_tile_1d)
      /\ Alone(Shim!pthreadpool_parallelize_2d_tile_1d_with_uarch)
      /\ Alone(Shim!pthreadpool_parallelize_2d_tile_1d_with_uarch_with_thread)
      /\ Alone(Shim!pthreadpool_parallelize_2d_tile_1d_dynamic)
      /\ Alone(Shim!pthreadpool_parallelize_2d_tile_1d_dynamic_with_thread)
      /\ Alone(Shim!pthreadpool_parallelize_2d_tile_1d_dynamic_with_uarch_with_thread)
      /\ Alone(Shim!pthreadpool_parallelize_2d_tile_2d)
      /\ Alone(Shim!pthreadpool_parallelize_2d_tile_2d_with_uarch)
      /\ Alone(Shim!pthreadpool_parallelize_2d_tile_2d_dynamic)
      /\ Alone(Shim!pthreadpool_parallelize_2d_tile_2d_dynamic_with_uarch)
      /\ Alone(Shim!pthreadpool_parallelize_2d_tile_2d_dynamic_with_thread)
      /\ Alone(Shim!pthreadpool_parallelize_3d)
      /\ Alone(Shim!pthreadpool_parallelize_3d_tile_1d)
      /\ Alone(Shim!pthreadpool_parallelize_3d_tile_1d_with_thread)
      /\ Alone(Shim!pthreadpool_parallelize_3d_tile_1d_with_uarch)
      /\ Alone(Shim!pthreadpool_parallelize_3d_tile_1d_with_uarch_with_thread)
      /\ Alone(Shim!pthreadpool_parallelize_3d_tile_2d)
      /\ Alone(Shim!pthreadpool_parallelize_3d_tile_1d_dynamic)
      /\ Alone(Shim!pthreadpool_parallelize_3d_tile_1d_dynamic_with_thread)
      /\ Alone(Shim!pthreadpool_parallelize_3d_tile_1d_dynamic_with_uarch_with_thread)
      /\ Alone(Shim!pthreadpool_parallelize_3d_tile_2d_with_uarch)
      /\ Alone(Shim!pthreadpool_parallelize_3d_tile_2d_dynamic)
      /\ Alone(Shim!pthreadpool_parallelize_3d_tile_2d_dynamic_with_thread)
      /\ Alone(Shim!pthreadpool_parallelize_4d)
      /\ Alone(Shim!pthreadpool_parallelize_4d_tile_1d)
      /\ Alone(Shim!pthreadpool_parallelize_4d_tile_2d)
      /\ Alone(Shim!pthreadpool_parallelize_4d_tile_2d_with_uarch)
      /\ Alone(Shim!pthreadpool_parallelize_4d_tile_2d_dynamic)
      /\ Alone(Shim!pthreadpool_parallelize_4d_tile_2d_dynamic_with_uarch)
      /\ Alone(Shim!pthreadpool_parallelize_5d)
      /\ Alone(Shim!pthreadpool_parallelize_5d_tile_1d)
      /\ Alone(Shim!pthreadpool_parallelize_5d_tile_2d)
      /\ Alone(Shim!pthreadpool_parallelize_6d)
      /\ Alone(Shim!pthreadpool_parallelize_6d_tile_1d)
      /\ Alone(Shim!pthreadpool_parallelize_6d_tile_2d)
  BY <1>1 DEF
        Shim!pthreadpool_parallelize_1d, Shim!pthreadpool_parallelize_1d_with_thread,
        Shim!pthreadpool_parallelize_1d_with_uarch, Shim!pthreadpool_parallelize_1d_tile_1d,
        Shim!pthreadpool_parallelize_1d_tile_1d_dynamic,
        Shim!pthreadpool_parallelize_1d_tile_1d_dynamic_with_thread,
        Shim!pthreadpool_parallelize_1d_tile_1d_dynamic_with_uarch_with_thread,
        Shim!pthreadpool_parallelize_2d, Shim!pthreadpool_parallelize_2d_with_thread,
        Shim!pthreadpool_parallelize_2d_tile_1d,
        Shim!pthreadpool_parallelize_2d_tile_1d_with_uarch,
        Shim!pthreadpool_parallelize_2d_tile_1d_with_uarch_with_thread,
        Shim!pthreadpool_parallelize_2d_tile_1d_dynamic,
        Shim!pthreadpool_parallelize_2d_tile_1d_dynamic_with_thread,
        Shim!pthreadpool_parallelize_2d_tile_1d_dynamic_with_uarch_with_thread,
        Shim!pthreadpool_parallelize_2d_tile_2d,
        Shim!pthreadpool_parallelize_2d_tile_2d_with_uarch,
        Shim!pthreadpool_parallelize_2d_tile_2d_dynamic,
        Shim!pthreadpool_parallelize_2d_tile_2d_dynamic_with_uarch,
        Shim!pthreadpool_parallelize_2d_tile_2d_dynamic_with_thread,
        Shim!pthreadpool_parallelize_3d, Shim!pthreadpool_parallelize_3d_tile_1d,
        Shim!pthreadpool_parallelize_3d_tile_1d_with_thread,
        Shim!pthreadpool_parallelize_3d_tile_1d_with_uarch,
        Shim!pthreadpool_parallelize_3d_tile_1d_with_uarch_with_thread,
        Shim!pthreadpool_parallelize_3d_tile_2d,
        Shim!pthreadpool_parallelize_3d_tile_1d_dynamic,
        Shim!pthreadpool_parallelize_3d_tile_1d_dynamic_with_thread,
        Shim!pthreadpool_parallelize_3d_tile_1d_dynamic_with_uarch_with_thread,
        Shim!pthreadpool_parallelize_3d_tile_2d_with_uarch,
        Shim!pthreadpool_parallelize_3d_tile_2d_dynamic,
        Shim!pthreadpool_parallelize_3d_tile_2d_dynamic_with_thread,
        Shim!pthreadpool_parallelize_4d, Shim!pthreadpool_parallelize_4d_tile_1d,
        Shim!pthreadpool_parallelize_4d_tile_2d,
        Shim!pthreadpool_parallelize_4d_tile_2d_with_uarch,
        Shim!pthreadpool_parallelize_4d_tile_2d_dynamic,
        Shim!pthreadpool_parallelize_4d_tile_2d_dynamic_with_uarch,
        Shim!pthreadpool_parallelize_5d, Shim!pthreadpool_parallelize_5d_tile_1d,
        Shim!pthreadpool_parallelize_5d_tile_2d, Shim!pthreadpool_parallelize_6d,
        Shim!pthreadpool_parallelize_6d_tile_1d, Shim!pthreadpool_parallelize_6d_tile_2d
<1>3. \A f \in Shim!ShimFunctions : Alone(f)
  BY <1>2 DEF Shim!ShimFunctions
<1>4. QED
  BY <1>3 DEF Alone

-----------------------------------------------------------------------------
(* What a call is.                                                         *)

\* A wrapper's call: a grid that its tiles cover, and for the threads, if it
\* has any run it, no more of them than tiles and a nest of as many axes.
GoodJob(j) ==
    /\ IsGrid(j.range, j.unit) /\ IsGrid(j.range, j.tile)
    /\ j.counts = TileCounts(j.range, j.unit)
    /\ 2 * Linear(j.counts) < SizeModulus
    /\ j.nest.dynamic \in BOOLEAN
    /\ j.serial \in BOOLEAN
    /\ j.threads \in 1 .. MaxThreads
    /\ IF j.serial
       THEN /\ \A a \in 1 .. Len(j.range) : j.tile[a] \in {j.unit[a], j.range[a]}
            /\ ~j.nest.dynamic => j.tile = j.unit
       ELSE /\ j.tile = j.unit /\ ~j.shim
            /\ ValidNest(j.nest, Len(j.range))
            /\ j.threads <= Linear(j.counts)

\* The ranges and tiles of a call form a grid.
LEMMA ShapeGrid ==
    ASSUME NEW s \in Shapes
    PROVE  IsGrid(s.range, s.tile)
<1>1. /\ s.range \in Seq(Nat \ {0}) /\ Len(s.range) # 0
      /\ s.tile \in Seq(Nat \ {0}) /\ Len(s.tile) = Len(s.range)
  <2>1. s.range \in Seq(Nat \ {0}) /\ s.range # <<>>
    BY ShapesAssumption
  <2>2. Len(s.range) # 0
    BY <2>1
  <2>3. QED
    BY <2>1, <2>2, ShapesAssumption
<1> DEFINE d == Len(s.range)
<1>2. d \in Nat \ {0} /\ s.range \in [1 .. d -> Nat \ {0}] /\ s.tile \in [1 .. d -> Nat \ {0}]
  BY <1>1
<1> HIDE DEF d
<1>3. s.range \in Counts /\ s.tile \in Counts
  BY <1>2 DEF Counts
<1>4. QED
  BY <1>1, <1>3 DEF IsGrid

\* So do the tiles that the serial loop uses: those of the call, or whole axes.
LEMMA SerialTileType ==
    ASSUME NEW s \in Shapes, NEW nest, nest.dynamic \in BOOLEAN
    PROVE  /\ IsGrid(s.range, SerialTile(nest, s))
           /\ \A a \in 1 .. Len(s.range) : SerialTile(nest, s)[a] \in {s.tile[a], s.range[a]}
           /\ ~nest.dynamic => SerialTile(nest, s) = s.tile
<1> DEFINE d == Len(s.range)
           tile == SerialTile(nest, s)
<1>1. IsGrid(s.range, s.tile)
  BY ShapeGrid
<1>2. d \in Nat \ {0} /\ Len(s.tile) = d /\ DOMAIN s.tile = 1 .. d
  BY <1>1, CountsFacts DEF IsGrid
<1>3. ~nest.dynamic => tile = s.tile
  BY DEF SerialTile
<1>4. CASE nest.dynamic
  <2>1. PICK group : tile = [a \in 1 .. d |-> IF a >= group THEN s.range[a] ELSE s.tile[a]]
    BY <1>2, <1>4 DEF SerialTile
  <2>2. \A a \in 1 .. d : tile[a] \in {s.tile[a], s.range[a]}
    BY <2>1
  <2>3. \A a \in 1 .. d : s.tile[a] \in Nat \ {0} /\ s.range[a] \in Nat \ {0}
    <3>1. \A a \in 1 .. d : s.tile[a] \in Nat /\ s.tile[a] > 0 /\ s.range[a] \in Nat /\ s.range[a] > 0
      BY <1>1, <1>2, CountsFacts DEF IsGrid
    <3>2. QED
      BY <3>1
  <2>4. tile \in [1 .. d -> Nat \ {0}]
    BY <2>1, <2>3
  <2>5. Len(tile) = d
    BY <1>2, <2>4
  <2>6. QED
    BY <1>1, <1>2, <1>4, <2>2, <2>4, <2>5 DEF IsGrid, Counts
<1>5. QED
  BY <1>1, <1>3, <1>4

\* Every job that a call of the interface starts is well formed.
LEMMA JobIsGood == \A j \in Jobs : GoodJob(j)
<1> SUFFICES ASSUME NEW j \in Jobs PROVE GoodJob(j)
  OBVIOUS
<1>0. PICK f \in PublicFunctions \cup Shim!ShimFunctions, s \in Shapes :
          f.run.axes = Len(s.range) /\ \E nest \in NestsOf(f, s) : j = JobOf(f, nest, s)
  BY DEF Jobs
<1>1. PICK nest \in NestsOf(f, s) : f.run.axes = Len(s.range) /\ j = JobOf(f, nest, s)
  BY <1>0
<1>2. nest = f.run \/ nest = f.fast
  BY DEF NestsOf
<1>3. /\ f.serial \in BOOLEAN /\ nest.dynamic \in BOOLEAN
      /\ ~f.serial => ValidNest(nest, Len(s.range))
  <2>1. CASE f \in PublicFunctions
    BY <1>1, <1>2, <2>1, PublicWrappers DEF ValidWrapper, ValidNest
  <2>2. CASE f \in Shim!ShimFunctions
    BY <1>2, <2>2, ShimWrappers
  <2>3. QED
    BY <2>1, <2>2
<1> DEFINE counts == TileCounts(s.range, s.tile)
           serial == f.serial \/ s.threads <= 1 \/ OneTile(s)
<1>4. serial \in BOOLEAN
  BY <1>3 DEF OneTile
<1>5. /\ j.nest = nest /\ j.range = s.range /\ j.unit = s.tile /\ j.counts = counts
      /\ j.serial = serial /\ j.shim = f.serial
      /\ j.tile = (IF serial THEN SerialTile(nest, s) ELSE s.tile)
      /\ j.threads = IF serial THEN 1 ELSE Smaller(Linear(counts), s.threads)
  BY <1>1 DEF JobOf
<1>6. IsGrid(s.range, s.tile)
  BY ShapeGrid
<1>7. Linear(counts) \in Nat \ {0} /\ 2 * Linear(counts) < SizeModulus
  BY <1>6, TileCountsType, LinearFacts, SizeAssumption
<1>8. s.threads \in 1 .. MaxThreads /\ MaxThreads \in Nat
  BY ShapesAssumption
<1>9. j.threads \in 1 .. MaxThreads
  BY <1>5, <1>7, <1>8 DEF Smaller
<1>10. IsGrid(j.range, j.tile)
  BY <1>3, <1>4, <1>5, <1>6, SerialTileType
<1> HIDE DEF serial, counts
<1>11. CASE serial
  BY <1>3, <1>4, <1>5, <1>6, <1>7, <1>9, <1>10, <1>11, SerialTileType DEF GoodJob, counts
<1>12. CASE ~serial
  <2>1. j.threads <= Linear(j.counts)
    BY <1>5, <1>7, <1>8, <1>12 DEF Smaller
  <2>2. ~f.serial
    BY <1>3, <1>12 DEF serial
  <2>3. QED
    BY <1>3, <1>4, <1>5, <1>6, <1>7, <1>9, <1>10, <1>12, <2>1, <2>2 DEF GoodJob, counts
<1>13. QED
  BY <1>4, <1>11, <1>12

-----------------------------------------------------------------------------
(* The ranges the threads are dealt: they follow one another.              *)

\* The items are dealt out in consecutive ranges, none of them empty.
LEMMA Deal ==
    ASSUME NEW j, GoodJob(j), ~j.serial, NEW t \in 0 .. (j.threads - 1)
    PROVE  /\ LengthOf(j, t) \in Nat \ {0} /\ StartOf(j, t) \in Nat
           /\ StartOf(j, t) + LengthOf(j, t) = StartOf(j, t + 1)
           /\ StartOf(j, 0) = 0 /\ StartOf(j, j.threads) = Linear(j.counts)
           /\ LengthOf(j, t) <= (Linear(j.counts) \div j.threads) + 1
           /\ \A u \in 0 .. j.threads : t < u => StartOf(j, t + 1) <= StartOf(j, u)
<1> DEFINE N == Linear(j.counts)
           T == j.threads
           q == N \div T
           r == N % T
           Place(u) == u * q + Smaller(u, r)
<1>1. N \in Nat \ {0} /\ T \in Nat \ {0} /\ T <= N
  <2>1. j.counts \in Counts
    BY TileCountsType DEF GoodJob
  <2>2. QED
    BY <2>1, LinearFacts DEF GoodJob
<1>2. q \in Nat /\ r \in 0 .. (T - 1) /\ N = q * T + r
  BY <1>1, Division
<1>3. /\ LengthOf(j, t) = q + (IF t < r THEN 1 ELSE 0)
      /\ \A u \in 0 .. (T - 1) : StartOf(j, u) = Place(u)
      /\ StartOf(j, T) = N
  BY <1>1 DEF LengthOf, StartOf
<1> HIDE DEF q, r, N, T
<1>4. q # 0
  <2>1. q = 0 => q * T = 0
    BY <1>1
  <2>2. QED
    BY <1>1, <1>2, <2>1
<1>5. Place(T) = N
  <2>1. T * q = q * T
    BY <1>1, <1>2
  <2>2. QED
    BY <1>1, <1>2, <2>1 DEF Smaller
<1>6. t \in 0 .. (T - 1)
  BY DEF T
<1>7. \A u \in 0 .. T : StartOf(j, u) = Place(u)
  BY <1>1, <1>3, <1>5
<1>8. \A u \in Nat : u * q \in Nat /\ Place(u) \in Nat
  BY <1>2 DEF Smaller
<1>9. Place(t + 1) = Place(t) + LengthOf(j, t)
  <2>1. (t + 1) * q = t * q + q
    BY <1>2, <1>6
  <2>2. QED
    BY <1>2, <1>3, <1>6, <1>8, <2>1 DEF Smaller
<1>10. \A u \in 0 .. T : t < u => Place(t + 1) <= Place(u)
  <2> SUFFICES ASSUME NEW u \in 0 .. T, t < u PROVE Place(t + 1) <= Place(u)
    OBVIOUS
  <2>1. (t + 1) * q <= u * q
    <3>1. \A x, y, z \in Nat : x <= y => x * z <= y * z
      OBVIOUS
    <3>2. t + 1 \in Nat /\ u \in Nat /\ t + 1 <= u
      BY <1>1, <1>6
    <3>3. QED
      BY <1>2, <3>1, <3>2
  <2>2. t + 1 \in Nat /\ u \in Nat
    BY <1>1, <1>6
  <2>3. QED
    BY <1>2, <1>6, <1>8, <2>1, <2>2 DEF Smaller
<1>11. Place(0) = 0
  BY <1>2 DEF Smaller
<1>12. LengthOf(j, t) \in Nat \ {0} /\ LengthOf(j, t) <= q + 1
  BY <1>2, <1>3, <1>4
<1>13. StartOf(j, t) = Place(t) /\ StartOf(j, t + 1) = Place(t + 1) /\ StartOf(j, 0) = Place(0)
       /\ Place(t) \in Nat
  BY <1>1, <1>6, <1>7, <1>8
<1>14. QED
  BY <1>3, <1>7, <1>9, <1>10, <1>11, <1>12, <1>13 DEF q, N, T

\* Every item is in one of the ranges.
LEMMA DealtItem ==
    ASSUME NEW j, GoodJob(j), ~j.serial, NEW n \in 0 .. (Linear(j.counts) - 1)
    PROVE  \E t \in 0 .. (j.threads - 1) :
               StartOf(j, t) <= n /\ n < StartOf(j, t) + LengthOf(j, t)
<1> DEFINE T == j.threads
           S == {t \in 0 .. (T - 1) : StartOf(j, t) <= n}
<1>1. T \in Nat \ {0} /\ Linear(j.counts) \in Nat
  <2>1. j.counts \in Counts
    BY TileCountsType DEF GoodJob
  <2>2. QED
    BY <2>1, LinearFacts DEF GoodJob
<1>2. 0 \in 0 .. (T - 1) /\ StartOf(j, 0) = 0 /\ 0 \in S
  <2>1. 0 \in 0 .. (T - 1)
    BY <1>1
  <2>2. StartOf(j, 0) = 0
    BY <2>1, Deal
  <2>3. QED
    BY <1>1, <2>1, <2>2
<1>3. T - 1 \in Nat /\ S \subseteq 0 .. (T - 1) /\ S # {}
  BY <1>1, <1>2
<1>4. PICK t \in S : \A u \in S : u <= t
  BY <1>3, GreatestNumber
<1>5. t \in 0 .. (T - 1) /\ StartOf(j, t) <= n
  BY <1>4
<1>6. /\ StartOf(j, t) + LengthOf(j, t) = StartOf(j, t + 1)
      /\ StartOf(j, T) = Linear(j.counts)
      /\ StartOf(j, t) \in Nat /\ LengthOf(j, t) \in Nat
  BY <1>5, Deal
<1>7. n < StartOf(j, t + 1)
  <2>1. CASE t + 1 = T
    BY <1>1, <1>6, <2>1
  <2>2. CASE t + 1 # T
    <3>1. t + 1 \in 0 .. (T - 1) /\ t + 1 \notin S
      BY <1>1, <1>4, <1>5, <2>2
    <3>2. StartOf(j, t + 1) \in Nat
      BY <3>1, Deal
    <3>3. QED
      BY <3>1, <3>2
  <2>3. QED
    BY <2>1, <2>2
<1>8. QED
  BY <1>5, <1>6, <1>7

-----------------------------------------------------------------------------
(* The inductive invariant of the claims.                                  *)

Members == 0 .. (job.threads - 1)

\* Thread t looks at offset o.
VictimAt(t, o) ==
    IF job.nest.dynamic THEN (job.threads + t - o) % job.threads
                        ELSE (t + o) % job.threads

Left(v)      == Signed(rangeLength[v])
Unclaimed(v) == Larger(Left(v), 0)

\* The items of range v that nobody has located yet begin here.
RangeFront(v) == rangeEnd[v] - Unclaimed(v) - PendingChunks(v)

Waiting(v)   == RangeFront(v) .. (rangeEnd[v] - 1)
IsWaiting(n) == \E v \in Members : n \in Waiting(v)

\* The items thread t has yet to process of those it has located.
Held(t) == IF pc[t] \in {"chunk", "task"} THEN from[t] .. (from[t] + chunk[t] - 1) ELSE {}

\* A step after which t holds items that were waiting, or none.
Locates(t) ==
    /\ Held(t) = {}
    /\ \A n : IsWaiting(n)' <=> IsWaiting(n) /\ n \notin Held(t)'
    /\ \A n \in Held(t)' : IsWaiting(n)

Subtracting(v) == {t \in Members : pc[t] = "subtract" /\ Victim(t) = v}

\* No chunk is larger than this, so range_length is never less than minus this
\* for every thread of the job.
MaxChunk == Linear(job.counts) \div job.threads

LoopTypes ==
    /\ job \in Jobs
    /\ rangeEnd \in [Threads -> 0 .. Linear(job.counts)]
    /\ rangeLength \in [Threads -> 0 .. (SizeModulus - 1)]
    /\ pc \in [Threads -> Labels]
    /\ offset \in [Threads -> 0 .. MaxThreads]
    /\ from \in [Threads -> 0 .. Linear(job.counts)]
    /\ chunk \in [Threads -> 0 .. Linear(job.counts)]
    /\ at \in [Threads -> [1 .. Len(job.range) -> Nat]]
    /\ ratio \in [Threads -> {2, 4}]
    /\ uarch \in [Threads -> (UNION {CpuUarchs[t] : t \in Threads}) \cup {DefaultUarch}]

\* Where a thread is, and what its variables hold there.
SerialPhase(t) ==
    /\ pc[t] \in {"out", "serial", "task", "gone"}
    /\ pc[t] # "out" => t = 0
    /\ chunk[t] = 0

Phase(t) ==
    /\ pc[t] # "serial"
    /\ t >= job.threads => pc[t] = "out"
    /\ pc[t] = "out" => offset[t] = 0 /\ from[t] = StartOf(job, t)
    /\ pc[t] # "gone" => offset[t] < job.threads
    /\ pc[t] = "gone" => offset[t] = job.threads
    /\ pc[t] \in {"out", "claim", "gone"} => chunk[t] = 0
    /\ pc[t] \in {"subtract", "take", "chunk"} => chunk[t] > 0
    /\ pc[t] = "subtract" => job.nest.dynamic /\ chunk[t] <= MaxChunk
    /\ pc[t] = "take" => offset[t] > 0
    /\ ~job.nest.dynamic => chunk[t] = IF pc[t] \in {"take", "chunk"} THEN 1 ELSE 0
    /\ from[t] + (IF pc[t] \in {"chunk", "task"} THEN chunk[t] ELSE 0) <= Linear(job.counts)

RangeOK(v) ==
    /\ Left(v) <= LengthOf(job, v)
    /\ Left(v) <= 0 => Left(v) >= -(MaxChunk * (job.threads - Cardinality(Subtracting(v))))
    /\ ~job.nest.dynamic => Left(v) >= 0
    /\ StartOf(job, v) <= RangeFront(v)
    /\ rangeEnd[v] <= StartOf(job, v) + LengthOf(job, v)
    /\ OwnRange(v) => RangeFront(v) = OwnerPosition(v)

\* A thread leaves a range when it is empty, and it stays so.
Passed(t) == \A o \in 0 .. (offset[t] - 1) : Unclaimed(VictimAt(t, o)) = 0

\* The thread's coordinates are those of from.
Placed(t) ==
    \A a \in DOMAIN job.counts :
        at[t][a] = RowMajor(job.counts, from[t])[a]
                   * (IF job.nest.dynamic THEN 1 ELSE job.tile[a])

ClaimInv ==
    /\ LoopTypes
    /\ job.serial => \A t \in Threads : SerialPhase(t)
    /\ ~job.serial => \A t \in Threads : Phase(t)
    /\ ~job.serial => \A v \in Members : RangeOK(v) /\ Passed(v)
    /\ \A t \in Threads : HasPlace(t) => Placed(t)

\* What the proofs below use of the job in progress.
LEMMA JobFacts ==
    ASSUME job \in Jobs
    PROVE  /\ GoodJob(job)
           /\ job.counts \in Counts /\ Len(job.counts) = Len(job.range)
           /\ DOMAIN job.counts = 1 .. Len(job.range) /\ DOMAIN job.range = 1 .. Len(job.range)
           /\ Len(job.range) \in Nat \ {0}
           /\ Linear(job.counts) \in Nat \ {0} /\ 2 * Linear(job.counts) < SizeModulus
           /\ job.threads \in Nat \ {0} /\ job.threads <= MaxThreads /\ MaxThreads \in Nat
           /\ Members \subseteq Threads
           /\ job.nest.dynamic \in BOOLEAN /\ job.serial \in BOOLEAN
<1>1. GoodJob(job)
  BY JobIsGood
<1>2. job.counts \in Counts /\ Len(job.counts) = Len(job.range) /\ job.range \in Counts
  <2>1. IsGrid(job.range, job.unit) /\ job.counts = TileCounts(job.range, job.unit)
    BY <1>1 DEF GoodJob
  <2>2. /\ TileCounts(job.range, job.unit) \in Counts
        /\ Len(TileCounts(job.range, job.unit)) = Len(job.range)
    BY <2>1, TileCountsType
  <2>3. job.range \in Counts
    BY <2>1 DEF IsGrid
  <2>4. QED
    BY <2>1, <2>2, <2>3
<1>3. MaxThreads \in Nat /\ job.threads \in 1 .. MaxThreads
  BY <1>1, ShapesAssumption DEF GoodJob
<1>4. Members \subseteq Threads
  BY <1>3 DEF Members, Threads
<1>5. QED
  BY <1>1, <1>2, <1>3, <1>4, CountsFacts, LinearFacts DEF GoodJob

\* The pending chunks of a range, one by one: that of t and those of the others.
OwnChunk(t, v) == IF pc[t] = "take" /\ Victim(t) = v THEN chunk[t] ELSE 0

ChunksOf(S) == UNION {{t} \X (1 .. chunk[t]) : t \in S}

Thieves(v) == {t \in Threads : pc[t] = "take" /\ Victim(t) = v}

OtherChunks(t, v) == Cardinality(ChunksOf(Thieves(v) \ {t}))

\* The chunks pending on v's range are the others' and t's own ...
LEMMA PendingSum ==
    LoopTypes => \A t \in Threads : \A v :
        /\ OtherChunks(t, v) \in Nat
        /\ PendingChunks(v) = OtherChunks(t, v) + OwnChunk(t, v)
<1> SUFFICES ASSUME LoopTypes, NEW t \in Threads, NEW v
             PROVE  /\ OtherChunks(t, v) \in Nat
                    /\ PendingChunks(v) = OtherChunks(t, v) + OwnChunk(t, v)
  OBVIOUS
<1> DEFINE Rest == ChunksOf(Thieves(v) \ {t})
           Own == {t} \X (1 .. chunk[t])
<1>1. /\ Linear(job.counts) \in Nat /\ MaxThreads \in Nat
      /\ \A u \in Threads : chunk[u] \in 0 .. Linear(job.counts)
  BY JobFacts DEF LoopTypes
<1>2. IsFiniteSet(Rest)
  <2> DEFINE All == Threads \X (1 .. Linear(job.counts))
  <2>1. IsFiniteSet(All)
    <3>1. IsFiniteSet(Threads) /\ IsFiniteSet(1 .. Linear(job.counts))
      BY <1>1, FS_Interval DEF Threads
    <3>2. QED
      BY <3>1, FS_Product
  <2>2. Rest \in SUBSET All
    <3>1. ASSUME NEW p \in Rest PROVE p \in All
      <4>1. PICK u \in Thieves(v) \ {t} : p \in {u} \X (1 .. chunk[u])
        BY DEF ChunksOf
      <4>2. u \in Threads /\ 1 .. chunk[u] \subseteq 1 .. Linear(job.counts)
        BY <1>1, <4>1 DEF Thieves
      <4>3. QED
        BY <4>1, <4>2
    <3>2. QED
      BY <3>1
  <2>3. QED
    BY <2>1, <2>2, FS_Subset
<1>3. IsFiniteSet(Own) /\ Cardinality(Own) = chunk[t]
  <2>1. IsFiniteSet({t}) /\ Cardinality({t}) = 1
    BY FS_Singleton
  <2>2. chunk[t] \in Nat
    BY <1>1
  <2>3. IsFiniteSet(1 .. chunk[t]) /\ Cardinality(1 .. chunk[t]) = chunk[t]
    BY <2>2, FS_Interval
  <2>4. IsFiniteSet(Own) /\ Cardinality(Own) = Cardinality({t}) * Cardinality(1 .. chunk[t])
    BY <2>1, <2>3, FS_Product
  <2>5. QED
    BY <2>1, <2>2, <2>3, <2>4
<1>4. Rest \cap Own = {}
  BY DEF ChunksOf
<1>5. OtherChunks(t, v) \in Nat
  BY <1>2, FS_CardinalityType DEF OtherChunks
<1>6. PendingChunks(v) = Cardinality(ChunksOf(Thieves(v)))
  BY DEF PendingChunks, ChunksOf, Thieves
<1>7. CASE pc[t] = "take" /\ Victim(t) = v
  <2>1. Thieves(v) = (Thieves(v) \ {t}) \cup {t}
    BY <1>7 DEF Thieves
  <2>2. ChunksOf(Thieves(v)) = Rest \cup Own
    <3>1. ChunksOf((Thieves(v) \ {t}) \cup {t}) = Rest \cup Own
      BY DEF ChunksOf
    <3>2. QED
      BY <2>1, <3>1
  <2>3. Cardinality(Rest \cup Own) = Cardinality(Rest) + Cardinality(Own) - Cardinality({})
    <3> HIDE DEF Rest, Own
    <3>1. Cardinality(Rest \cup Own)
          = Cardinality(Rest) + Cardinality(Own) - Cardinality(Rest \cap Own)
      BY <1>2, <1>3, FS_Union
    <3>2. QED
      BY <1>4, <3>1
  <2>4. QED
    BY <1>1, <1>3, <1>5, <1>6, <1>7, <2>2, <2>3, FS_EmptySet DEF OtherChunks, OwnChunk
<1>8. CASE ~(pc[t] = "take" /\ Victim(t) = v)
  <2>1. Thieves(v) = Thieves(v) \ {t}
    BY <1>8 DEF Thieves
  <2>2. QED
    BY <1>5, <1>6, <1>8, <2>1 DEF OtherChunks, OwnChunk
<1>9. QED
  BY <1>5, <1>7, <1>8

\* ... also after the step ...
LEMMA PendingSumNext ==
    LoopTypes' => \A t \in Threads : \A v :
        /\ OtherChunks(t, v)' \in Nat
        /\ PendingChunks(v)' = OtherChunks(t, v)' + OwnChunk(t, v)'
<1>1. (LoopTypes => \A t \in Threads : \A v :
          /\ OtherChunks(t, v) \in Nat
          /\ PendingChunks(v) = OtherChunks(t, v) + OwnChunk(t, v))'
  BY PendingSum, PTL
<1>2. QED
  BY <1>1

\* In a step of t the others stay where they are.
OthersStay(t) ==
    /\ job' = job
    /\ \A u \in Threads \ {t} :
          /\ pc'[u] = pc[u] /\ offset'[u] = offset[u] /\ from'[u] = from[u]
          /\ chunk'[u] = chunk[u] /\ at'[u] = at[u]

\* A step that locates nothing.
FrontsStay == \A v \in Members : RangeFront(v)' = RangeFront(v)

\* ... which leaves the chunks of the others as they are.
LEMMA OtherChunksStay ==
    ASSUME NEW t \in Threads, OthersStay(t), NEW v
    PROVE  OtherChunks(t, v)' = OtherChunks(t, v)
<1> DEFINE S == Thieves(v) \ {t}
<1>1. (Thieves(v) \ {t})' = S
  BY DEF Thieves, OthersStay, Victim
<1>2. S \subseteq Threads \ {t}
  BY DEF Thieves
<1> HIDE DEF S
<1>3. ChunksOf((Thieves(v) \ {t})) = ChunksOf(S)
  BY DEF S
<1>4. ChunksOf(S)' = UNION {{u} \X (1 .. chunk'[u]) : u \in S'}
  BY DEF ChunksOf
<1>5. QED
  BY <1>1, <1>2, <1>4 DEF OtherChunks, ChunksOf, OthersStay, S

-----------------------------------------------------------------------------
(* Arithmetic: what a size_t holds, and who is looked at.                  *)

\* A size_t read as a ptrdiff_t: below half the modulus it is the same number.
LEMMA SignedFacts ==
    ASSUME NEW x \in 0 .. (SizeModulus - 1)
    PROVE  /\ Signed(x) \in Int /\ Signed(x) <= x
           /\ Signed(x) >= 0 => x = Signed(x)
           /\ 2 * x < SizeModulus => Signed(x) = x
<1>1. SizeModulus \in Nat \ {0} /\ SizeModulus % 2 = 0
  BY SizeAssumption
<1> DEFINE h == SizeModulus \div 2
<1>2. h \in Nat /\ SizeModulus = 2 * h
  BY <1>1
<1> HIDE DEF h
<1>3. Signed(x) = IF x < h THEN x ELSE x - SizeModulus
  BY DEF Signed, h
<1>4. QED
  BY <1>1, <1>2, <1>3

\* A size_t that is lowered, below zero too, reads as the lowered number.
LEMMA WrapDown ==
    ASSUME NEW x \in 0 .. (SizeModulus - 1), NEW c \in Nat,
           2 * (Signed(x) - c) >= -SizeModulus
    PROVE  Wrap(x - c) \in 0 .. (SizeModulus - 1) /\ Signed(Wrap(x - c)) = Signed(x) - c
<1>1. SizeModulus \in Nat \ {0} /\ SizeModulus % 2 = 0
  BY SizeAssumption
<1> DEFINE h == SizeModulus \div 2
<1>2. h \in Nat /\ SizeModulus = 2 * h
  BY <1>1
<1> HIDE DEF h
<1>3. \A y : Signed(y) = IF y < h THEN y ELSE y - SizeModulus
  BY DEF Signed, h
<1>4. \A z \in Int : 0 <= z /\ z < SizeModulus => z % SizeModulus = z
  BY <1>1
<1>5. \A z \in Int : -SizeModulus <= z /\ z < 0 => z % SizeModulus = z + SizeModulus
  BY <1>1
<1> DEFINE z == x - c
<1>6. z \in Int /\ z < SizeModulus
  BY <1>1
<1>7. Wrap(z) = z % SizeModulus
  BY DEF Wrap
<1>8. CASE z >= 0
  <2>1. Wrap(z) = z
    BY <1>4, <1>6, <1>7, <1>8
  <2>2. QED
    BY <1>1, <1>2, <1>3, <1>8, <2>1
<1>9. CASE z < 0
  <2>1. x < h /\ z >= -h
    BY <1>1, <1>2, <1>3, <1>9
  <2>2. Wrap(z) = z + SizeModulus
    BY <1>1, <1>2, <1>5, <1>6, <1>7, <1>9, <2>1
  <2>3. QED
    BY <1>1, <1>2, <1>3, <1>9, <2>1, <2>2
<1>10. QED
  BY <1>6, <1>8, <1>9

\* Every thread looks at its own range first, and at a range of the job always;
\* in the end it has looked at all of them.
LEMMA VictimFacts ==
    ASSUME job \in Jobs, NEW t \in Members
    PROVE  /\ VictimAt(t, 0) = t
           /\ \A o \in 0 .. (job.threads - 1) : VictimAt(t, o) \in Members
           /\ \A v \in Members : \E o \in 0 .. (job.threads - 1) : VictimAt(0, o) = v
<1> DEFINE T == job.threads
<1>1. T \in Nat \ {0} /\ t \in 0 .. (T - 1)
  BY JobFacts DEF Members
<1>2. \A x \in Nat : x < T => x % T = x /\ (T + x) % T = x
  BY <1>1
<1>3. \A x \in Nat : x % T \in 0 .. (T - 1)
  BY <1>1
<1>4. VictimAt(t, 0) = t
  <2>1. T + t - 0 = T + t /\ t + 0 = t /\ t \in Nat /\ t < T
    BY <1>1
  <2>2. QED
    BY <1>2, <2>1 DEF VictimAt
<1>5. ASSUME NEW o \in 0 .. (T - 1) PROVE VictimAt(t, o) \in Members
  <2>1. T + t - o \in Nat /\ t + o \in Nat
    BY <1>1
  <2>2. QED
    BY <1>3, <2>1 DEF VictimAt, Members
<1>6. ASSUME NEW v \in Members PROVE \E o \in 0 .. (T - 1) : VictimAt(0, o) = v
  <2>1. v \in 0 .. (T - 1) /\ v \in Nat /\ v < T
    BY <1>1 DEF Members
  <2>2. CASE ~job.nest.dynamic
    <3>1. VictimAt(0, v) = v
      BY <1>2, <2>1, <2>2, 0 + v = v DEF VictimAt
    <3>2. QED
      BY <2>1, <3>1
  <2>3. CASE job.nest.dynamic
    <3>1. CASE v = 0
      <4>1. (T + 0 - 0) % T = 0
        BY <1>1, <1>2
      <4>2. QED
        BY <1>1, <2>3, <3>1, <4>1 DEF VictimAt
    <3>2. CASE v # 0
      <4>1. T - v \in 0 .. (T - 1) /\ T + 0 - (T - v) = v
        BY <1>1, <2>1, <3>2
      <4>2. VictimAt(0, T - v) = v
        BY <1>2, <2>1, <2>3, <4>1 DEF VictimAt
      <4>3. QED
        BY <4>1, <4>2
    <3>3. QED
      BY <3>1, <3>2
  <2>4. QED
    BY <2>2, <2>3
<1>7. QED
  BY <1>4, <1>5, <1>6

\* A chunk is at most MaxChunk, and MaxChunk for every thread at most the range.
LEMMA ChunkBound ==
    ASSUME job \in Jobs, ~job.serial
    PROVE  /\ MaxChunk \in Nat \ {0}
           /\ MaxChunk * job.threads <= Linear(job.counts)
           /\ \A v \in Members, x \in Nat, r \in {2, 4} :
                  x <= LengthOf(job, v) => Larger(x \div r, 1) \in 1 .. MaxChunk
<1> DEFINE N == Linear(job.counts)
           T == job.threads
           C == MaxChunk
<1>1. N \in Nat /\ T \in Nat \ {0} /\ T <= N
  BY JobFacts DEF GoodJob
<1>2. C = N \div T
  BY DEF MaxChunk
<1> HIDE DEF C
<1>3. C \in Nat /\ N = C * T + (N % T) /\ (N % T) \in 0 .. (T - 1)
  BY <1>1, <1>2, Division
<1>4. C # 0
  <2>1. C = 0 => C * T = 0
    BY <1>1
  <2>2. QED
    BY <1>1, <1>3, <2>1
<1>5. C * T <= N
  <2>1. C * T \in Nat
    BY <1>1, <1>3
  <2>2. QED
    BY <1>1, <1>3, <2>1
<1>6. ASSUME NEW v \in Members, NEW x \in Nat, NEW r \in {2, 4}, x <= LengthOf(job, v)
      PROVE  Larger(x \div r, 1) \in 1 .. C
  <2>1. LengthOf(job, v) \in Nat /\ LengthOf(job, v) <= C + 1
    BY <1>2, JobFacts, Deal DEF Members
  <2>2. x \div r \in Nat /\ x \div r <= C
    <3>1. x <= C + 1
      BY <1>3, <1>6, <2>1
    <3>2. CASE r = 2
      BY <1>3, <1>4, <3>1, <3>2
    <3>3. CASE r = 4
      BY <1>3, <1>4, <3>1, <3>3
    <3>4. QED
      BY <3>2, <3>3
  <2>3. QED
    BY <1>3, <1>4, <2>2 DEF Larger
<1>7. QED
  BY <1>3, <1>4, <1>5, <1>6 DEF C

\* There are at most as many threads at a subtraction as threads at work.
LEMMA SubtractingCount ==
    ASSUME job \in Jobs
    PROVE  \A v : /\ IsFiniteSet(Subtracting(v))
                  /\ Cardinality(Subtracting(v)) \in 0 .. job.threads
                  /\ \A t \in Members : t \notin Subtracting(v) =>
                        Cardinality(Subtracting(v)) < job.threads
<1> SUFFICES ASSUME NEW v
             PROVE  /\ IsFiniteSet(Subtracting(v))
                    /\ Cardinality(Subtracting(v)) \in 0 .. job.threads
                    /\ \A t \in Members : t \notin Subtracting(v) =>
                          Cardinality(Subtracting(v)) < job.threads
  OBVIOUS
<1>1. IsFiniteSet(Members) /\ Cardinality(Members) = job.threads /\ job.threads \in Nat
  <2>1. job.threads \in Nat \ {0}
    BY JobFacts
  <2> DEFINE last == job.threads - 1
  <2>2. IsFiniteSet(0 .. last) /\ Cardinality(0 .. last) = job.threads
    <3>1. 0 \in Int /\ last \in Int /\ ~(0 > last) /\ last - 0 + 1 = job.threads
      BY <2>1
    <3> HIDE DEF last
    <3>2. QED
      BY <3>1, FS_Interval
  <2>3. QED
    BY <2>1, <2>2 DEF Members
<1> DEFINE S == Subtracting(v)
<1>2. S \in SUBSET Members
  BY DEF Subtracting
<1> HIDE DEF S
<1>3. IsFiniteSet(S) /\ Cardinality(S) <= job.threads /\ (Cardinality(S) = job.threads => S = Members)
  BY <1>1, <1>2, FS_Subset
<1>4. Cardinality(S) \in Nat
  BY <1>3, FS_CardinalityType
<1>5. QED
  BY <1>1, <1>3, <1>4 DEF S

-----------------------------------------------------------------------------
(* What a step of one thread leaves alone.                                 *)

\* A step of t keeps the phase of the others.
LEMMA PhaseStays ==
    ASSUME NEW t \in Threads, OthersStay(t), NEW u \in Threads \ {t}, Phase(u)
    PROVE  Phase(u)'
<1>1. /\ job' = job /\ pc'[u] = pc[u] /\ offset'[u] = offset[u]
      /\ from'[u] = from[u] /\ chunk'[u] = chunk[u]
  BY DEF OthersStay
<1>2. MaxChunk' = MaxChunk
  BY <1>1 DEF MaxChunk
<1>3. QED
  BY <1>1, <1>2 DEF Phase

\* A step that leaves t's item and coordinates alone keeps t placed.
LEMMA PlacedStays ==
    ASSUME job' = job, NEW t \in Threads, from'[t] = from[t], at'[t] = at[t], Placed(t)
    PROVE  Placed(t)'
BY DEF Placed

\* A step of t keeps the others placed.
LEMMA OthersPlaced ==
    ASSUME NEW t \in Threads, OthersStay(t), NEW u \in Threads \ {t},
           HasPlace(u) => Placed(u)
    PROVE  HasPlace(u)' => Placed(u)'
<1>1. /\ job' = job /\ pc'[u] = pc[u] /\ offset'[u] = offset[u]
      /\ from'[u] = from[u] /\ chunk'[u] = chunk[u] /\ at'[u] = at[u]
  BY DEF OthersStay
<1>2. HasPlace(u)' => HasPlace(u)
  BY <1>1 DEF HasPlace, OwnRange
<1>3. QED
  BY <1>1, <1>2, PlacedStays

\* So a step of t needs to be looked at for t, and for the ranges.
LEMMA ClaimInvNext ==
    ASSUME ClaimInv, ~job.serial, NEW t \in Threads, OthersStay(t),
           LoopTypes', Phase(t)', HasPlace(t)' => Placed(t)',
           \A v \in Members : RangeOK(v)' /\ Passed(v)'
    PROVE  ClaimInv'
<1>1. job' = job
  BY DEF OthersStay
<1>2. \A u \in Threads : Phase(u)'
  BY PhaseStays DEF ClaimInv
<1>3. \A u \in Threads : HasPlace(u)' => Placed(u)'
  BY OthersPlaced DEF ClaimInv
<1>4. Members' = Members
  BY <1>1 DEF Members
<1>5. QED
  BY <1>1, <1>2, <1>3, <1>4 DEF ClaimInv

\* A range that a step changes only by what its owner is about to do with it.
RangeStays(v) ==
    /\ rangeEnd'[v] = rangeEnd[v] /\ rangeLength'[v] = rangeLength[v]
    /\ PendingChunks(v)' = PendingChunks(v)
    /\ OwnRange(v)' => OwnRange(v) /\ OwnerPosition(v)' = OwnerPosition(v)
    /\ Left(v) <= 0 => Subtracting(v)' = Subtracting(v)

\* A step that leaves v's range alone keeps what is known of it.
LEMMA RangeKept ==
    ASSUME job' = job, NEW v, RangeOK(v), RangeStays(v)
    PROVE  RangeOK(v)' /\ Unclaimed(v)' = Unclaimed(v) /\ RangeFront(v)' = RangeFront(v)
<1>1. Left(v)' = Left(v)
  BY DEF RangeStays, Left
<1>2. Unclaimed(v)' = Unclaimed(v) /\ RangeFront(v)' = RangeFront(v)
  BY <1>1 DEF RangeStays, RangeFront, Unclaimed
<1>3. MaxChunk' = MaxChunk
  BY DEF MaxChunk
<1>4. QED
  BY <1>1, <1>2, <1>3 DEF RangeOK, RangeStays

\* A step of t that neither begins nor ends a subtraction on v keeps the threads at one.
LEMMA SubtractingStays ==
    ASSUME job \in Jobs, NEW t \in Threads, OthersStay(t), NEW v,
           (pc'[t] = "subtract" /\ Victim(t)' = v) <=> (pc[t] = "subtract" /\ Victim(t) = v)
    PROVE  Subtracting(v)' = Subtracting(v)
<1>1. Members' = Members /\ Members \subseteq Threads
  BY JobFacts DEF Members, OthersStay
<1>2. \A u \in Members \ {t} : pc'[u] = pc[u] /\ Victim(u)' = Victim(u)
  BY <1>1 DEF OthersStay, Victim
<1>3. \A u \in Members :
          (pc'[u] = "subtract" /\ Victim(u)' = v) <=> (pc[u] = "subtract" /\ Victim(u) = v)
  BY <1>2
<1>4. QED
  BY <1>1, <1>3 DEF Subtracting

\* A step of t does not move another thread's owner in its range.
LEMMA OthersPosition ==
    ASSUME NEW t \in Threads, OthersStay(t), NEW v \in Threads \ {t}
    PROVE  OwnRange(v)' = OwnRange(v) /\ OwnerPosition(v)' = OwnerPosition(v)
BY DEF OthersStay, OwnRange, OwnerPosition

\* A thread only looks at the ranges of the job.
LEMMA VictimIs ==
    ASSUME job \in Jobs, NEW t \in Members, offset[t] \in 0 .. (job.threads - 1)
    PROVE  /\ Victim(t) \in Members
           /\ Victim(t) = VictimAt(t, offset[t])
           /\ OwnRange(t) => Victim(t) = t
<1>1. Victim(t) = VictimAt(t, offset[t])
  BY DEF Victim, VictimAt
<1>2. QED
  BY <1>1, VictimFacts DEF OwnRange

\* The ranges that a thread has passed stay empty.
LEMMA PassedStays ==
    ASSUME job \in Jobs, job' = job, NEW u \in Members, Passed(u),
           offset[u] \in 0 .. job.threads,
           offset'[u] = offset[u] \/ (offset'[u] = offset[u] + 1
                                      /\ offset[u] # job.threads /\ Unclaimed(Victim(u)) = 0),
           \A v \in Members : Unclaimed(v) = 0 => Unclaimed(v)' = 0
    PROVE  Passed(u)'
<1>1. job.threads \in Nat \ {0}
  BY JobFacts
<1>2. SUFFICES ASSUME NEW o \in 0 .. (offset'[u] - 1) PROVE Unclaimed(VictimAt(u, o))' = 0
  BY DEF Passed
<1>3. o \in 0 .. (job.threads - 1) /\ (o \in 0 .. (offset[u] - 1) \/ o = offset[u])
  BY <1>1
<1>4. VictimAt(u, o) \in Members /\ VictimAt(u, o)' = VictimAt(u, o)
  <2>1. VictimAt(u, o) \in Members
    BY <1>3, VictimFacts
  <2>2. VictimAt(u, o)' = VictimAt(u, o)
    BY DEF VictimAt
  <2>3. QED
    BY <2>1, <2>2
<1>5. Unclaimed(VictimAt(u, o)) = 0
  <2>1. CASE o \in 0 .. (offset[u] - 1)
    BY <2>1 DEF Passed
  <2>2. CASE o \notin 0 .. (offset[u] - 1)
    <3>1. o = offset[u] /\ offset'[u] # offset[u]
      BY <1>1, <1>3, <2>2
    <3>2. VictimAt(u, o) = Victim(u)
      BY <3>1 DEF Victim, VictimAt
    <3>3. QED
      BY <3>1, <3>2
  <2>3. QED
    BY <2>1, <2>2
<1>6. PICK w \in Members : w = VictimAt(u, o)
  BY <1>4
<1>7. Unclaimed(w)' = 0
  BY <1>5, <1>6
<1>8. VictimAt(u, o)' = w
  BY <1>4, <1>6
<1>9. QED
  BY <1>7, <1>8 DEF Unclaimed, Left

\* A step that keeps t's chunk on v's range keeps the sum of the chunks there.
LEMMA PendingKept ==
    ASSUME LoopTypes, LoopTypes', NEW t \in Threads, OthersStay(t), NEW v,
           OwnChunk(t, v)' = OwnChunk(t, v)
    PROVE  PendingChunks(v)' = PendingChunks(v)
<1>1. PendingChunks(v) = OtherChunks(t, v) + OwnChunk(t, v)
  BY PendingSum
<1>2. PendingChunks(v)' = OtherChunks(t, v)' + OwnChunk(t, v)'
  BY PendingSumNext
<1>3. OtherChunks(t, v)' = OtherChunks(t, v)
  BY OtherChunksStay
<1>4. QED
  BY <1>1, <1>2, <1>3

\* What the invariant says of one thread that is in the job.
LEMMA MemberFacts ==
    ASSUME ClaimInv, ~job.serial, NEW t \in Members
    PROVE  /\ t \in Threads /\ t \in Nat /\ t < job.threads /\ Phase(t) /\ Passed(t)
           /\ offset[t] \in 0 .. job.threads
           /\ pc[t] # "gone" => offset[t] \in 0 .. (job.threads - 1)
           /\ from[t] \in 0 .. Linear(job.counts) /\ chunk[t] \in 0 .. Linear(job.counts)
           /\ ratio[t] \in {2, 4}
<1>1. Members \subseteq Threads /\ job.threads \in Nat \ {0}
  BY JobFacts DEF ClaimInv, LoopTypes
<1>2. t \in Threads /\ t \in Nat /\ t < job.threads
  BY <1>1 DEF Members
<1>3. Phase(t) /\ Passed(t)
  BY <1>2 DEF ClaimInv
<1>4. offset[t] \in 0 .. MaxThreads /\ MaxThreads \in Nat
  BY <1>2, JobFacts DEF ClaimInv, LoopTypes
<1>5. /\ from[t] \in 0 .. Linear(job.counts) /\ chunk[t] \in 0 .. Linear(job.counts)
      /\ ratio[t] \in {2, 4}
  BY <1>2 DEF ClaimInv, LoopTypes
<1>6. pc[t] # "gone" => offset[t] < job.threads
  BY <1>3 DEF Phase
<1>7. pc[t] = "gone" => offset[t] = job.threads
  BY <1>3 DEF Phase
<1>8. QED
  BY <1>1, <1>2, <1>3, <1>4, <1>5, <1>6, <1>7

\* A thread that joins, sizes a chunk or processes changes no range.
LEMMA QuietStep ==
    ASSUME ClaimInv, ~job.serial, NEW t \in Members, OthersStay(t), LoopTypes',
           rangeEnd' = rangeEnd, rangeLength' = rangeLength, offset'[t] = offset[t],
           OwnRange(t) => OwnerPosition(t)' = OwnerPosition(t),
           pc[t] \notin {"take", "subtract"}, pc'[t] # "take",
           pc'[t] = "subtract" => Left(Victim(t)) > 0
    PROVE  \A v \in Members : RangeOK(v)' /\ Passed(v)' /\ RangeFront(v)' = RangeFront(v)
<1>1. t \in Threads /\ LoopTypes /\ job \in Jobs /\ Members \subseteq Threads /\ job' = job
  BY MemberFacts, JobFacts DEF ClaimInv, LoopTypes, OthersStay
<1>2. ASSUME NEW v \in Members
      PROVE  RangeOK(v)' /\ Unclaimed(v)' = Unclaimed(v) /\ RangeFront(v)' = RangeFront(v)
  <2>1. PendingChunks(v)' = PendingChunks(v)
    <3>1. OwnChunk(t, v) = 0
      BY DEF OwnChunk
    <3>2. OwnChunk(t, v)' = 0
      BY DEF OwnChunk
    <3>3. QED
      BY <1>1, <3>1, <3>2, PendingKept
  <2>2. OwnRange(v)' => OwnRange(v) /\ OwnerPosition(v)' = OwnerPosition(v)
    <3>1. CASE v = t
      BY <3>1 DEF OwnRange
    <3>2. CASE v # t
      BY <1>1, <3>2, OthersPosition
    <3>3. QED
      BY <3>1, <3>2
  <2>3. Left(v) <= 0 => Subtracting(v)' = Subtracting(v)
    <3>1. Victim(t)' = Victim(t)
      BY <1>1 DEF Victim
    <3>2. SUFFICES ASSUME Left(v) <= 0 PROVE Subtracting(v)' = Subtracting(v)
      OBVIOUS
    <3>3. Left(v) \in Int
      BY <1>1, SignedFacts DEF LoopTypes, Left
    <3>4. ~(pc'[t] = "subtract" /\ Victim(t)' = v)
      <4>1. SUFFICES ASSUME pc'[t] = "subtract", Victim(t)' = v PROVE FALSE
        OBVIOUS
      <4>2. Victim(t) = v
        BY <3>1, <4>1
      <4>3. QED
        BY <3>2, <3>3, <4>1, <4>2
    <3>5. QED
      BY <1>1, <3>4, SubtractingStays
  <2>4. RangeStays(v)
    BY <2>1, <2>2, <2>3 DEF RangeStays
  <2>5. QED
    BY <1>1, <2>4, RangeKept DEF ClaimInv
<1>3. ASSUME NEW v \in Members PROVE Passed(v)'
  <2>1. offset'[v] = offset[v]
    BY <1>1 DEF OthersStay
  <2>2. \A w \in Members : Unclaimed(w) = 0 => Unclaimed(w)' = 0
    BY <1>2
  <2>3. QED
    BY <1>1, <2>1, <2>2, MemberFacts, PassedStays
<1>4. QED
  BY <1>2, <1>3

\* The numbers of a range.
LEMMA RangeNumbers ==
    ASSUME ClaimInv, ~job.serial, NEW v \in Members
    PROVE  /\ v \in Threads /\ rangeLength[v] \in 0 .. (SizeModulus - 1)
           /\ Left(v) \in Int /\ Left(v) <= rangeLength[v]
           /\ Left(v) >= 0 => rangeLength[v] = Left(v)
           /\ Unclaimed(v) \in Nat /\ Unclaimed(v) <= LengthOf(job, v)
           /\ PendingChunks(v) \in Nat /\ rangeEnd[v] \in Nat /\ RangeFront(v) \in Nat
           /\ RangeFront(v) + PendingChunks(v) + Unclaimed(v) = rangeEnd[v]
           /\ StartOf(job, v) \in Nat /\ LengthOf(job, v) \in Nat
           /\ StartOf(job, v) + LengthOf(job, v) <= Linear(job.counts)
           /\ rangeEnd[v] <= Linear(job.counts)
           /\ LengthOf(job, v) <= Linear(job.counts)
<1>1. /\ job \in Jobs /\ LoopTypes /\ RangeOK(v) /\ v \in Threads /\ v \in 0 .. (job.threads - 1)
      /\ Linear(job.counts) \in Nat /\ job.threads \in Nat
  BY MemberFacts, JobFacts DEF ClaimInv, LoopTypes, Members
<1>2. rangeLength[v] \in 0 .. (SizeModulus - 1) /\ rangeEnd[v] \in 0 .. Linear(job.counts)
  BY <1>1 DEF LoopTypes
<1>3. Left(v) \in Int /\ Left(v) <= rangeLength[v] /\ (Left(v) >= 0 => rangeLength[v] = Left(v))
  BY <1>2, SignedFacts DEF Left
<1>4. /\ StartOf(job, v) \in Nat /\ LengthOf(job, v) \in Nat
      /\ StartOf(job, v) + LengthOf(job, v) <= Linear(job.counts)
  <2>1. /\ StartOf(job, v) \in Nat /\ LengthOf(job, v) \in Nat
        /\ StartOf(job, v) + LengthOf(job, v) = StartOf(job, v + 1)
        /\ StartOf(job, job.threads) = Linear(job.counts)
        /\ \A u \in 0 .. job.threads : v < u => StartOf(job, v + 1) <= StartOf(job, u)
    BY <1>1, JobFacts, Deal
  <2>2. job.threads \in 0 .. job.threads /\ v < job.threads
    BY <1>1
  <2>3. QED
    BY <2>1, <2>2
<1>5. Unclaimed(v) \in Nat /\ Unclaimed(v) <= LengthOf(job, v)
  BY <1>1, <1>3, <1>4 DEF Unclaimed, Larger, RangeOK
<1>6. PendingChunks(v) \in Nat
  <2>1. OtherChunks(v, v) \in Nat /\ PendingChunks(v) = OtherChunks(v, v) + OwnChunk(v, v)
    BY <1>1, PendingSum
  <2>2. chunk[v] \in Nat
    BY <1>1 DEF LoopTypes
  <2>3. QED
    BY <2>1, <2>2 DEF OwnChunk
<1>7. StartOf(job, v) <= RangeFront(v)
  BY <1>1 DEF RangeOK
<1>8. RangeFront(v) = rangeEnd[v] - Unclaimed(v) - PendingChunks(v)
  BY DEF RangeFront
<1>9. QED
  BY <1>1, <1>2, <1>3, <1>4, <1>5, <1>6, <1>7, <1>8

\* Ranges other than the one a thread looks at.
LEMMA OtherRangeStays ==
    ASSUME ClaimInv, ~job.serial, NEW t \in Members, OthersStay(t), LoopTypes',
           pc[t] # "gone", offset'[t] = offset[t] \/ offset'[t] = offset[t] + 1,
           NEW v \in Members, v # Victim(t),
           rangeEnd'[v] = rangeEnd[v], rangeLength'[v] = rangeLength[v],
           pc'[t] \notin {"take", "subtract"} \/ offset'[t] = offset[t]
    PROVE  RangeOK(v)' /\ Unclaimed(v)' = Unclaimed(v) /\ RangeFront(v)' = RangeFront(v)
<1>1. t \in Threads /\ LoopTypes /\ job \in Jobs /\ Members \subseteq Threads /\ job' = job
  BY MemberFacts, JobFacts DEF ClaimInv, LoopTypes, OthersStay
<1>2. offset[t] \in 0 .. (job.threads - 1) /\ job.threads \in Nat
  BY <1>1, MemberFacts, JobFacts
<1>3. pc'[t] \in {"take", "subtract"} => Victim(t)' = Victim(t)
  BY <1>1 DEF Victim
<1>4. PendingChunks(v)' = PendingChunks(v)
  <2>1. OwnChunk(t, v) = 0
    BY DEF OwnChunk
  <2>2. OwnChunk(t, v)' = 0
    BY <1>3 DEF OwnChunk
  <2>3. QED
    BY <1>1, <2>1, <2>2, PendingKept
<1>5. OwnRange(v)' => OwnRange(v) /\ OwnerPosition(v)' = OwnerPosition(v)
  <2>1. CASE v = t
    <3>1. ~OwnRange(t)
      BY <1>1, <1>2, <2>1, VictimIs
    <3>2. ~OwnRange(t)'
      BY <1>2, <3>1 DEF OwnRange
    <3>3. QED
      BY <2>1, <3>2
  <2>2. CASE v # t
    BY <1>1, <2>2, OthersPosition
  <2>3. QED
    BY <2>1, <2>2
<1>6. Subtracting(v)' = Subtracting(v)
  BY <1>1, <1>3, SubtractingStays
<1>7. RangeStays(v)
  BY <1>4, <1>5, <1>6 DEF RangeStays
<1>8. QED
  BY <1>1, <1>7, RangeKept DEF ClaimInv

\* Lowered by a thread of the job, range_length stays above the bound: every
\* other thread that is about to subtract may take a chunk from it, too.
LEMMA LengthBound ==
    ASSUME ClaimInv, ~job.serial, NEW t \in Members, OthersStay(t),
           pc[t] \in {"claim", "subtract"}, pc'[t] # "subtract", NEW w \in Members, w = Victim(t),
           Left(w)' \in Int,
           \/ Left(w)' >= -MaxChunk
           \/ Left(w)' = Left(w) /\ Left(w) <= 0
           \/ pc[t] = "subtract" /\ Left(w) <= 0 /\ Left(w)' >= Left(w) - MaxChunk
    PROVE  Left(w)' >= -(MaxChunk * (job.threads - Cardinality(Subtracting(w)')))
<1>1. /\ t \in Threads /\ job \in Jobs /\ Members \subseteq Threads /\ job' = job
      /\ job.threads \in Nat \ {0} /\ t \in Nat
  BY MemberFacts, JobFacts DEF ClaimInv, LoopTypes, OthersStay
<1>2. MaxChunk \in Nat
  BY <1>1, ChunkBound
<1> DEFINE T == job.threads
           k == Cardinality(Subtracting(w))
           m == Cardinality(Subtracting(w)')
<1>3. Members' = Members
  BY <1>1 DEF Members
<1>4. /\ t \notin Subtracting(w)' /\ Subtracting(w) \in SUBSET Members
      /\ pc[t] = "subtract" => t \in Subtracting(w) /\ Subtracting(w)' = Subtracting(w) \ {t}
      /\ pc[t] = "claim" => Subtracting(w)' = Subtracting(w)
  <2>1. \A u \in Members \ {t} : pc'[u] = pc[u] /\ Victim(u)' = Victim(u)
    BY <1>1 DEF OthersStay, Victim
  <2>2. QED
    BY <1>3, <2>1 DEF Subtracting
<1>5. IsFiniteSet(Subtracting(w)) /\ k \in 0 .. T /\ (t \notin Subtracting(w) => k < T)
  BY <1>1, SubtractingCount
<1>6. m \in Nat /\ m < T /\ m <= k /\ (pc[t] = "subtract" => m = k - 1)
  <2>1. CASE pc[t] = "claim"
    BY <1>1, <1>4, <1>5, <2>1
  <2>2. CASE pc[t] = "subtract"
    <3>1. t \in Subtracting(w) /\ Subtracting(w)' = Subtracting(w) \ {t}
      BY <1>4, <2>2
    <3> DEFINE S == Subtracting(w)
    <3>2. IsFiniteSet(S) /\ t \in S
      BY <1>5, <3>1
    <3> HIDE DEF S
    <3>3. Cardinality(S \ {t}) = Cardinality(S) - 1
      BY <3>2, FS_RemoveElement
    <3>4. Cardinality(S) \in Nat /\ Cardinality(S \ {t}) \in Nat
      BY <3>2, FS_CardinalityType, FS_RemoveElement
    <3>5. m = k - 1 /\ m \in Nat
      BY <3>1, <3>3, <3>4 DEF S
    <3>6. QED
      BY <1>1, <1>5, <3>5
  <2>3. QED
    BY <2>1, <2>2
<1>7. RangeOK(w)
  BY DEF ClaimInv
<1> HIDE DEF k, m
<1>8. Left(w) <= 0 => Left(w) >= -(MaxChunk * (T - k))
  BY <1>7 DEF RangeOK, k
<1>9. \A x, y \in Nat : y >= 1 => x * y >= x /\ x * y \in Nat
  OBVIOUS
<1>10. \A x, y \in Nat : x * (y + 1) = x * y + x /\ x * y \in Nat
  OBVIOUS
<1>11. T - m \in Nat /\ T - m >= 1 /\ T - k \in Nat
  BY <1>1, <1>5, <1>6
<1>12. Left(w) \in Int
  BY RangeNumbers
<1>13. CASE Left(w)' >= -MaxChunk
  <2>1. MaxChunk * (T - m) >= MaxChunk
    BY <1>2, <1>9, <1>11
  <2>2. MaxChunk * (T - m) \in Nat
    BY <1>2, <1>10, <1>11
  <2>3. QED
    BY <1>2, <1>13, <2>1, <2>2 DEF m
<1>14. CASE pc[t] = "subtract" /\ Left(w) <= 0 /\ Left(w)' >= Left(w) - MaxChunk
  <2>1. T - m = (T - k) + 1
    BY <1>1, <1>5, <1>6, <1>14
  <2>2. MaxChunk * (T - m) = MaxChunk * (T - k) + MaxChunk /\ MaxChunk * (T - k) \in Nat
    BY <1>2, <1>10, <1>11, <2>1
  <2>3. QED
    BY <1>2, <1>8, <1>12, <1>14, <2>2 DEF m
<1>15. CASE Left(w)' = Left(w) /\ Left(w) <= 0
  <2>1. \A x, y, z \in Nat : y <= z => x * y <= x * z /\ x * y \in Nat /\ x * z \in Nat
    OBVIOUS
  <2> DEFINE y == T - k
             z == T - m
  <2>2. y \in Nat /\ z \in Nat /\ y <= z
    BY <1>1, <1>5, <1>6, <1>11
  <2> HIDE DEF y, z
  <2>3. MaxChunk * y <= MaxChunk * z /\ MaxChunk * y \in Nat /\ MaxChunk * z \in Nat
    BY <1>2, <2>1, <2>2
  <2>4. QED
    <3>1. Left(w) >= -(MaxChunk * y)
      BY <1>8, <1>15 DEF y
    <3>2. Left(w)' >= -(MaxChunk * z)
      <4> DEFINE p == MaxChunk * y
                 q == MaxChunk * z
      <4>1. p \in Nat /\ q \in Nat /\ p <= q /\ Left(w) >= -p
        BY <1>2, <1>12, <2>2, <2>3, <3>1
      <4> HIDE DEF p, q
      <4>2. Left(w)' >= -q
        BY <1>12, <1>15, <4>1
      <4>3. QED
        BY <4>2 DEF q
    <3>3. QED
      BY <3>2 DEF z, m
<1>16. QED
  BY <1>13, <1>14, <1>15

\* A claim: n items leave range_length, for the owner or, pending, for a thief.
LEMMA ClaimStep ==
    ASSUME ClaimInv, ~job.serial, NEW t \in Members, OthersStay(t), LoopTypes',
           pc[t] \in {"claim", "subtract"}, rangeEnd' = rangeEnd,
           offset'[t] = offset[t], from'[t] = from[t],
           NEW n \in Nat \ {0}, chunk'[t] = n,
           pc'[t] = (IF OwnRange(t) THEN "chunk" ELSE "take"),
           NEW w \in Members, w = Victim(t),
           \A v \in Members \ {w} : rangeLength'[v] = rangeLength[v],
           Unclaimed(w)' = Unclaimed(w) - n,
           Left(w)' <= Left(w), Left(w)' >= -MaxChunk, ~job.nest.dynamic => Left(w)' >= 0
    PROVE  /\ \A v \in Members : RangeOK(v)' /\ Passed(v)'
           /\ \A v \in Members \ {w} : RangeFront(v)' = RangeFront(v)
           /\ RangeFront(w)' = RangeFront(w) + (IF OwnRange(t) THEN n ELSE 0)
<1>1. /\ t \in Threads /\ LoopTypes /\ job \in Jobs /\ Members \subseteq Threads /\ job' = job
      /\ offset[t] \in 0 .. (job.threads - 1) /\ Phase(t)
  BY MemberFacts, JobFacts DEF ClaimInv, LoopTypes, OthersStay
<1>2. /\ Left(w) \in Int /\ Unclaimed(w) \in Nat /\ PendingChunks(w) \in Nat
      /\ rangeEnd[w] \in Nat /\ LengthOf(job, w) \in Nat /\ StartOf(job, w) \in Nat
      /\ RangeFront(w) \in Nat
      /\ RangeFront(w) + PendingChunks(w) + Unclaimed(w) = rangeEnd[w]
  BY RangeNumbers
<1>3. Left(w)' \in Int
  <2>1. rangeLength'[w] \in 0 .. (SizeModulus - 1)
    BY <1>1 DEF LoopTypes
  <2>2. QED
    BY <2>1, SignedFacts DEF Left
<1>4. RangeOK(w)
  BY DEF ClaimInv
<1>5. PendingChunks(w)' = PendingChunks(w) + (IF OwnRange(t) THEN 0 ELSE n)
  <2>1. Victim(t)' = Victim(t)
    BY <1>1 DEF Victim
  <2>2. OwnChunk(t, w) = 0
    BY DEF OwnChunk
  <2>3. OwnChunk(t, w)' = IF OwnRange(t) THEN 0 ELSE n
    BY <2>1 DEF OwnChunk
  <2>4. PendingChunks(w) = OtherChunks(t, w) + OwnChunk(t, w) /\ OtherChunks(t, w) \in Nat
    BY <1>1, PendingSum
  <2>5. PendingChunks(w)' = OtherChunks(t, w)' + OwnChunk(t, w)'
    BY <1>1, PendingSumNext
  <2>6. OtherChunks(t, w)' = OtherChunks(t, w)
    BY <1>1, OtherChunksStay
  <2>7. QED
    BY <2>2, <2>3, <2>4, <2>5, <2>6
<1>6. RangeFront(w)' = RangeFront(w) + (IF OwnRange(t) THEN n ELSE 0)
  <2>1. RangeFront(w)' = rangeEnd[w] - (Unclaimed(w) - n) - PendingChunks(w)'
    BY DEF RangeFront
  <2>2. QED
    BY <1>2, <1>5, <2>1
<1>7. OwnRange(w)' => RangeFront(w)' = OwnerPosition(w)'
  <2>1. CASE OwnRange(t)
    <3>1. w = t
      BY <1>1, <2>1, VictimIs
    <3>2. OwnerPosition(t) = from[t]
      <4>1. from[t] \in Nat
        BY <1>1, MemberFacts
      <4>2. QED
        BY <1>1, <4>1 DEF OwnerPosition, Phase
    <3>3. OwnerPosition(t)' = from[t] + n
      BY <2>1 DEF OwnerPosition
    <3>4. QED
      BY <1>4, <1>6, <2>1, <3>1, <3>2, <3>3 DEF RangeOK
  <2>2. CASE ~OwnRange(t)
    <3>1. w = t => ~OwnRange(w)'
      BY <2>2 DEF OwnRange
    <3>2. w # t => OwnRange(w)' = OwnRange(w) /\ OwnerPosition(w)' = OwnerPosition(w)
      BY <1>1, OthersPosition
    <3>3. RangeFront(w)' = RangeFront(w)
      BY <1>2, <1>6, <2>2
    <3>4. QED
      BY <1>4, <3>1, <3>2, <3>3 DEF RangeOK
  <2>3. QED
    BY <2>1, <2>2
<1>8. Left(w)' >= -(MaxChunk * (job.threads - Cardinality(Subtracting(w)')))
  BY <1>3, LengthBound
<1>9. RangeOK(w)'
  <2>1. Left(w)' <= LengthOf(job, w)
    BY <1>2, <1>3, <1>4 DEF RangeOK
  <2>2. StartOf(job, w) <= RangeFront(w)'
    BY <1>2, <1>4, <1>6 DEF RangeOK
  <2>3. rangeEnd[w] <= StartOf(job, w) + LengthOf(job, w)
    BY <1>4 DEF RangeOK
  <2>4. MaxChunk' = MaxChunk
    BY <1>1 DEF MaxChunk
  <2>5. QED
    BY <1>1, <1>7, <1>8, <2>1, <2>2, <2>3, <2>4 DEF RangeOK
<1>10. ASSUME NEW v \in Members \ {w}
       PROVE  RangeOK(v)' /\ Unclaimed(v)' = Unclaimed(v) /\ RangeFront(v)' = RangeFront(v)
  BY <1>1, OtherRangeStays
<1>11. Unclaimed(w) = 0 => Unclaimed(w)' = 0
  BY <1>2, <1>3 DEF Unclaimed, Larger
<1>12. ASSUME NEW v \in Members PROVE Passed(v)'
  <2>1. offset'[v] = offset[v]
    BY <1>1 DEF OthersStay
  <2>2. \A u \in Members : Unclaimed(u) = 0 => Unclaimed(u)' = 0
    BY <1>10, <1>11
  <2>3. QED
    BY <1>1, <2>1, <2>2, MemberFacts, PassedStays
<1>13. QED
  BY <1>6, <1>9, <1>10, <1>12

\* A thread that finds a range empty leaves it for good.
LEMMA MoveOnStep ==
    ASSUME ClaimInv, ~job.serial, NEW t \in Members, OthersStay(t), LoopTypes',
           pc[t] \in {"claim", "subtract"}, rangeEnd' = rangeEnd,
           offset'[t] = offset[t] + 1, pc'[t] \in {"claim", "gone"},
           NEW w \in Members, w = Victim(t),
           \A v \in Members \ {w} : rangeLength'[v] = rangeLength[v],
           Left(w) <= 0,
           \/ Left(w)' = Left(w)
           \/ pc[t] = "subtract" /\ Left(w)' <= Left(w) /\ Left(w)' >= Left(w) - MaxChunk,
           ~job.nest.dynamic => Left(w)' >= 0
    PROVE  \A v \in Members : RangeOK(v)' /\ Passed(v)' /\ RangeFront(v)' = RangeFront(v)
<1>1. /\ t \in Threads /\ LoopTypes /\ job \in Jobs /\ Members \subseteq Threads /\ job' = job
      /\ offset[t] \in 0 .. (job.threads - 1) /\ job.threads \in Nat
  BY MemberFacts, JobFacts DEF ClaimInv, LoopTypes, OthersStay
<1>2. /\ Left(w) \in Int /\ PendingChunks(w) \in Nat
      /\ rangeEnd[w] \in Nat /\ LengthOf(job, w) \in Nat /\ StartOf(job, w) \in Nat
  BY RangeNumbers
<1>3. Left(w)' \in Int
  <2>1. rangeLength'[w] \in 0 .. (SizeModulus - 1)
    BY <1>1 DEF LoopTypes
  <2>2. QED
    BY <2>1, SignedFacts DEF Left
<1>4. Unclaimed(w) = 0 /\ Unclaimed(w)' = 0 /\ Left(w)' <= Left(w)
  <2>1. Left(w)' <= Left(w)
    BY <1>2, <1>3
  <2>2. QED
    BY <1>2, <1>3, <2>1 DEF Unclaimed, Larger
<1>5. RangeOK(w)
  BY DEF ClaimInv
<1>6. PendingChunks(w)' = PendingChunks(w)
  <2>1. OwnChunk(t, w) = 0
    BY DEF OwnChunk
  <2>2. OwnChunk(t, w)' = 0
    BY DEF OwnChunk
  <2>3. QED
    BY <1>1, <2>1, <2>2, PendingKept
<1>7. RangeFront(w)' = RangeFront(w)
  BY <1>4, <1>6 DEF RangeFront
<1>8. OwnRange(w)' => RangeFront(w)' = OwnerPosition(w)'
  <2>1. w = t => ~OwnRange(w)'
    BY <1>1 DEF OwnRange
  <2>2. w # t => OwnRange(w)' = OwnRange(w) /\ OwnerPosition(w)' = OwnerPosition(w)
    BY <1>1, OthersPosition
  <2>3. QED
    BY <1>5, <1>7, <2>1, <2>2 DEF RangeOK
<1>9. Left(w)' >= -(MaxChunk * (job.threads - Cardinality(Subtracting(w)')))
  BY <1>3, LengthBound
<1>10. RangeOK(w)'
  <2>1. Left(w)' <= LengthOf(job, w)
    BY <1>2, <1>3, <1>4, <1>5 DEF RangeOK
  <2>2. MaxChunk' = MaxChunk
    BY <1>1 DEF MaxChunk
  <2>3. QED
    BY <1>1, <1>5, <1>7, <1>8, <1>9, <2>1, <2>2 DEF RangeOK
<1>11. ASSUME NEW v \in Members \ {w}
       PROVE  RangeOK(v)' /\ Unclaimed(v)' = Unclaimed(v) /\ RangeFront(v)' = RangeFront(v)
  BY <1>1, OtherRangeStays
<1>12. ASSUME NEW v \in Members PROVE Passed(v)'
  <2>1. \A u \in Members : Unclaimed(u) = 0 => Unclaimed(u)' = 0
    BY <1>4, <1>11
  <2>2. CASE v = t
    BY <1>1, <1>4, <2>1, <2>2, MemberFacts, PassedStays
  <2>3. CASE v # t
    <3>1. offset'[v] = offset[v]
      BY <1>1, <2>3 DEF OthersStay
    <3>2. QED
      BY <1>1, <2>1, <3>1, MemberFacts, PassedStays
  <2>4. QED
    BY <2>2, <2>3
<1>13. QED
  BY <1>7, <1>10, <1>11, <1>12

\* A thief that lowers range_end takes what was pending for it.
LEMMA TakeStep ==
    ASSUME ClaimInv, ~job.serial, NEW t \in Members, OthersStay(t), LoopTypes',
           pc[t] = "take", pc'[t] = "chunk", rangeLength' = rangeLength,
           offset'[t] = offset[t], NEW w \in Members, w = Victim(t),
           rangeEnd'[w] = rangeEnd[w] - chunk[t],
           \A v \in Members \ {w} : rangeEnd'[v] = rangeEnd[v]
    PROVE  \A v \in Members : RangeOK(v)' /\ Passed(v)' /\ RangeFront(v)' = RangeFront(v)
<1>1. /\ t \in Threads /\ LoopTypes /\ job \in Jobs /\ Members \subseteq Threads /\ job' = job
      /\ offset[t] \in 0 .. (job.threads - 1) /\ job.threads \in Nat /\ offset[t] > 0
      /\ chunk[t] \in Nat
  <2>1. t \in Threads /\ Phase(t) /\ offset[t] \in 0 .. (job.threads - 1) /\ chunk[t] \in Nat
    BY MemberFacts
  <2>2. LoopTypes /\ job \in Jobs /\ Members \subseteq Threads /\ job.threads \in Nat
    BY JobFacts DEF ClaimInv, LoopTypes
  <2>3. QED
    BY <2>1, <2>2 DEF OthersStay, Phase
<1>2. /\ Left(w) \in Int /\ PendingChunks(w) \in Nat /\ Unclaimed(w) \in Nat
      /\ rangeEnd[w] \in Nat /\ LengthOf(job, w) \in Nat /\ StartOf(job, w) \in Nat
  BY RangeNumbers
<1>3. \A v \in Members : Left(v)' = Left(v) /\ Unclaimed(v)' = Unclaimed(v)
  BY DEF Left, Unclaimed
<1>4. RangeOK(w)
  BY DEF ClaimInv
<1>5. PendingChunks(w)' = PendingChunks(w) - chunk[t]
  <2>1. OwnChunk(t, w) = chunk[t]
    BY DEF OwnChunk
  <2>2. OwnChunk(t, w)' = 0
    BY DEF OwnChunk
  <2>3. PendingChunks(w) = OtherChunks(t, w) + OwnChunk(t, w) /\ OtherChunks(t, w) \in Nat
    BY <1>1, PendingSum
  <2>4. PendingChunks(w)' = OtherChunks(t, w)' + OwnChunk(t, w)'
    BY <1>1, PendingSumNext
  <2>5. OtherChunks(t, w)' = OtherChunks(t, w)
    BY <1>1, OtherChunksStay
  <2>6. QED
    BY <1>1, <2>1, <2>2, <2>3, <2>4, <2>5
<1>6. RangeFront(w)' = RangeFront(w)
  <2>1. RangeFront(w)' = rangeEnd[w] - chunk[t] - Unclaimed(w) - PendingChunks(w)'
    BY <1>3 DEF RangeFront
  <2>2. QED
    BY <1>1, <1>2, <1>5, <2>1 DEF RangeFront
<1>7. OwnRange(w)' => RangeFront(w)' = OwnerPosition(w)'
  <2>1. w = t => ~OwnRange(w)'
    BY <1>1 DEF OwnRange
  <2>2. w # t => OwnRange(w)' = OwnRange(w) /\ OwnerPosition(w)' = OwnerPosition(w)
    BY <1>1, OthersPosition
  <2>3. QED
    BY <1>4, <1>6, <2>1, <2>2 DEF RangeOK
<1>8. Subtracting(w)' = Subtracting(w)
  BY <1>1, SubtractingStays
<1>9. RangeOK(w)'
  <2>1. rangeEnd'[w] <= StartOf(job, w) + LengthOf(job, w)
    BY <1>1, <1>2, <1>4 DEF RangeOK
  <2>2. MaxChunk' = MaxChunk
    BY <1>1 DEF MaxChunk
  <2>3. QED
    BY <1>1, <1>3, <1>4, <1>6, <1>7, <1>8, <2>1, <2>2 DEF RangeOK
<1>10. ASSUME NEW v \in Members \ {w} PROVE RangeOK(v)' /\ RangeFront(v)' = RangeFront(v)
  BY <1>1, OtherRangeStays
<1>11. ASSUME NEW v \in Members PROVE Passed(v)'
  <2>1. offset'[v] = offset[v]
    BY <1>1 DEF OthersStay
  <2>2. QED
    BY <1>1, <1>3, <2>1, MemberFacts, PassedStays
<1>12. QED
  BY <1>6, <1>9, <1>10, <1>11

\* What the threads have yet to locate is in different ranges.
LEMMA WaitingApart ==
    ASSUME ClaimInv, ~job.serial, NEW v \in Members, NEW w \in Members, v # w
    PROVE  Waiting(v) \cap Waiting(w) = {}
<1>1. job \in Jobs /\ job.threads \in Nat /\ GoodJob(job)
  BY JobFacts DEF ClaimInv, LoopTypes
<1>2. ASSUME NEW x \in Members, NEW y \in Members, x < y
      PROVE  Waiting(x) \cap Waiting(y) = {}
  <2>1. /\ x \in 0 .. (job.threads - 1) /\ y \in 0 .. job.threads
    BY <1>1 DEF Members
  <2>2. StartOf(job, x) + LengthOf(job, x) <= StartOf(job, y)
    BY <1>1, <1>2, <2>1, Deal
  <2>3. rangeEnd[x] <= StartOf(job, x) + LengthOf(job, x) /\ StartOf(job, y) <= RangeFront(y)
    BY DEF ClaimInv, RangeOK
  <2>4. /\ RangeFront(x) \in Nat /\ RangeFront(y) \in Nat /\ rangeEnd[x] \in Nat /\ rangeEnd[y] \in Nat
        /\ StartOf(job, x) \in Nat /\ LengthOf(job, x) \in Nat /\ StartOf(job, y) \in Nat
    BY RangeNumbers
  <2>5. QED
    BY <2>2, <2>3, <2>4 DEF Waiting
<1>3. v \in Nat /\ w \in Nat
  BY DEF Members
<1>4. v < w \/ w < v
  BY <1>3
<1>5. QED
  BY <1>2, <1>4

\* An interval cut in two.
LEMMA IntervalCut ==
    ASSUME NEW a \in Nat, NEW b \in Nat, NEW c \in Nat, a <= b, b <= c
    PROVE  /\ a .. (b - 1) \subseteq a .. (c - 1) /\ b .. (c - 1) \subseteq a .. (c - 1)
           /\ \A x : x \in b .. (c - 1) <=> x \in a .. (c - 1) /\ x \notin a .. (b - 1)
           /\ \A x : x \in a .. (b - 1) <=> x \in a .. (c - 1) /\ x \notin b .. (c - 1)
<1>1. \A x \in Int : /\ x \in b .. (c - 1) <=> x \in a .. (c - 1) /\ x \notin a .. (b - 1)
                    /\ x \in a .. (b - 1) <=> x \in a .. (c - 1) /\ x \notin b .. (c - 1)
  OBVIOUS
<1>2. \A x : x \in a .. (b - 1) \/ x \in b .. (c - 1) \/ x \in a .. (c - 1) => x \in Int
  OBVIOUS
<1>3. QED
  BY <1>1, <1>2

\* A step that moves no front and takes nothing moves no item.
LEMMA LocatesNothing ==
    ASSUME NEW t \in Threads, job' = job, rangeEnd' = rangeEnd,
           \A v \in Members : RangeFront(v)' = RangeFront(v), Held(t) = {}, Held(t)' = {}
    PROVE  Locates(t)
<1>1. Members' = Members
  BY DEF Members
<1>2. \A v \in Members : Waiting(v)' = Waiting(v)
  BY DEF Waiting
<1>3. \A n : IsWaiting(n)' <=> IsWaiting(n)
  BY <1>1, <1>2 DEF IsWaiting
<1>4. QED
  BY <1>3 DEF Locates

\* A step that takes items from one range takes those that waited there.
LEMMA LocatesItems ==
    ASSUME ClaimInv, ~job.serial, NEW t \in Threads, job' = job, Held(t) = {},
           NEW w \in Members, Held(t)' \subseteq Waiting(w),
           \A n : n \in Waiting(w)' <=> n \in Waiting(w) /\ n \notin Held(t)',
           \A v \in Members \ {w} : RangeFront(v)' = RangeFront(v) /\ rangeEnd'[v] = rangeEnd[v]
    PROVE  Locates(t)
<1>1. Members' = Members
  BY DEF Members
<1>2. \A v \in Members \ {w} : Waiting(v)' = Waiting(v) /\ Waiting(v) \cap Waiting(w) = {}
  BY WaitingApart DEF Waiting
<1>3. \A n : IsWaiting(n)' <=> IsWaiting(n) /\ n \notin Held(t)'
  BY <1>1, <1>2 DEF IsWaiting
<1>4. \A n \in Held(t)' : IsWaiting(n)
  BY DEF IsWaiting
<1>5. QED
  BY <1>3, <1>4 DEF Locates

-----------------------------------------------------------------------------
(* The steps.                                                              *)

\* Dividing gives the coordinates, whichever way the function takes an index
\* apart.
LEMMA CoordinatesAre ==
    ASSUME job \in Jobs, ~job.serial, NEW n \in Nat
    PROVE  /\ Coordinates(n) \in [1 .. Len(job.range) -> Nat]
           /\ \A a \in DOMAIN job.counts :
                  Coordinates(n)[a]
                  = RowMajor(job.counts, n)[a] * (IF job.nest.dynamic THEN 1 ELSE job.tile[a])
<1> DEFINE D == Len(job.range)
<1>1. /\ job.counts \in Counts /\ Len(job.counts) = D /\ DOMAIN job.counts = 1 .. D
      /\ GoodJob(job)
  BY JobFacts
<1>2. ValidNest(job.nest, D) /\ IsGrid(job.range, job.tile)
  BY <1>1 DEF GoodJob
<1>3. RowMajor(job.counts, n) \in [1 .. D -> Nat]
  BY <1>1, RowMajorFacts
<1>4. CASE job.nest.dynamic
  <2>1. Coordinates(n) = RowMajor(job.counts, n)
    BY <1>4 DEF Coordinates
  <2>2. \A x \in Nat : x * 1 = x
    OBVIOUS
  <2>3. QED
    BY <1>1, <1>3, <1>4, <2>1, <2>2
<1>5. CASE ~job.nest.dynamic
  <2>1. Split(job.nest.cuts, job.counts, n) = RowMajor(job.counts, n)
    BY <1>1, <1>2, <1>5, SplitIsRowMajor DEF ValidNest
  <2>2. Coordinates(n) = [a \in 1 .. D |-> RowMajor(job.counts, n)[a] * job.tile[a]]
    BY <1>1, <1>5, <2>1 DEF Coordinates
  <2>3. \A a \in 1 .. D : job.tile[a] \in Nat
    BY <1>2, CountsFacts DEF IsGrid
  <2>4. \A a \in 1 .. D : RowMajor(job.counts, n)[a] * job.tile[a] \in Nat
    <3>1. \A x, y \in Nat : x * y \in Nat
      OBVIOUS
    <3>2. QED
      BY <1>3, <2>3, <3>1
  <2>5. QED
    BY <1>1, <1>5, <2>2, <2>4
<1>6. QED
  BY <1>1, <1>2, <1>4, <1>5 DEF ValidNest

\* What a thread learns of the core it runs on.
LEMMA LookUpTypes ==
    ASSUME LoopTypes, NEW t \in Threads, LookUpCpu(t)
    PROVE  /\ ratio' \in [Threads -> {2, 4}]
           /\ uarch' \in [Threads -> (UNION {CpuUarchs[u] : u \in Threads}) \cup {DefaultUarch}]
<1>1. PICK cpu \in CpuUarchs[t] :
          ratio' = [ratio EXCEPT ![t] = IF job.nest.dynamic /\ ~job.serial THEN RatioOn(cpu) ELSE @]
  BY DEF LookUpCpu
<1>2. PICK core \in CpuUarchs[t] :
          uarch' = [uarch EXCEPT ![t] = IF "uarch" \in job.nest.ids /\ ~job.shim
                                        THEN UarchOn(core) ELSE @]
  BY DEF LookUpCpu
<1>3. ratio' \in [Threads -> {2, 4}]
  BY <1>1 DEF LoopTypes, RatioOn
<1> DEFINE U == (UNION {CpuUarchs[u] : u \in Threads}) \cup {DefaultUarch}
<1>4. \A x \in CpuUarchs[t] : UarchOn(x) \in U
  <2>1. CpuUarchs[t] \subseteq U /\ DefaultUarch \in U
    OBVIOUS
  <2> HIDE DEF U
  <2>2. QED
    BY <2>1 DEF UarchOn
<1>5. uarch \in [Threads -> U]
  BY DEF LoopTypes
<1> HIDE DEF U
<1>6. uarch' \in [Threads -> U]
  BY <1>2, <1>4, <1>5
<1>7. QED
  BY <1>3, <1>6 DEF U

\* The places of a thread that is in the job.
LEMMA InTheJob ==
    ASSUME ClaimInv, NEW t \in Threads,
           pc[t] \in {"claim", "subtract", "take", "chunk"}
    PROVE  ~job.serial /\ t \in Members /\ LoopTypes /\ job \in Jobs
<1>1. ~job.serial
  BY JobFacts DEF ClaimInv, LoopTypes, SerialPhase
<1>2. Phase(t)
  BY <1>1 DEF ClaimInv
<1>3. t \in Nat /\ job.threads \in Nat
  BY JobFacts DEF Threads, ClaimInv, LoopTypes
<1>4. t < job.threads
  BY <1>2, <1>3 DEF Phase
<1>5. t \in Members
  BY <1>3, <1>4 DEF Members
<1>6. QED
  BY <1>1, <1>5 DEF ClaimInv, LoopTypes

\* A thread that joins the job holds no item yet.
LEMMA JoinStep ==
    ASSUME ClaimInv, NEW t \in Threads, Join(t)
    PROVE  ClaimInv' /\ Locates(t)
<1>1. ~job.serial /\ pc[t] = "out" /\ t < job.threads /\ LoopTypes /\ job \in Jobs /\ Phase(t)
  BY DEF Join, ClaimInv, LoopTypes
<1>2. t \in Members
  BY <1>1, JobFacts DEF Members, Threads
<1>3. /\ job' = job /\ rangeEnd' = rangeEnd /\ rangeLength' = rangeLength /\ offset' = offset
      /\ from' = from /\ chunk' = chunk
      /\ pc' = [pc EXCEPT ![t] = "claim"] /\ at' = [at EXCEPT ![t] = Coordinates(from[t])]
  BY DEF Join, Goto, claimVars
<1>4. OthersStay(t)
  BY <1>1, <1>3 DEF OthersStay, LoopTypes
<1>5. from[t] \in Nat /\ from[t] <= Linear(job.counts)
  BY <1>1, <1>2, MemberFacts
<1>6. LoopTypes'
  <2>1. Coordinates(from[t]) \in [1 .. Len(job.range) -> Nat]
    BY <1>1, <1>5, CoordinatesAre
  <2>2. at' \in [Threads -> [1 .. Len(job.range) -> Nat]]
    BY <1>1, <1>3, <2>1 DEF LoopTypes
  <2>3. pc' \in [Threads -> Labels]
    BY <1>1, <1>3 DEF LoopTypes, Labels
  <2>4. /\ ratio' \in [Threads -> {2, 4}]
        /\ uarch' \in [Threads -> (UNION {CpuUarchs[u] : u \in Threads}) \cup {DefaultUarch}]
    BY <1>1, LookUpTypes DEF Join
  <2>5. QED
    BY <1>1, <1>3, <2>2, <2>3, <2>4 DEF LoopTypes
<1>7. pc'[t] = "claim" /\ at'[t] = Coordinates(from[t])
  BY <1>1, <1>3 DEF LoopTypes
<1>8. Phase(t)'
  BY <1>1, <1>2, <1>3, <1>5, <1>7, JobFacts DEF Phase, Members
<1>9. Placed(t)'
  <2>1. \A a \in DOMAIN job.counts :
            Coordinates(from[t])[a]
            = RowMajor(job.counts, from[t])[a] * (IF job.nest.dynamic THEN 1 ELSE job.tile[a])
    BY <1>1, <1>5, CoordinatesAre
  <2>2. QED
    BY <1>3, <1>7, <2>1 DEF Placed
<1>10. \A v \in Members : RangeOK(v)' /\ Passed(v)' /\ RangeFront(v)' = RangeFront(v)
  <2>1. OwnerPosition(t)' = OwnerPosition(t)
    BY <1>1, <1>3, <1>7 DEF OwnerPosition
  <2>2. QED
    BY <1>1, <1>2, <1>3, <1>4, <1>6, <1>7, <2>1, QuietStep
<1>11. Locates(t)
  BY <1>1, <1>3, <1>7, <1>10, LocatesNothing DEF Held
<1>12. QED
  BY <1>1, <1>4, <1>6, <1>8, <1>9, <1>10, <1>11, ClaimInvNext

\* Claiming one item takes an item that waited, for this thread alone.
LEMMA ClaimOneStep ==
    ASSUME ClaimInv, NEW t \in Threads, ClaimOne(t)
    PROVE  ClaimInv' /\ Locates(t)
<1>1. /\ pc[t] = "claim" /\ ~job.nest.dynamic /\ ~job.serial /\ t \in Members
      /\ LoopTypes /\ job \in Jobs
  BY InTheJob DEF ClaimOne
<1>2. /\ Phase(t) /\ offset[t] \in 0 .. (job.threads - 1) /\ chunk[t] = 0
      /\ from[t] \in Nat
  BY <1>1, MemberFacts DEF Phase
<1>3. PICK w \in Members : w = Victim(t) /\ (OwnRange(t) => w = t)
  BY <1>1, <1>2, VictimIs
<1>4. /\ job' = job /\ rangeEnd' = rangeEnd /\ offset' = offset /\ from' = from /\ at' = at
      /\ ratio' = ratio /\ uarch' = uarch
      /\ rangeLength[w] > 0 /\ rangeLength' = [rangeLength EXCEPT ![w] = @ - 1]
      /\ chunk' = [chunk EXCEPT ![t] = 1]
      /\ pc' = [pc EXCEPT ![t] = IF OwnRange(t) THEN "chunk" ELSE "take"]
  BY <1>3 DEF ClaimOne, Claimed, Goto
<1>5. OthersStay(t)
  BY <1>1, <1>4 DEF OthersStay, LoopTypes
<1>6. /\ w \in Threads /\ rangeLength[w] \in 0 .. (SizeModulus - 1)
      /\ Left(w) = rangeLength[w] /\ Unclaimed(w) = Left(w) /\ Left(w) <= Linear(job.counts)
      /\ RangeFront(w) + PendingChunks(w) + Unclaimed(w) = rangeEnd[w]
      /\ RangeFront(w) \in Nat /\ PendingChunks(w) \in Nat
      /\ rangeEnd[w] <= Linear(job.counts) /\ rangeEnd[w] \in Nat
      /\ OwnRange(w) => RangeFront(w) = OwnerPosition(w)
  <2>1. RangeOK(w)
    BY <1>1 DEF ClaimInv
  <2>2. Left(w) >= 0 /\ Left(w) <= LengthOf(job, w) /\ (OwnRange(w) => RangeFront(w) = OwnerPosition(w))
    BY <1>1, <2>1 DEF RangeOK
  <2>3. /\ w \in Threads /\ rangeLength[w] \in 0 .. (SizeModulus - 1)
        /\ Left(w) \in Int /\ (Left(w) >= 0 => rangeLength[w] = Left(w))
        /\ RangeFront(w) + PendingChunks(w) + Unclaimed(w) = rangeEnd[w]
        /\ RangeFront(w) \in Nat /\ PendingChunks(w) \in Nat
        /\ rangeEnd[w] <= Linear(job.counts) /\ rangeEnd[w] \in Nat
        /\ LengthOf(job, w) \in Nat /\ LengthOf(job, w) <= Linear(job.counts)
    BY <1>1, RangeNumbers
  <2>4. Linear(job.counts) \in Nat
    BY <1>1, JobFacts
  <2>5. Left(w) = rangeLength[w] /\ Unclaimed(w) = Left(w) /\ Left(w) <= Linear(job.counts)
    BY <2>2, <2>3, <2>4 DEF Unclaimed, Larger
  <2>6. QED
    BY <2>2, <2>3, <2>5
<1>7. Linear(job.counts) \in Nat \ {0} /\ 2 * Linear(job.counts) < SizeModulus
      /\ SizeModulus \in Nat /\ MaxChunk \in Nat
  BY <1>1, JobFacts, ChunkBound, SizeAssumption
<1>8. rangeLength'[w] = rangeLength[w] - 1
  BY <1>1, <1>4, <1>6 DEF LoopTypes
<1>9. Left(w)' = Left(w) - 1
  <2>1. rangeLength[w] - 1 \in 0 .. (SizeModulus - 1) /\ 2 * (rangeLength[w] - 1) < SizeModulus
    BY <1>4, <1>6, <1>7
  <2>2. Signed(rangeLength[w] - 1) = rangeLength[w] - 1
    BY <2>1, SignedFacts
  <2>3. QED
    BY <1>6, <1>8, <2>2 DEF Left
<1>10. Unclaimed(w)' = Unclaimed(w) - 1
  BY <1>4, <1>6, <1>9 DEF Unclaimed, Larger
<1>11. LoopTypes'
  <2>1. rangeLength' \in [Threads -> 0 .. (SizeModulus - 1)]
    <3>1. rangeLength[w] - 1 \in 0 .. (SizeModulus - 1)
      BY <1>4, <1>6, <1>7
    <3>2. rangeLength \in [Threads -> 0 .. (SizeModulus - 1)]
      BY <1>1 DEF LoopTypes
    <3>3. QED
      BY <1>4, <1>6, <3>1, <3>2
  <2>2. chunk' \in [Threads -> 0 .. Linear(job.counts)]
    BY <1>1, <1>4, <1>7 DEF LoopTypes
  <2>3. pc' \in [Threads -> Labels]
    BY <1>1, <1>4 DEF LoopTypes, Labels
  <2>4. QED
    BY <1>1, <1>4, <2>1, <2>2, <2>3 DEF LoopTypes
<1>12. chunk'[t] = 1 /\ pc'[t] = (IF OwnRange(t) THEN "chunk" ELSE "take")
  BY <1>1, <1>4 DEF LoopTypes
<1>13. OwnRange(t) => from[t] + 1 <= Linear(job.counts)
  <2>1. OwnRange(t) => RangeFront(w) = from[t]
    BY <1>1, <1>2, <1>3, <1>6 DEF OwnerPosition
  <2>2. Unclaimed(w) >= 1
    BY <1>4, <1>6
  <2>3. QED
    BY <1>2, <1>6, <1>7, <2>1, <2>2
<1>14. Phase(t)'
  <2>1. from[t] <= Linear(job.counts) /\ t < job.threads
    BY <1>1, MemberFacts
  <2>2. CASE OwnRange(t)
    BY <1>1, <1>2, <1>4, <1>7, <1>12, <1>13, <2>1, <2>2, JobFacts DEF Phase, Members
  <2>3. CASE ~OwnRange(t)
    BY <1>1, <1>2, <1>4, <1>7, <1>12, <2>1, <2>3, JobFacts DEF Phase, OwnRange, Members
  <2>4. QED
    BY <2>2, <2>3
<1>15. HasPlace(t)' => Placed(t)'
  <2>1. HasPlace(t)' => HasPlace(t)
    BY <1>1, <1>4, <1>12 DEF HasPlace, OwnRange
  <2>2. QED
    BY <1>4, <2>1, PlacedStays DEF ClaimInv
<1>16. /\ \A v \in Members : RangeOK(v)' /\ Passed(v)'
       /\ \A v \in Members \ {w} : RangeFront(v)' = RangeFront(v)
       /\ RangeFront(w)' = RangeFront(w) + (IF OwnRange(t) THEN 1 ELSE 0)
  <2>1. \A v \in Members \ {w} : rangeLength'[v] = rangeLength[v]
    BY <1>4, <1>1, JobFacts DEF LoopTypes
  <2>2. Left(w)' <= Left(w) /\ Left(w)' >= -MaxChunk /\ Left(w)' >= 0
    BY <1>4, <1>6, <1>7, <1>9
  <2> DEFINE n == 1
  <2>3. n \in Nat \ {0} /\ chunk'[t] = n /\ Unclaimed(w)' = Unclaimed(w) - n
    BY <1>10, <1>12
  <2> HIDE DEF n
  <2>4. /\ \A v \in Members : RangeOK(v)' /\ Passed(v)'
        /\ \A v \in Members \ {w} : RangeFront(v)' = RangeFront(v)
        /\ RangeFront(w)' = RangeFront(w) + (IF OwnRange(t) THEN n ELSE 0)
    BY <1>1, <1>3, <1>4, <1>5, <1>11, <1>12, <2>1, <2>2, <2>3, ClaimStep
  <2>5. QED
    BY <2>4 DEF n
<1>17. Locates(t)
  <2>1. Held(t) = {}
    BY <1>1 DEF Held
  <2>2. CASE OwnRange(t)
    <3>1. Held(t)' = {from[t]}
      <4>1. Held(t)' = from[t] .. (from[t] + 1 - 1)
        BY <1>4, <1>12, <2>2 DEF Held
      <4>2. QED
        BY <1>2, <4>1
    <3>2. RangeFront(w) = from[t]
      BY <1>1, <1>2, <1>3, <1>6, <2>2 DEF OwnerPosition
    <3>3. RangeFront(w) < rangeEnd[w]
      BY <1>4, <1>6
    <3>4. RangeFront(w)' = RangeFront(w) + 1
      BY <1>16, <2>2
    <3>5. Waiting(w)' = (RangeFront(w) + 1) .. (rangeEnd[w] - 1)
      BY <1>4, <3>4 DEF Waiting
    <3>6. /\ Held(t)' \subseteq Waiting(w)
          /\ \A x : x \in Waiting(w)' <=> x \in Waiting(w) /\ x \notin Held(t)'
      <4> DEFINE a == from[t]
                 b == from[t] + 1
                 c == rangeEnd[w]
      <4>1. a \in Nat /\ b \in Nat /\ c \in Nat /\ a <= b /\ b <= c
        BY <1>2, <1>6, <3>2, <3>3
      <4>2. Held(t)' = a .. (b - 1)
        BY <1>2, <3>1
      <4>3. Waiting(w) = a .. (c - 1) /\ Waiting(w)' = b .. (c - 1)
        BY <3>2, <3>5 DEF Waiting
      <4> HIDE DEF a, b, c
      <4>4. QED
        BY <4>1, <4>2, <4>3, IntervalCut
    <3>7. QED
      BY <1>1, <1>4, <1>16, <2>1, <3>6, LocatesItems
  <2>3. CASE ~OwnRange(t)
    <3>1. Held(t)' = {}
      BY <1>12, <2>3 DEF Held
    <3>2. RangeFront(w)' = RangeFront(w)
      BY <1>6, <1>16, <2>3
    <3>3. \A v \in Members : RangeFront(v)' = RangeFront(v)
      BY <1>16, <3>2
    <3>4. QED
      BY <1>4, <2>1, <3>1, <3>3, LocatesNothing
  <2>4. QED
    BY <2>2, <2>3
<1>18. QED
  BY <1>1, <1>5, <1>11, <1>14, <1>15, <1>16, <1>17, ClaimInvNext

\* Sizing a chunk claims nothing.
LEMMA SizeChunkStep ==
    ASSUME ClaimInv, NEW t \in Threads, SizeChunk(t)
    PROVE  ClaimInv' /\ Locates(t)
<1>1. /\ pc[t] = "claim" /\ job.nest.dynamic /\ ~job.serial /\ t \in Members
      /\ LoopTypes /\ job \in Jobs
  BY InTheJob DEF SizeChunk
<1>2. /\ Phase(t) /\ offset[t] \in 0 .. (job.threads - 1) /\ chunk[t] = 0
      /\ from[t] \in Nat /\ ratio[t] \in {2, 4}
  BY <1>1, MemberFacts DEF Phase
<1>3. PICK w \in Members : w = Victim(t)
  BY <1>1, <1>2, VictimIs
<1> DEFINE n == Larger(rangeLength[w] \div ratio[t], 1)
<1>4. /\ job' = job /\ rangeEnd' = rangeEnd /\ rangeLength' = rangeLength
      /\ offset' = offset /\ from' = from /\ at' = at
      /\ ratio' = ratio /\ uarch' = uarch /\ Left(w) > 0
      /\ chunk' = [chunk EXCEPT ![t] = n] /\ pc' = [pc EXCEPT ![t] = "subtract"]
  BY <1>3 DEF SizeChunk, Goto, Left, claimVars
<1>5. OthersStay(t)
  BY <1>1, <1>4 DEF OthersStay, LoopTypes
<1>6. MaxChunk \in Nat /\ n \in 1 .. MaxChunk
  <2>1. rangeLength[w] \in Nat /\ rangeLength[w] <= LengthOf(job, w)
    <3>1. RangeOK(w)
      BY <1>1 DEF ClaimInv
    <3>2. /\ Left(w) \in Int /\ rangeLength[w] \in 0 .. (SizeModulus - 1)
          /\ Left(w) >= 0 => rangeLength[w] = Left(w)
      BY <1>1, RangeNumbers
    <3>3. QED
      BY <1>4, <3>1, <3>2 DEF RangeOK
  <2>2. QED
    BY <1>1, <1>2, <2>1, ChunkBound
<1> HIDE DEF n
<1>7. n <= Linear(job.counts) /\ Linear(job.counts) \in Nat
  <2>1. MaxChunk * job.threads <= Linear(job.counts) /\ job.threads \in Nat \ {0}
        /\ Linear(job.counts) \in Nat
    BY <1>1, JobFacts, ChunkBound
  <2>2. \A x, y \in Nat : y >= 1 => x <= x * y
    OBVIOUS
  <2>3. MaxChunk <= MaxChunk * job.threads
    BY <1>6, <2>1, <2>2
  <2>4. QED
    BY <1>6, <2>1, <2>3
<1>8. LoopTypes'
  <2>1. chunk' \in [Threads -> 0 .. Linear(job.counts)]
    BY <1>1, <1>4, <1>6, <1>7 DEF LoopTypes
  <2>2. pc' \in [Threads -> Labels]
    BY <1>1, <1>4 DEF LoopTypes, Labels
  <2>3. QED
    BY <1>1, <1>4, <2>1, <2>2 DEF LoopTypes
<1>9. chunk'[t] = n /\ pc'[t] = "subtract"
  BY <1>1, <1>4 DEF LoopTypes
<1>10. Phase(t)'
  <2>1. from[t] <= Linear(job.counts) /\ t < job.threads
    BY <1>1, MemberFacts
  <2>2. MaxChunk' = MaxChunk
    BY <1>4 DEF MaxChunk
  <2>3. QED
    BY <1>1, <1>2, <1>4, <1>6, <1>7, <1>9, <2>1, <2>2, JobFacts DEF Phase, Members
<1>11. HasPlace(t)' => Placed(t)'
  <2>1. HasPlace(t)' => HasPlace(t)
    BY <1>1, <1>4, <1>9 DEF HasPlace, OwnRange
  <2>2. QED
    BY <1>4, <2>1, PlacedStays DEF ClaimInv
<1>12. \A v \in Members : RangeOK(v)' /\ Passed(v)' /\ RangeFront(v)' = RangeFront(v)
  <2>1. OwnerPosition(t)' = OwnerPosition(t)
    BY <1>1, <1>2, <1>4, <1>9 DEF OwnerPosition
  <2>2. Left(Victim(t)) > 0
    BY <1>3, <1>4
  <2>3. QED
    BY <1>1, <1>4, <1>5, <1>8, <1>9, <2>1, <2>2, QuietStep
<1>13. Locates(t)
  BY <1>1, <1>4, <1>9, <1>12, LocatesNothing DEF Held
<1>14. QED
  BY <1>1, <1>5, <1>8, <1>10, <1>11, <1>12, <1>13, ClaimInvNext

\* What a thread does that finds a range empty.
LEMMA MoveOnFrame ==
    ASSUME ClaimInv, ~job.serial, NEW t \in Members, pc[t] \in {"claim", "subtract"}, MoveOn(t),
           job' = job, rangeEnd' = rangeEnd, at' = at, ratio' = ratio, uarch' = uarch,
           rangeLength' \in [Threads -> 0 .. (SizeModulus - 1)]
    PROVE  /\ OthersStay(t) /\ LoopTypes' /\ Phase(t)' /\ ~HasPlace(t)'
           /\ offset'[t] = offset[t] + 1 /\ pc'[t] \in {"claim", "gone"}
<1>1. /\ t \in Threads /\ t \in Nat /\ t < job.threads /\ Phase(t) /\ LoopTypes /\ job \in Jobs
      /\ offset[t] \in 0 .. (job.threads - 1)
  BY MemberFacts DEF ClaimInv, LoopTypes
<1>2. /\ job.threads \in Nat /\ MaxThreads \in Nat /\ job.threads <= MaxThreads
      /\ Linear(job.counts) \in Nat
  BY <1>1, JobFacts
<1>3. /\ offset' = [offset EXCEPT ![t] = offset[t] + 1] /\ from' = [from EXCEPT ![t] = 0]
      /\ chunk' = [chunk EXCEPT ![t] = 0]
      /\ pc' = [pc EXCEPT ![t] = IF offset[t] + 1 < job.threads THEN "claim" ELSE "gone"]
  BY DEF MoveOn, Goto, NextOffset
<1>4. /\ offset'[t] = offset[t] + 1 /\ from'[t] = 0 /\ chunk'[t] = 0
      /\ pc'[t] = IF offset[t] + 1 < job.threads THEN "claim" ELSE "gone"
  BY <1>1, <1>3 DEF LoopTypes
<1>5. OthersStay(t)
  BY <1>1, <1>3 DEF OthersStay, LoopTypes
<1>6. LoopTypes'
  <2>1. offset' \in [Threads -> 0 .. MaxThreads]
    <3>1. offset[t] + 1 \in 0 .. MaxThreads
      BY <1>1, <1>2
    <3>2. QED
      BY <1>1, <1>3, <3>1 DEF LoopTypes
  <2>2. from' \in [Threads -> 0 .. Linear(job.counts)] /\ chunk' \in [Threads -> 0 .. Linear(job.counts)]
    BY <1>1, <1>2, <1>3 DEF LoopTypes
  <2>3. pc' \in [Threads -> Labels]
    BY <1>1, <1>3 DEF LoopTypes, Labels
  <2>4. QED
    BY <1>1, <2>1, <2>2, <2>3 DEF LoopTypes
<1>7. Phase(t)'
  BY <1>1, <1>2, <1>4 DEF Phase
<1>8. ~HasPlace(t)'
  BY <1>1, <1>4 DEF HasPlace, OwnRange
<1>9. QED
  BY <1>4, <1>5, <1>6, <1>7, <1>8

\* A range found empty is passed for good.
LEMMA FoundEmptyStep ==
    ASSUME ClaimInv, NEW t \in Threads, FoundEmpty(t)
    PROVE  ClaimInv' /\ Locates(t)
<1>1. /\ pc[t] = "claim" /\ ~job.serial /\ t \in Members /\ LoopTypes /\ job \in Jobs
      /\ MoveOn(t) /\ job' = job /\ rangeEnd' = rangeEnd /\ rangeLength' = rangeLength
      /\ at' = at /\ ratio' = ratio /\ uarch' = uarch
  BY InTheJob DEF FoundEmpty, claimVars
<1>2. /\ OthersStay(t) /\ LoopTypes' /\ Phase(t)' /\ ~HasPlace(t)'
      /\ offset'[t] = offset[t] + 1 /\ pc'[t] \in {"claim", "gone"}
  BY <1>1, MoveOnFrame DEF LoopTypes
<1>3. PICK w \in Members : w = Victim(t)
  BY <1>1, MemberFacts, VictimIs
<1>4. Left(w) <= 0
  <2>1. CASE job.nest.dynamic
    BY <1>3, <2>1 DEF FoundEmpty, Left
  <2>2. CASE ~job.nest.dynamic
    <3>1. rangeLength[w] = 0 /\ rangeLength[w] \in 0 .. (SizeModulus - 1)
      BY <1>1, <1>3, <2>2, RangeNumbers DEF FoundEmpty
    <3>2. Left(w) <= rangeLength[w]
      BY <1>1, RangeNumbers
    <3>3. QED
      BY <3>1, <3>2
  <2>3. QED
    BY <2>1, <2>2
<1>5. Left(w)' = Left(w) /\ (~job.nest.dynamic => Left(w)' >= 0)
  BY <1>1 DEF Left, ClaimInv, RangeOK
<1>6. \A v \in Members : RangeOK(v)' /\ Passed(v)' /\ RangeFront(v)' = RangeFront(v)
  BY <1>1, <1>2, <1>3, <1>4, <1>5, MoveOnStep
<1>7. Locates(t)
  BY <1>1, <1>2, <1>6, LocatesNothing DEF Held
<1>8. QED
  BY <1>1, <1>2, <1>6, <1>7, ClaimInvNext

\* A subtraction cannot bring range_length as low as to read as a large number.
LEMMA SubtractBound ==
    ASSUME ClaimInv, ~job.serial, NEW t \in Members, pc[t] = "subtract",
           NEW w \in Members, w = Victim(t)
    PROVE  /\ job.nest.dynamic /\ MaxChunk \in Nat /\ chunk[t] \in 1 .. MaxChunk
           /\ Left(w) - chunk[t] >= -Linear(job.counts)
<1>1. /\ job \in Jobs /\ t \in Threads /\ Phase(t) /\ chunk[t] \in Nat
      /\ Linear(job.counts) \in Nat /\ job.threads \in Nat \ {0}
  BY MemberFacts, JobFacts DEF ClaimInv, LoopTypes
<1>2. MaxChunk \in Nat /\ MaxChunk * job.threads <= Linear(job.counts)
  BY <1>1, ChunkBound
<1>3. job.nest.dynamic /\ chunk[t] \in 1 .. MaxChunk
  BY <1>1, <1>2 DEF Phase
<1>4. Left(w) \in Int
  BY RangeNumbers
<1> DEFINE T == job.threads
           k == Cardinality(Subtracting(w))
<1>5. k \in 1 .. T
  <2>1. IsFiniteSet(Subtracting(w)) /\ k \in 0 .. T
    BY <1>1, SubtractingCount
  <2>2. t \in Subtracting(w)
    BY DEF Subtracting
  <2>3. k # 0
    BY <2>1, <2>2, FS_EmptySet
  <2>4. QED
    BY <1>1, <2>1, <2>3
<1>6. Left(w) <= 0 => Left(w) >= -(MaxChunk * (T - k))
  BY DEF ClaimInv, RangeOK
<1> HIDE DEF k
<1> DEFINE y == T - k
<1>7. y \in Nat /\ y + 1 <= T
  BY <1>1, <1>5
<1> HIDE DEF y
<1>8. \A x, y1, z \in Nat : y1 + 1 <= z => x * y1 + x <= x * z /\ x * y1 \in Nat /\ x * z \in Nat
  <2>1. \A x, y1, d \in Nat : x * (y1 + 1 + d) = x * y1 + x + x * d
        /\ x * d \in Nat /\ x * y1 \in Nat /\ x * (y1 + 1 + d) \in Nat
    OBVIOUS
  <2>2. SUFFICES ASSUME NEW x \in Nat, NEW y1 \in Nat, NEW z \in Nat, y1 + 1 <= z
                 PROVE  x * y1 + x <= x * z /\ x * y1 \in Nat /\ x * z \in Nat
    OBVIOUS
  <2>3. PICK d \in Nat : z = y1 + 1 + d
    BY <2>2, z = y1 + 1 + (z - (y1 + 1))
  <2>4. QED
    BY <2>1, <2>3
<1> DEFINE p == MaxChunk * y
           q == MaxChunk * T
<1>9. p \in Nat /\ q \in Nat /\ p + MaxChunk <= q
  BY <1>1, <1>2, <1>7, <1>8
<1>10. Left(w) <= 0 => Left(w) >= -p
  BY <1>6 DEF y
<1>11. q <= Linear(job.counts)
  BY <1>2
<1> HIDE DEF p, q
<1>12. QED
  BY <1>1, <1>2, <1>3, <1>4, <1>9, <1>10, <1>11

\* A subtraction from range_length takes a chunk, or finds too little left.
LEMMA SubtractChunkStep ==
    ASSUME ClaimInv, NEW t \in Threads, SubtractChunk(t)
    PROVE  ClaimInv' /\ Locates(t)
<1>1. /\ pc[t] = "subtract" /\ ~job.serial /\ t \in Members /\ LoopTypes /\ job \in Jobs
  BY InTheJob DEF SubtractChunk
<1>2. /\ Phase(t) /\ offset[t] \in 0 .. (job.threads - 1)
      /\ from[t] \in 0 .. Linear(job.counts) /\ t < job.threads
  BY <1>1, MemberFacts
<1>3. PICK w \in Members : w = Victim(t) /\ (OwnRange(t) => w = t)
  BY <1>1, <1>2, VictimIs
<1> DEFINE c == chunk[t]
           n == Smaller(c, rangeLength[w])
<1>4. /\ job' = job /\ rangeEnd' = rangeEnd /\ at' = at /\ ratio' = ratio /\ uarch' = uarch
      /\ rangeLength' = [rangeLength EXCEPT ![w] = Wrap(@ - c)]
  BY <1>3 DEF SubtractChunk
<1>5. /\ job.nest.dynamic /\ MaxChunk \in Nat /\ c \in 1 .. MaxChunk
      /\ Left(w) - c >= -Linear(job.counts)
  BY <1>1, <1>3, SubtractBound
<1>6. /\ w \in Threads /\ rangeLength[w] \in 0 .. (SizeModulus - 1)
      /\ Left(w) \in Int /\ (Left(w) >= 0 => rangeLength[w] = Left(w))
      /\ RangeFront(w) + PendingChunks(w) + Unclaimed(w) = rangeEnd[w]
      /\ RangeFront(w) \in Nat /\ PendingChunks(w) \in Nat
      /\ rangeEnd[w] <= Linear(job.counts) /\ rangeEnd[w] \in Nat
      /\ LengthOf(job, w) \in Nat /\ LengthOf(job, w) <= Linear(job.counts)
  BY <1>1, RangeNumbers
<1>7. Linear(job.counts) \in Nat /\ 2 * Linear(job.counts) < SizeModulus /\ SizeModulus \in Nat
  BY <1>1, JobFacts, SizeAssumption
<1>8. RangeOK(w) /\ Left(w) <= LengthOf(job, w) /\ (OwnRange(w) => RangeFront(w) = OwnerPosition(w))
  BY <1>1 DEF ClaimInv, RangeOK
<1> HIDE DEF c
<1>9. Wrap(rangeLength[w] - c) \in 0 .. (SizeModulus - 1)
      /\ Signed(Wrap(rangeLength[w] - c)) = Left(w) - c
  <2>1. 2 * (Signed(rangeLength[w]) - c) >= -SizeModulus
    BY <1>5, <1>6, <1>7 DEF Left
  <2>2. c \in Nat
    BY <1>5
  <2>3. QED
    BY <1>6, <2>1, <2>2, WrapDown DEF Left
<1>10. rangeLength' \in [Threads -> 0 .. (SizeModulus - 1)]
       /\ \A v \in Members \ {w} : rangeLength'[v] = rangeLength[v]
  <2>1. rangeLength \in [Threads -> 0 .. (SizeModulus - 1)] /\ Members \subseteq Threads
    BY <1>1, JobFacts DEF LoopTypes
  <2>2. QED
    BY <1>4, <1>6, <1>9, <2>1
<1>11. Left(w)' = Left(w) - c
  <2>1. rangeLength'[w] = Wrap(rangeLength[w] - c)
    BY <1>1, <1>4, <1>6 DEF LoopTypes
  <2>2. QED
    BY <1>9, <2>1 DEF Left
<1>12. CASE ~StillPositive(rangeLength[w])
  <2>1. MoveOn(t)
    BY <1>3, <1>12 DEF SubtractChunk
  <2>2. /\ OthersStay(t) /\ LoopTypes' /\ Phase(t)' /\ ~HasPlace(t)'
        /\ offset'[t] = offset[t] + 1 /\ pc'[t] \in {"claim", "gone"}
    BY <1>1, <1>4, <1>10, <2>1, MoveOnFrame
  <2>3. Left(w) <= 0
    BY <1>6, <1>12 DEF StillPositive, Left
  <2>4. Left(w)' <= Left(w) /\ Left(w)' >= Left(w) - MaxChunk
    BY <1>5, <1>6, <1>11
  <2>5. \A v \in Members : RangeOK(v)' /\ Passed(v)' /\ RangeFront(v)' = RangeFront(v)
    BY <1>1, <1>3, <1>4, <1>5, <1>10, <2>2, <2>3, <2>4, MoveOnStep
  <2>6. Locates(t)
    BY <1>1, <1>4, <2>2, <2>5, LocatesNothing DEF Held
  <2>7. QED
    BY <1>1, <2>2, <2>5, <2>6, ClaimInvNext
<1>13. CASE StillPositive(rangeLength[w])
  <2>1. /\ Left(w) > 0 /\ rangeLength[w] = Left(w) /\ Unclaimed(w) = Left(w)
        /\ Left(w) <= Linear(job.counts)
    <3>1. Left(w) > 0
      BY <1>13 DEF StillPositive, Left
    <3>2. QED
      BY <1>6, <1>7, <1>8, <3>1 DEF Unclaimed, Larger
  <2>2. n \in Nat \ {0} /\ n <= Unclaimed(w) /\ n <= Linear(job.counts)
    BY <1>5, <1>6, <1>7, <2>1 DEF Smaller
  <2>3. Unclaimed(w)' = Unclaimed(w) - n
    BY <1>5, <1>6, <1>11, <2>1 DEF Unclaimed, Larger, Smaller
  <2>4. /\ offset' = offset /\ from' = from
        /\ chunk' = [chunk EXCEPT ![t] = n]
        /\ pc' = [pc EXCEPT ![t] = IF OwnRange(t) THEN "chunk" ELSE "take"]
    BY <1>3, <1>13 DEF SubtractChunk, Claimed, Goto, c
  <2> HIDE DEF n
  <2>5. OthersStay(t)
    BY <1>1, <1>4, <2>4 DEF OthersStay, LoopTypes
  <2>6. chunk'[t] = n /\ pc'[t] = IF OwnRange(t) THEN "chunk" ELSE "take"
    BY <1>1, <2>4 DEF LoopTypes
  <2>7. LoopTypes'
    <3>1. chunk' \in [Threads -> 0 .. Linear(job.counts)]
      BY <1>1, <1>7, <2>2, <2>4 DEF LoopTypes
    <3>2. pc' \in [Threads -> Labels]
      BY <1>1, <2>4 DEF LoopTypes, Labels
    <3>3. QED
      BY <1>1, <1>4, <1>10, <2>4, <3>1, <3>2 DEF LoopTypes
  <2>8. OwnRange(t) => from[t] + n <= Linear(job.counts)
    <3>1. OwnRange(t) => RangeFront(w) = from[t]
      BY <1>1, <1>2, <1>3, <1>8 DEF OwnerPosition
    <3>2. QED
      BY <1>2, <1>6, <1>7, <2>1, <2>2, <3>1
  <2>9. Phase(t)'
    <3>1. t \in Nat /\ job.threads \in Nat
      BY <1>1, MemberFacts, JobFacts
    <3>2. CASE OwnRange(t)
      BY <1>1, <1>2, <1>4, <1>5, <1>7, <2>2, <2>4, <2>6, <2>8, <3>1, <3>2 DEF Phase
    <3>3. CASE ~OwnRange(t)
      <4>1. offset[t] > 0
        BY <1>2, <3>3 DEF OwnRange
      <4>2. QED
        BY <1>1, <1>2, <1>4, <1>5, <1>7, <2>2, <2>4, <2>6, <3>1, <3>3, <4>1 DEF Phase
    <3>4. QED
      BY <3>2, <3>3
  <2>10. HasPlace(t)' => Placed(t)'
    <3>1. HasPlace(t)' => HasPlace(t)
      BY <1>1, <1>4, <2>4, <2>6 DEF HasPlace, OwnRange
    <3>2. QED
      BY <1>4, <2>4, <3>1, PlacedStays DEF ClaimInv
  <2>11. Left(w)' <= Left(w) /\ Left(w)' >= -MaxChunk
    BY <1>5, <1>6, <1>11, <2>1
  <2>12. /\ \A v \in Members : RangeOK(v)' /\ Passed(v)'
         /\ \A v \in Members \ {w} : RangeFront(v)' = RangeFront(v)
         /\ RangeFront(w)' = RangeFront(w) + (IF OwnRange(t) THEN n ELSE 0)
    BY <1>1, <1>3, <1>4, <1>5, <1>10, <2>2, <2>3, <2>4, <2>5, <2>6, <2>7, <2>11, ClaimStep
  <2>13. Locates(t)
    <3>1. Held(t) = {}
      BY <1>1 DEF Held
    <3>2. CASE OwnRange(t)
      <4>1. Held(t)' = from[t] .. (from[t] + n - 1)
        BY <2>4, <2>6, <3>2 DEF Held
      <4>2. RangeFront(w) = from[t]
        BY <1>1, <1>2, <1>3, <1>8, <3>2 DEF OwnerPosition
      <4>3. RangeFront(w) + n <= rangeEnd[w]
        BY <1>6, <2>1, <2>2
      <4>4. RangeFront(w)' = RangeFront(w) + n
        BY <2>12, <3>2
      <4>5. Waiting(w)' = (RangeFront(w) + n) .. (rangeEnd[w] - 1)
        BY <1>4, <4>4 DEF Waiting
      <4>6. /\ Held(t)' \subseteq Waiting(w)
            /\ \A x : x \in Waiting(w)' <=> x \in Waiting(w) /\ x \notin Held(t)'
        <5> DEFINE a == from[t]
                   b == from[t] + n
                   e == rangeEnd[w]
        <5>1. a \in Nat /\ b \in Nat /\ e \in Nat /\ a <= b /\ b <= e
          BY <1>2, <1>6, <2>2, <4>2, <4>3
        <5>2. Held(t)' = a .. (b - 1)
          BY <1>2, <2>2, <4>1
        <5>3. Waiting(w) = a .. (e - 1) /\ Waiting(w)' = b .. (e - 1)
          BY <4>2, <4>5 DEF Waiting
        <5> HIDE DEF a, b, e
        <5>4. QED
          BY <5>1, <5>2, <5>3, IntervalCut
      <4>7. QED
        BY <1>1, <1>4, <2>12, <3>1, <4>6, LocatesItems
    <3>3. CASE ~OwnRange(t)
      <4>1. Held(t)' = {}
        BY <2>6, <3>3 DEF Held
      <4>2. RangeFront(w)' = RangeFront(w)
        BY <1>6, <2>12, <3>3
      <4>3. \A v \in Members : RangeFront(v)' = RangeFront(v)
        BY <2>12, <4>2
      <4>4. QED
        BY <1>4, <3>1, <4>1, <4>3, LocatesNothing
    <3>4. QED
      BY <3>2, <3>3
  <2>14. QED
    BY <1>1, <2>5, <2>7, <2>9, <2>10, <2>12, <2>13, ClaimInvNext
<1>14. QED
  BY <1>12, <1>13

\* Subtracting from range_end takes the chunk's items, where they lie.
LEMMA TakeEndStep ==
    ASSUME ClaimInv, NEW t \in Threads, TakeEnd(t)
    PROVE  ClaimInv' /\ Locates(t)
<1>1. /\ pc[t] = "take" /\ ~job.serial /\ t \in Members /\ LoopTypes /\ job \in Jobs
  BY InTheJob DEF TakeEnd
<1>2. /\ Phase(t) /\ offset[t] \in 0 .. (job.threads - 1) /\ t < job.threads
      /\ offset[t] > 0 /\ chunk[t] \in Nat /\ chunk[t] > 0
  <2>1. Phase(t) /\ offset[t] \in 0 .. (job.threads - 1) /\ t < job.threads /\ chunk[t] \in Nat
    BY <1>1, MemberFacts
  <2>2. QED
    BY <1>1, <2>1 DEF Phase
<1>3. PICK w \in Members : w = Victim(t)
  BY <1>1, <1>2, VictimIs
<1> DEFINE new == rangeEnd[w] - chunk[t]
<1>4. /\ job' = job /\ rangeLength' = rangeLength /\ offset' = offset /\ chunk' = chunk
      /\ ratio' = ratio /\ uarch' = uarch
      /\ rangeEnd' = [rangeEnd EXCEPT ![w] = @ - chunk[t]]
      /\ from' = [from EXCEPT ![t] = new]
      /\ at' = [at EXCEPT ![t] = Coordinates(new)]
      /\ pc' = [pc EXCEPT ![t] = "chunk"]
  BY <1>3 DEF TakeEnd, Goto, LoweredEnd
<1>5. OthersStay(t)
  BY <1>1, <1>4 DEF OthersStay, LoopTypes
<1>6. /\ w \in Threads /\ PendingChunks(w) \in Nat /\ Unclaimed(w) \in Nat
      /\ RangeFront(w) + PendingChunks(w) + Unclaimed(w) = rangeEnd[w]
      /\ RangeFront(w) \in Nat /\ rangeEnd[w] <= Linear(job.counts) /\ rangeEnd[w] \in Nat
  BY <1>1, RangeNumbers
<1>7. PendingChunks(w) >= chunk[t]
  <2>1. PendingChunks(w) = OtherChunks(t, w) + OwnChunk(t, w) /\ OtherChunks(t, w) \in Nat
    BY <1>1, PendingSum
  <2>2. OwnChunk(t, w) = chunk[t]
    BY <1>1, <1>3 DEF OwnChunk
  <2>3. QED
    BY <1>2, <2>1, <2>2
<1>8. Linear(job.counts) \in Nat /\ job.threads \in Nat /\ t \in Nat
  BY <1>1, JobFacts, MemberFacts
<1>9. new \in 0 .. Linear(job.counts) /\ new + chunk[t] <= Linear(job.counts) /\ new \in Nat
  BY <1>2, <1>6, <1>7, <1>8
<1> HIDE DEF new
<1>10. /\ Coordinates(new) \in [1 .. Len(job.range) -> Nat]
       /\ \A a \in DOMAIN job.counts :
              Coordinates(new)[a]
              = RowMajor(job.counts, new)[a] * (IF job.nest.dynamic THEN 1 ELSE job.tile[a])
  BY <1>1, <1>9, CoordinatesAre
<1>11. LoopTypes'
  <2>1. rangeEnd' \in [Threads -> 0 .. Linear(job.counts)]
    BY <1>1, <1>4, <1>6, <1>9 DEF LoopTypes, new
  <2>2. from' \in [Threads -> 0 .. Linear(job.counts)]
    BY <1>1, <1>4, <1>9 DEF LoopTypes
  <2>3. at' \in [Threads -> [1 .. Len(job.range) -> Nat]]
    BY <1>1, <1>4, <1>10 DEF LoopTypes
  <2>4. pc' \in [Threads -> Labels]
    BY <1>1, <1>4 DEF LoopTypes, Labels
  <2>5. QED
    BY <1>1, <1>4, <2>1, <2>2, <2>3, <2>4 DEF LoopTypes
<1>12. pc'[t] = "chunk" /\ from'[t] = new /\ at'[t] = Coordinates(new)
  BY <1>1, <1>4 DEF LoopTypes
<1>13. Phase(t)'
  BY <1>1, <1>2, <1>4, <1>8, <1>9, <1>12 DEF Phase
<1>14. Placed(t)'
  BY <1>4, <1>10, <1>12 DEF Placed
<1>15. rangeEnd'[w] = rangeEnd[w] - chunk[t] /\ \A v \in Members \ {w} : rangeEnd'[v] = rangeEnd[v]
  BY <1>1, <1>4, <1>6, JobFacts DEF LoopTypes
<1>16. \A v \in Members : RangeOK(v)' /\ Passed(v)' /\ RangeFront(v)' = RangeFront(v)
  BY <1>1, <1>3, <1>4, <1>5, <1>11, <1>12, <1>15, TakeStep
<1>17. Locates(t)
  <2>1. Held(t) = {}
    BY <1>1 DEF Held
  <2>2. Held(t)' = new .. (new + chunk[t] - 1)
    BY <1>4, <1>12 DEF Held
  <2>3. Waiting(w)' = RangeFront(w) .. (new - 1)
    BY <1>15, <1>16 DEF Waiting, new
  <2>4. RangeFront(w) <= new /\ rangeEnd[w] = new + chunk[t]
    BY <1>2, <1>6, <1>7, <1>9 DEF new
  <2>5. /\ Held(t)' \subseteq Waiting(w)
        /\ \A x : x \in Waiting(w)' <=> x \in Waiting(w) /\ x \notin Held(t)'
    <3> DEFINE a == RangeFront(w)
               c == rangeEnd[w]
    <3>1. a \in Nat /\ new \in Nat /\ c \in Nat /\ a <= new /\ new <= c
      BY <1>2, <1>6, <1>9, <2>4
    <3>2. Held(t)' = new .. (c - 1)
      BY <1>2, <1>6, <1>9, <2>2, <2>4
    <3>3. Waiting(w) = a .. (c - 1) /\ Waiting(w)' = a .. (new - 1)
      BY <2>3 DEF Waiting
    <3> HIDE DEF a, c
    <3>4. QED
      BY <3>1, <3>2, <3>3, IntervalCut
  <2>6. QED
    BY <1>1, <1>4, <1>15, <1>16, <2>1, <2>5, LocatesItems
<1>18. QED
  BY <1>1, <1>5, <1>11, <1>13, <1>14, <1>16, <1>17, ClaimInvNext

\* The thread that runs everything itself claims nothing.
LEMMA SerialNext ==
    ASSUME ClaimInv, job.serial, NEW t \in Threads, OthersStay(t), LoopTypes', SerialPhase(t)'
    PROVE  ClaimInv'
<1>1. job' = job /\ \A u \in Threads \ {t} : pc'[u] = pc[u] /\ chunk'[u] = chunk[u]
  BY DEF OthersStay
<1>2. \A u \in Threads : SerialPhase(u)
  BY DEF ClaimInv
<1>3. \A u \in Threads : SerialPhase(u)'
  BY <1>1, <1>2 DEF SerialPhase
<1>4. \A u \in Threads : ~HasPlace(u)'
  BY <1>1, <1>3 DEF HasPlace, SerialPhase
<1>5. QED
  BY <1>1, <1>3, <1>4 DEF ClaimInv

\* Advancing coordinates yields coordinates.
LEMMA AdvanceType ==
    ASSUME NEW D \in Nat, NEW where \in [1 .. D -> Nat], NEW step \in [1 .. D -> Nat], NEW limit
    PROVE  Advance(where, step, limit) \in [1 .. D -> Nat]
<1>1. Advance(where, step, limit) =
          [a \in DOMAIN where |-> IF a < MovedAxis(where, step, limit) THEN where[a]
                                  ELSE IF a = MovedAxis(where, step, limit) THEN where[a] + step[a]
                                  ELSE 0]
  BY AdvanceIs
<1>2. QED
  BY <1>1

\* The steps of a serial job leave the ranges alone.
LEMMA SerialSteps ==
    ASSUME ClaimInv, NEW t \in Threads,
           BeginSerial(t) \/ CallInOrder(t) \/ EndSerial(t) \/ (Finish(t) /\ job.serial)
    PROVE  ClaimInv'
<1>1. LoopTypes /\ job \in Jobs
  BY DEF ClaimInv, LoopTypes
<1>2. job.serial
  <2>1. pc[t] = "serial" => job.serial
    BY <1>1, JobFacts DEF ClaimInv, Phase
  <2>2. QED
    BY <2>1 DEF BeginSerial, CallInOrder, EndSerial
<1>3. /\ SerialPhase(t) /\ job' = job /\ rangeEnd' = rangeEnd /\ rangeLength' = rangeLength
      /\ offset' = offset /\ from' = from /\ chunk' = chunk
  BY <1>2 DEF ClaimInv, BeginSerial, CallInOrder, EndSerial, Finish, claimVars, localVars
<1>4. PICK label \in {"serial", "task", "gone"} : pc' = [pc EXCEPT ![t] = label]
  BY <1>2 DEF BeginSerial, CallInOrder, EndSerial, Finish, Goto
<1>5. PICK place \in [1 .. Len(job.range) -> Nat] : at' = [at EXCEPT ![t] = place]
  <2>1. at \in [Threads -> [1 .. Len(job.range) -> Nat]]
    BY <1>1 DEF LoopTypes
  <2>2. CASE CallInOrder(t)
    <3>1. IsGrid(job.range, job.tile) /\ Len(job.range) \in Nat
      BY <1>1, JobFacts DEF GoodJob
    <3>2. job.tile \in [1 .. Len(job.range) -> Nat]
      <4>1. /\ DOMAIN job.tile = 1 .. Len(job.range)
            /\ \A a \in 1 .. Len(job.range) : job.tile[a] \in Nat
        BY <3>1, CountsFacts DEF IsGrid
      <4>2. \E d \in Nat \ {0} : job.tile \in [1 .. d -> Nat \ {0}]
        BY <3>1 DEF IsGrid, Counts
      <4>3. QED
        BY <4>1, <4>2
    <3>3. at[t] \in [1 .. Len(job.range) -> Nat]
      BY <2>1
    <3>4. Advance(at[t], job.tile, job.range) \in [1 .. Len(job.range) -> Nat]
      BY <3>1, <3>2, <3>3, AdvanceType
    <3>5. at' = [at EXCEPT ![t] = Advance(at[t], job.tile, job.range)]
      BY <2>2 DEF CallInOrder
    <3>6. QED
      BY <3>4, <3>5
  <2>3. CASE ~CallInOrder(t)
    <3>1. at' = at /\ at[t] \in [1 .. Len(job.range) -> Nat]
      BY <1>2, <2>1, <2>3 DEF BeginSerial, EndSerial, Finish, localVars
    <3>2. at = [at EXCEPT ![t] = at[t]]
      BY <2>1
    <3>3. QED
      BY <3>1, <3>2
  <2>4. QED
    BY <2>2, <2>3
<1>6. OthersStay(t)
  BY <1>1, <1>3, <1>4, <1>5 DEF OthersStay, LoopTypes
<1>7. /\ ratio' \in [Threads -> {2, 4}]
      /\ uarch' \in [Threads -> (UNION {CpuUarchs[u] : u \in Threads}) \cup {DefaultUarch}]
  <2>1. CASE BeginSerial(t)
    BY <1>1, <2>1, LookUpTypes DEF BeginSerial
  <2>2. CASE ~BeginSerial(t)
    <3>1. ratio' = ratio /\ uarch' = uarch
      BY <2>2 DEF CallInOrder, EndSerial, Finish
    <3>2. QED
      BY <1>1, <3>1 DEF LoopTypes
  <2>3. QED
    BY <2>1, <2>2
<1>8. LoopTypes'
  <2>1. pc' \in [Threads -> Labels] /\ at' \in [Threads -> [1 .. Len(job.range) -> Nat]]
    BY <1>1, <1>4, <1>5 DEF LoopTypes, Labels
  <2>2. QED
    BY <1>1, <1>3, <1>7, <2>1 DEF LoopTypes
<1>9. SerialPhase(t)'
  <2>1. pc'[t] = label
    BY <1>1, <1>4 DEF LoopTypes
  <2>2. pc[t] # "out" \/ t = 0
    BY DEF BeginSerial, CallInOrder, EndSerial, Finish
  <2>3. QED
    BY <1>3, <2>1, <2>2 DEF SerialPhase
<1>10. QED
  BY <1>2, <1>6, <1>8, <1>9, SerialNext

\* A thread in the task of a job of several threads is in the job.
LEMMA InTheTask ==
    ASSUME ClaimInv, ~job.serial, NEW t \in Threads, pc[t] # "out"
    PROVE  t \in Members /\ LoopTypes /\ job \in Jobs
<1>1. Phase(t) /\ LoopTypes /\ job \in Jobs
  BY DEF ClaimInv, LoopTypes
<1>2. t \in Nat /\ job.threads \in Nat
  BY <1>1, JobFacts DEF Threads
<1>3. t < job.threads
  BY <1>1, <1>2 DEF Phase
<1>4. QED
  BY <1>1, <1>2, <1>3 DEF Members

\* Leaving the job moves no item.
LEMMA FinishStep ==
    ASSUME ClaimInv, ~job.serial, NEW t \in Threads, Finish(t)
    PROVE  ClaimInv' /\ FrontsStay
<1>1. pc[t] = "task" /\ t \in Members /\ LoopTypes /\ job \in Jobs
  BY InTheTask DEF Finish
<1>2. /\ job' = job /\ rangeEnd' = rangeEnd /\ rangeLength' = rangeLength /\ offset' = offset
      /\ from' = from /\ chunk' = chunk /\ at' = at /\ ratio' = ratio /\ uarch' = uarch
      /\ pc' = [pc EXCEPT ![t] = IF chunk[t] > 0 THEN "chunk" ELSE "claim"]
  BY DEF Finish, Goto, claimVars, localVars
<1>3. pc'[t] = IF chunk[t] > 0 THEN "chunk" ELSE "claim"
  BY <1>1, <1>2 DEF LoopTypes
<1>4. OthersStay(t)
  BY <1>1, <1>2 DEF OthersStay, LoopTypes
<1>5. LoopTypes'
  <2>1. pc' \in [Threads -> Labels]
    BY <1>1, <1>2 DEF LoopTypes, Labels
  <2>2. QED
    BY <1>1, <1>2, <2>1 DEF LoopTypes
<1>6. /\ Phase(t) /\ t < job.threads /\ t \in Nat /\ job.threads \in Nat
      /\ offset[t] \in 0 .. job.threads /\ chunk[t] \in Nat /\ from[t] \in Nat
      /\ from[t] <= Linear(job.counts) /\ Linear(job.counts) \in Nat
  BY <1>1, MemberFacts, JobFacts
<1>7. Phase(t)'
  BY <1>1, <1>2, <1>3, <1>6 DEF Phase
<1>8. HasPlace(t)' => Placed(t)'
  <2>1. HasPlace(t)' => HasPlace(t)
    BY <1>1, <1>2, <1>3, <1>6 DEF HasPlace, OwnRange
  <2>2. QED
    BY <1>2, <2>1, PlacedStays DEF ClaimInv
<1>9. \A v \in Members : RangeOK(v)' /\ Passed(v)' /\ RangeFront(v)' = RangeFront(v)
  <2>1. OwnerPosition(t)' = OwnerPosition(t)
    BY <1>1, <1>2, <1>3, <1>6 DEF OwnerPosition
  <2>2. QED
    BY <1>1, <1>2, <1>3, <1>4, <1>5, <2>1, QuietStep
<1>10. QED
  BY <1>4, <1>5, <1>7, <1>8, <1>9, ClaimInvNext DEF FrontsStay

\* The tile a static function passes to the task is the tile of its item.
LEMMA TileFacts ==
    ASSUME ClaimInv, NEW t \in Threads, pc[t] = "chunk", ~job.nest.dynamic
    PROVE  /\ ~job.serial /\ job.tile = job.unit
           /\ at[t] = TileStart(job.range, job.tile, from[t])
           /\ chunk[t] = 1 /\ from[t] \in Nat /\ from[t] + 1 <= Linear(job.counts)
<1>1. ~job.serial /\ t \in Members /\ LoopTypes /\ job \in Jobs
  BY InTheJob
<1>2. /\ GoodJob(job) /\ DOMAIN job.counts = 1 .. Len(job.range)
      /\ at[t] \in [1 .. Len(job.range) -> Nat]
  BY <1>1, JobFacts DEF LoopTypes
<1>3. Phase(t) /\ from[t] \in Nat
  BY <1>1, MemberFacts
<1>4. chunk[t] = 1 /\ from[t] + 1 <= Linear(job.counts)
  BY <1>3 DEF Phase
<1>5. Placed(t)
  BY <1>4 DEF ClaimInv, HasPlace
<1>6. job.tile = job.unit /\ job.counts = TileCounts(job.range, job.tile)
  BY <1>1, <1>2 DEF GoodJob
<1>7. \A a \in 1 .. Len(job.range) :
          at[t][a] = RowMajor(TileCounts(job.range, job.tile), from[t])[a] * job.tile[a]
  BY <1>2, <1>5, <1>6 DEF Placed
<1>8. at[t] = TileStart(job.range, job.tile, from[t])
  BY <1>2, <1>7 DEF TileStart
<1>9. QED
  BY <1>1, <1>3, <1>4, <1>6, <1>8

\* A call on one tile goes on to the next item of the thread's chunk.
LEMMA CallOnTileStep ==
    ASSUME ClaimInv, NEW t \in Threads, CallOnTile(t)
    PROVE  ClaimInv' /\ FrontsStay
<1>1. /\ pc[t] = "chunk" /\ ~job.nest.dynamic /\ ~job.serial /\ t \in Members
      /\ LoopTypes /\ job \in Jobs
  BY InTheJob DEF CallOnTile
<1>2. /\ at[t] = TileStart(job.range, job.tile, from[t]) /\ job.tile = job.unit
      /\ chunk[t] = 1 /\ from[t] \in Nat /\ from[t] + 1 <= Linear(job.counts)
  BY <1>1, TileFacts
<1> DEFINE next == from[t] + 1
           place == IF job.nest.walks THEN Advance(at[t], job.tile, job.range)
                    ELSE Coordinates(next)
<1>3. /\ job' = job /\ rangeEnd' = rangeEnd /\ rangeLength' = rangeLength /\ offset' = offset
      /\ ratio' = ratio /\ uarch' = uarch
      /\ from' = [from EXCEPT ![t] = next] /\ chunk' = [chunk EXCEPT ![t] = 0]
      /\ at' = [at EXCEPT ![t] = place] /\ pc' = [pc EXCEPT ![t] = "task"]
  BY DEF CallOnTile, Goto, claimVars
<1>4. GoodJob(job) /\ DOMAIN job.counts = 1 .. Len(job.range) /\ Linear(job.counts) \in Nat
  BY <1>1, JobFacts
<1>5. next \in Nat /\ next <= Linear(job.counts)
  BY <1>2
<1>6. place \in [1 .. Len(job.range) -> Nat]
      /\ \A a \in DOMAIN job.counts :
             place[a] = RowMajor(job.counts, next)[a] * (IF job.nest.dynamic THEN 1 ELSE job.tile[a])
  <2> HIDE DEF next
  <2>1. CASE job.nest.walks
    <3>1. IsGrid(job.range, job.tile) /\ job.counts = TileCounts(job.range, job.tile)
      BY <1>2, <1>4 DEF GoodJob
    <3>2. place = TileStart(job.range, job.tile, next)
          /\ place \in [1 .. Len(job.range) -> Nat]
      <4>1. Advance(at[t], job.tile, job.range) = TileStart(job.range, job.tile, next)
        BY <1>2, <3>1, TilesWalk DEF next
      <4>2. TileStart(job.range, job.tile, next) \in [1 .. Len(job.range) -> Nat]
        BY <1>5, <3>1, TilesWalk
      <4>3. QED
        BY <2>1, <4>1, <4>2
    <3>3. \A a \in 1 .. Len(job.range) :
              TileStart(job.range, job.tile, next)[a] = RowMajor(job.counts, next)[a] * job.tile[a]
      BY <3>1 DEF TileStart
    <3>4. QED
      BY <1>1, <1>4, <3>2, <3>3
  <2>2. CASE ~job.nest.walks
    <3>1. place = Coordinates(next)
      BY <2>2
    <3> HIDE DEF place
    <3>2. QED
      BY <1>1, <1>5, <3>1, CoordinatesAre
  <2>3. QED
    BY <2>1, <2>2
<1> HIDE DEF next, place
<1>7. OthersStay(t)
  BY <1>1, <1>3 DEF OthersStay, LoopTypes
<1>8. from'[t] = next /\ chunk'[t] = 0 /\ at'[t] = place /\ pc'[t] = "task"
  BY <1>1, <1>3 DEF LoopTypes
<1>9. LoopTypes'
  <2>1. from' \in [Threads -> 0 .. Linear(job.counts)] /\ chunk' \in [Threads -> 0 .. Linear(job.counts)]
    BY <1>1, <1>3, <1>4, <1>5 DEF LoopTypes
  <2>2. at' \in [Threads -> [1 .. Len(job.range) -> Nat]] /\ pc' \in [Threads -> Labels]
    BY <1>1, <1>3, <1>6 DEF LoopTypes, Labels
  <2>3. QED
    BY <1>1, <1>3, <2>1, <2>2 DEF LoopTypes
<1>10. Phase(t)'
  <2>1. Phase(t) /\ t < job.threads /\ t \in Nat /\ job.threads \in Nat
    BY <1>1, MemberFacts, JobFacts
  <2>2. QED
    BY <1>1, <1>3, <1>4, <1>5, <1>8, <2>1 DEF Phase
<1>11. Placed(t)'
  BY <1>3, <1>6, <1>8 DEF Placed
<1>12. \A v \in Members : RangeOK(v)' /\ Passed(v)' /\ RangeFront(v)' = RangeFront(v)
  <2>1. OwnerPosition(t)' = OwnerPosition(t)
    BY <1>1, <1>2, <1>3, <1>8 DEF OwnerPosition, next
  <2>2. QED
    BY <1>1, <1>3, <1>7, <1>8, <1>9, <2>1, QuietStep
<1>13. QED
  BY <1>1, <1>7, <1>9, <1>10, <1>11, <1>12, ClaimInvNext DEF FrontsStay

\* The tiles of a chunk that a dynamic function passes to the task: they are in
\* one row, and all of the chunk when the nest is one row.
RowTiles(t) ==
    LET group == GroupAxis(job.nest, job.counts)
    IN  Smaller(job.counts[group] - at[t][group], chunk[t])

\* The tiles that one dynamic call takes lie in one row of the chunk.
LEMMA RowFacts ==
    ASSUME ClaimInv, NEW t \in Threads, pc[t] = "chunk", job.nest.dynamic,
           NEW g, g = GroupAxis(job.nest, job.counts)
    PROVE  /\ at[t] = RowMajor(job.counts, from[t]) /\ from[t] \in Nat
           /\ RowTiles(t) \in 1 .. chunk[t]
           /\ StepFits(job.counts, from[t], g, RowTiles(t))
           /\ at[t][g] + RowTiles(t) <= job.counts[g]
           /\ g = 1 => RowTiles(t) = chunk[t]
           /\ from[t] + chunk[t] <= Linear(job.counts)
<1> DEFINE D == Len(job.range)
           n == RowTiles(t)
<1>1. ~job.serial /\ t \in Members /\ LoopTypes /\ job \in Jobs
  BY InTheJob
<1>2. /\ GoodJob(job) /\ job.counts \in Counts /\ DOMAIN job.counts = 1 .. D /\ D \in Nat \ {0}
      /\ Len(job.counts) = D /\ Linear(job.counts) \in Nat
      /\ at[t] \in [1 .. D -> Nat]
  BY <1>1, JobFacts DEF LoopTypes
<1>3. Phase(t) /\ from[t] \in Nat /\ chunk[t] \in Nat
  BY <1>1, MemberFacts
<1>4. chunk[t] > 0 /\ from[t] + chunk[t] <= Linear(job.counts)
  BY <1>3 DEF Phase
<1>5. at[t] = RowMajor(job.counts, from[t])
  <2>1. Placed(t)
    BY <1>4 DEF ClaimInv, HasPlace
  <2>2. RowMajor(job.counts, from[t]) \in [1 .. D -> Nat]
    BY <1>2, <1>3, RowMajorFacts
  <2>3. \A x \in Nat : x * 1 = x
    OBVIOUS
  <2>4. \A a \in 1 .. D : at[t][a] = RowMajor(job.counts, from[t])[a]
    BY <1>2, <2>1, <2>2, <2>3 DEF Placed
  <2>5. QED
    BY <1>2, <2>2, <2>4
<1>6. job.nest.axes = D /\ job.nest.tiled \in 1 .. D
  BY <1>1, <1>2 DEF GoodJob, ValidNest
<1>7. /\ g \in 1 .. D
      /\ \A a \in 1 .. D : a > g => job.counts[a] = 1
      /\ g = 1 => D = 1 \/ (D = 2 /\ job.counts[2] = 1)
  <2>1. CASE job.nest.tiled = 2 /\ job.counts[D] = 1
    BY <1>2, <1>6, <2>1 DEF GroupAxis
  <2>2. CASE ~(job.nest.tiled = 2 /\ job.counts[D] = 1)
    BY <1>2, <1>6, <2>2 DEF GroupAxis
  <2>3. QED
    BY <2>1, <2>2
<1>8. at[t][g] \in Nat /\ at[t][g] < job.counts[g] /\ job.counts[g] \in Nat
  <2>1. from[t] < Linear(job.counts)
    BY <1>2, <1>3, <1>4
  <2>2. \A a \in 1 .. D : at[t][a] \in 0 .. (job.counts[a] - 1)
    BY <1>2, <1>3, <1>5, <2>1, RowMajorInGrid
  <2>3. job.counts[g] \in Nat
    BY <1>2, <1>7, CountsFacts
  <2>4. QED
    BY <1>7, <2>2, <2>3
<1>9. n = Smaller(job.counts[g] - at[t][g], chunk[t])
  BY DEF RowTiles
<1>10. n \in 1 .. chunk[t] /\ at[t][g] + n <= job.counts[g]
  BY <1>3, <1>4, <1>8, <1>9 DEF Smaller
<1>11. g = 1 => n = chunk[t]
  <2> SUFFICES ASSUME g = 1 PROVE n = chunk[t]
    OBVIOUS
  <2>1. RowMajor(job.counts, from[t])[1] = from[t] /\ Linear(job.counts) = job.counts[1]
    BY <1>2, <1>3, <1>7, OneAxis
  <2>2. at[t][g] = from[t] /\ job.counts[g] = Linear(job.counts)
    BY <1>5, <2>1
  <2>3. QED
    BY <1>2, <1>3, <1>4, <1>9, <2>2 DEF Smaller
<1>12. StepFits(job.counts, from[t], g, n)
  BY <1>2, <1>3, <1>5, <1>7, <1>10 DEF StepFits
<1>13. QED
  BY <1>3, <1>4, <1>5, <1>10, <1>11, <1>12

\* A call on a row of tiles goes on to the item after the row.
LEMMA CallOnRowStep ==
    ASSUME ClaimInv, NEW t \in Threads, CallOnRow(t)
    PROVE  ClaimInv' /\ FrontsStay
<1>1. /\ pc[t] = "chunk" /\ job.nest.dynamic /\ ~job.serial /\ t \in Members
      /\ LoopTypes /\ job \in Jobs
  BY InTheJob DEF CallOnRow
<1>2. PICK g : g = GroupAxis(job.nest, job.counts)
  OBVIOUS
<1> DEFINE n == RowTiles(t)
           steps == [a \in DOMAIN at[t] |-> IF a = g THEN n ELSE 1]
           next == from[t] + n
           rest == IF g = 1 THEN 0 ELSE chunk[t] - n
<1>3. /\ at[t] = RowMajor(job.counts, from[t]) /\ from[t] \in Nat
      /\ n \in 1 .. chunk[t] /\ StepFits(job.counts, from[t], g, n)
      /\ g = 1 => n = chunk[t]
      /\ from[t] + chunk[t] <= Linear(job.counts)
  BY <1>1, <1>2, RowFacts
<1>4. /\ job' = job /\ rangeEnd' = rangeEnd /\ rangeLength' = rangeLength /\ offset' = offset
      /\ ratio' = ratio /\ uarch' = uarch
      /\ from' = [from EXCEPT ![t] = @ + n] /\ chunk' = [chunk EXCEPT ![t] = IF g = 1 THEN 0 ELSE @ - n]
      /\ at' = [at EXCEPT ![t] = Advance(at[t], steps, job.counts)]
      /\ pc' = [pc EXCEPT ![t] = "task"]
  BY <1>2 DEF CallOnRow, Goto, claimVars, RowTiles
<1>5. /\ job.counts \in Counts /\ DOMAIN job.counts = 1 .. Len(job.range)
      /\ Len(job.counts) = Len(job.range) /\ Linear(job.counts) \in Nat
      /\ Len(job.range) \in Nat
  BY <1>1, JobFacts
<1>6. chunk[t] \in Nat
  BY <1>1, MemberFacts
<1>7. next \in Nat /\ rest \in Nat /\ next + rest = from[t] + chunk[t]
  BY <1>3, <1>6
<1>8. Advance(at[t], steps, job.counts) = RowMajor(job.counts, next)
  <2>1. RowMajor(job.counts, from[t]) \in [1 .. Len(job.counts) -> Nat]
    BY <1>3, <1>5, RowMajorFacts
  <2>2. DOMAIN at[t] = 1 .. Len(job.counts)
    BY <1>3, <2>1
  <2>3. steps = StepAlong(job.counts, g, n)
    BY <2>2 DEF StepAlong
  <2> HIDE DEF n, steps
  <2>4. Advance(RowMajor(job.counts, from[t]), StepAlong(job.counts, g, n), job.counts)
        = RowMajor(job.counts, from[t] + n)
    BY <1>3, <1>5, AdvanceWalks
  <2>5. QED
    BY <1>3, <2>3, <2>4
<1> HIDE DEF n, steps
<1>9. RowMajor(job.counts, next) \in [1 .. Len(job.range) -> Nat]
  <2> HIDE DEF next
  <2>1. QED
    BY <1>5, <1>7, RowMajorFacts
<1>10. OthersStay(t)
  BY <1>1, <1>4 DEF OthersStay, LoopTypes
<1>11. from'[t] = next /\ chunk'[t] = rest /\ at'[t] = RowMajor(job.counts, next) /\ pc'[t] = "task"
  BY <1>1, <1>4, <1>8 DEF LoopTypes
<1>12. LoopTypes'
  <2>1. next \in 0 .. Linear(job.counts) /\ rest \in 0 .. Linear(job.counts)
    BY <1>3, <1>5, <1>6, <1>7
  <2>2. from' \in [Threads -> 0 .. Linear(job.counts)] /\ chunk' \in [Threads -> 0 .. Linear(job.counts)]
    BY <1>1, <1>4, <2>1 DEF LoopTypes
  <2>3. at' \in [Threads -> [1 .. Len(job.range) -> Nat]] /\ pc' \in [Threads -> Labels]
    BY <1>1, <1>4, <1>8, <1>9 DEF LoopTypes, Labels
  <2>4. QED
    BY <1>1, <1>4, <2>2, <2>3 DEF LoopTypes
<1> HIDE DEF next, rest
<1>13. Phase(t)'
  <2>1. Phase(t) /\ t < job.threads /\ t \in Nat /\ job.threads \in Nat
    BY <1>1, MemberFacts, JobFacts
  <2>2. QED
    BY <1>1, <1>3, <1>4, <1>5, <1>7, <1>11, <2>1 DEF Phase
<1>14. Placed(t)'
  <2>1. \A x \in Nat : x * 1 = x
    OBVIOUS
  <2>2. \A a \in 1 .. Len(job.range) : RowMajor(job.counts, next)[a] \in Nat
    BY <1>9
  <2>3. QED
    BY <1>1, <1>4, <1>5, <1>11, <2>1, <2>2 DEF Placed
<1>15. \A v \in Members : RangeOK(v)' /\ Passed(v)' /\ RangeFront(v)' = RangeFront(v)
  <2>1. OwnerPosition(t)' = OwnerPosition(t)
    BY <1>1, <1>7, <1>11 DEF OwnerPosition
  <2>2. offset'[t] = offset[t]
    BY <1>4
  <2>3. QED
    BY <1>1, <1>4, <1>10, <1>11, <1>12, <2>1, <2>2, QuietStep
<1>16. QED
  BY <1>1, <1>10, <1>12, <1>13, <1>14, <1>15, ClaimInvNext DEF FrontsStay

\* A job begins with its items dealt out ...
LEMMA ClaimInvInit == Init => ClaimInv
<1> SUFFICES ASSUME Init PROVE ClaimInv
  OBVIOUS
<1>1. job \in Jobs
  BY DEF Init
<1>2. /\ GoodJob(job) /\ DOMAIN job.counts = 1 .. Len(job.range) /\ Members \subseteq Threads
      /\ Linear(job.counts) \in Nat \ {0} /\ 2 * Linear(job.counts) < SizeModulus
      /\ job.threads \in Nat \ {0} /\ job.threads <= MaxThreads /\ MaxThreads \in Nat
      /\ SizeModulus \in Nat \ {0} /\ job.serial \in BOOLEAN
  BY <1>1, JobFacts, SizeAssumption
<1> DEFINE N == Linear(job.counts)
<1>3. ASSUME NEW t \in Threads
      PROVE  /\ LengthOf(job, t) \in 0 .. N /\ StartOf(job, t) \in 0 .. N
             /\ StartOf(job, t) + LengthOf(job, t) \in 0 .. N
  <2>1. CASE job.serial \/ t >= job.threads
    <3>1. LengthOf(job, t) = 0 /\ StartOf(job, t) = N
      BY <2>1 DEF LengthOf, StartOf
    <3>2. QED
      BY <1>2, <3>1
  <2>2. CASE ~(job.serial \/ t >= job.threads)
    <3>1. t \in 0 .. (job.threads - 1) /\ ~job.serial
      BY <1>2, <2>2 DEF Threads
    <3>2. /\ LengthOf(job, t) \in Nat /\ StartOf(job, t) \in Nat
          /\ StartOf(job, t) + LengthOf(job, t) = StartOf(job, t + 1)
          /\ StartOf(job, job.threads) = N
          /\ \A u \in 0 .. job.threads : t < u => StartOf(job, t + 1) <= StartOf(job, u)
      BY <1>2, <3>1, Deal
    <3>3. job.threads \in 0 .. job.threads /\ t < job.threads
      BY <1>2, <3>1
    <3>4. QED
      BY <1>2, <3>2, <3>3
  <2>3. QED
    BY <2>1, <2>2
<1>4. \A t \in Threads :
          /\ rangeLength[t] = LengthOf(job, t) /\ rangeEnd[t] = StartOf(job, t) + LengthOf(job, t)
          /\ pc[t] = "out" /\ offset[t] = 0 /\ from[t] = StartOf(job, t) /\ chunk[t] = 0
  BY DEF Init
<1>5. LoopTypes
  <2>1. /\ rangeEnd \in [Threads -> 0 .. N] /\ from \in [Threads -> 0 .. N]
        /\ rangeLength \in [Threads -> 0 .. (SizeModulus - 1)]
    <3>1. \A t \in Threads : LengthOf(job, t) \in 0 .. (SizeModulus - 1)
      BY <1>2, <1>3
    <3>2. QED
      BY <1>3, <3>1 DEF Init
  <2>2. /\ pc \in [Threads -> Labels] /\ offset \in [Threads -> 0 .. MaxThreads]
        /\ chunk \in [Threads -> 0 .. N] /\ ratio \in [Threads -> {2, 4}]
    BY <1>2 DEF Init, Labels
  <2>3. at \in [Threads -> [1 .. Len(job.range) -> Nat]]
    <3>1. Zeros(job.counts) \in [1 .. Len(job.range) -> Nat]
      BY <1>2 DEF Zeros
    <3>2. QED
      BY <3>1 DEF Init
  <2>4. uarch \in [Threads -> (UNION {CpuUarchs[u] : u \in Threads}) \cup {DefaultUarch}]
    <3> DEFINE U == (UNION {CpuUarchs[u] : u \in Threads}) \cup {DefaultUarch}
    <3>1. DefaultUarch \in U
      OBVIOUS
    <3> HIDE DEF U
    <3>2. uarch \in [Threads -> U]
      BY <3>1 DEF Init
    <3>3. QED
      BY <3>2 DEF U
  <2>5. QED
    BY <1>1, <2>1, <2>2, <2>3, <2>4 DEF LoopTypes
<1>6. job.serial => \A t \in Threads : SerialPhase(t)
  BY <1>4 DEF SerialPhase
<1>7. ASSUME ~job.serial, NEW t \in Threads PROVE Phase(t)
  <2>1. /\ pc[t] = "out" /\ offset[t] = 0 /\ from[t] = StartOf(job, t) /\ chunk[t] = 0
    BY <1>4
  <2>2. from[t] \in 0 .. N
    BY <1>3, <2>1
  <2>3. QED
    BY <1>2, <2>1, <2>2 DEF Phase
<1>8. ASSUME ~job.serial, NEW v \in Members PROVE RangeOK(v) /\ Passed(v)
  <2>1. v \in Threads /\ v \in 0 .. (job.threads - 1)
    BY <1>2 DEF Members
  <2>2. /\ rangeLength[v] = LengthOf(job, v) /\ rangeEnd[v] = StartOf(job, v) + LengthOf(job, v)
        /\ pc[v] = "out" /\ offset[v] = 0 /\ from[v] = StartOf(job, v) /\ chunk[v] = 0
    BY <1>4, <2>1
  <2>3. LengthOf(job, v) \in Nat \ {0} /\ LengthOf(job, v) \in 0 .. N /\ StartOf(job, v) \in Nat
    BY <1>2, <1>3, <1>8, <2>1, Deal
  <2>4. Left(v) = LengthOf(job, v) /\ Unclaimed(v) = LengthOf(job, v)
    <3>1. rangeLength[v] \in 0 .. (SizeModulus - 1) /\ 2 * rangeLength[v] < SizeModulus
      BY <1>2, <2>2, <2>3
    <3>2. Left(v) = rangeLength[v]
      BY <3>1, SignedFacts DEF Left
    <3>3. QED
      BY <2>2, <2>3, <3>2 DEF Unclaimed, Larger
  <2>5. PendingChunks(v) = 0
    <3>1. {t \in Threads : pc[t] = "take" /\ Victim(t) = v} = {}
      BY <1>4
    <3>2. UNION {{t} \X (1 .. chunk[t]) : t \in {}} = {}
      OBVIOUS
    <3>3. QED
      BY <3>1, <3>2, FS_EmptySet DEF PendingChunks
  <2>6. RangeFront(v) = StartOf(job, v)
    BY <2>2, <2>3, <2>4, <2>5 DEF RangeFront
  <2>7. OwnerPosition(v) = StartOf(job, v)
    BY <2>2, <2>3 DEF OwnerPosition
  <2>8. RangeOK(v)
    BY <2>2, <2>3, <2>4, <2>6, <2>7 DEF RangeOK
  <2>9. Passed(v)
    BY <2>2 DEF Passed
  <2>10. QED
    BY <2>8, <2>9
<1>9. ASSUME NEW t \in Threads, HasPlace(t) PROVE Placed(t)
  BY <1>4, <1>9 DEF HasPlace
<1>10. QED
  BY <1>5, <1>6, <1>7, <1>8, <1>9 DEF ClaimInv

\* ... every step keeps what is known of the claims ...
LEMMA ClaimInvNextStep == ClaimInv /\ [Next]_vars => ClaimInv'
<1> SUFFICES ASSUME ClaimInv, [Next]_vars PROVE ClaimInv'
  OBVIOUS
<1>1. ASSUME NEW t \in Threads, Join(t) PROVE ClaimInv'
  BY <1>1, JoinStep
<1>2. ASSUME NEW t \in Threads, Claiming(t) PROVE ClaimInv'
  BY <1>2, ClaimOneStep, SizeChunkStep, FoundEmptyStep, SubtractChunkStep, TakeEndStep DEF Claiming
<1>3. ASSUME NEW t \in Threads, BeginSerial(t) \/ Processing(t) PROVE ClaimInv'
  <2>1. job.serial \in BOOLEAN
    BY JobFacts DEF ClaimInv, LoopTypes
  <2>2. QED
    BY <1>3, <2>1, CallOnTileStep, CallOnRowStep, FinishStep, SerialSteps DEF Processing
<1>4. CASE UNCHANGED vars
  <2>1. /\ job' = job /\ rangeEnd' = rangeEnd /\ rangeLength' = rangeLength /\ pc' = pc
        /\ offset' = offset /\ from' = from /\ chunk' = chunk /\ at' = at
        /\ ratio' = ratio /\ uarch' = uarch
    BY <1>4 DEF vars, claimVars, localVars
  <2>2. LoopTypes'
    BY <2>1 DEF ClaimInv, LoopTypes
  <2>3. \A t \in Threads : (SerialPhase(t) => SerialPhase(t)') /\ (Phase(t) => Phase(t)')
    BY <2>1 DEF SerialPhase, Phase, MaxChunk
  <2>4. \A t \in Threads : (HasPlace(t)' => HasPlace(t)) /\ (Placed(t) => Placed(t)')
    BY <2>1 DEF HasPlace, OwnRange, Placed
  <2>5. \A v \in Members : RangeOK(v) => RangeOK(v)'
    BY <2>1 DEF RangeOK, Left, Unclaimed, RangeFront, PendingChunks, Subtracting, Members, Victim,
                MaxChunk, OwnRange, OwnerPosition
  <2>6. \A v \in Members : Passed(v) => Passed(v)'
    BY <2>1 DEF Passed, VictimAt, Unclaimed, Left
  <2>7. Members' = Members
    BY <2>1 DEF Members
  <2>8. QED
    BY <2>1, <2>2, <2>3, <2>4, <2>5, <2>6, <2>7 DEF ClaimInv
<1>5. QED
  BY <1>1, <1>2, <1>3, <1>4 DEF Next, Terminated

\* ... so it holds throughout.
LEMMA ClaimsAlways == Spec => []ClaimInv
<1>1. QED
  BY ClaimInvInit, ClaimInvNextStep, PTL DEF Spec

-----------------------------------------------------------------------------
(* What the invariant of the claims shows.                                 *)

\* A walk over the items of a range keeps the coordinates that a division would
\* give, in every reachable state and for every nest: fxdiv at the beginning and
\* the carries of thread_parallelize_* agree.
THEOREM WalkInStepHolds == Spec => []WalkInStep
<1>1. ClaimInv => WalkInStep
  BY DEF ClaimInv, WalkInStep, Placed
<1>2. QED
  BY <1>1, ClaimsAlways, PTL

\* range_length counts what nobody has claimed of a range, however many stale
\* subtractions it has gone through.
THEOREM ChunkAccountingHolds == Spec => []ChunkAccounting
<1>1. ClaimInv => ChunkAccounting
  <2> SUFFICES ASSUME ClaimInv, NEW v \in Threads, v < job.threads, ~job.serial
               PROVE  LET unclaimed == Larger(Signed(rangeLength[v]), 0)
                      IN  IF pc[v] # "gone" /\ OwnRange(v)
                          THEN rangeEnd[v] - OwnerPosition(v) = unclaimed + PendingChunks(v)
                          ELSE unclaimed = 0
    BY DEF ChunkAccounting
  <2>1. job \in Jobs /\ v \in Members
    <3>1. job \in Jobs
      BY DEF ClaimInv, LoopTypes
    <3>2. job.threads \in Nat
      BY <3>1, JobFacts
    <3>3. QED
      BY <3>1, <3>2 DEF Members, Threads
  <2>2. Unclaimed(v) = Larger(Signed(rangeLength[v]), 0)
    BY DEF Unclaimed, Left
  <2>3. /\ Phase(v) /\ Passed(v) /\ offset[v] \in 0 .. job.threads
        /\ from[v] \in Nat /\ chunk[v] \in Nat
    BY <2>1, MemberFacts
  <2>4. CASE pc[v] # "gone" /\ OwnRange(v)
    <3>1. RangeFront(v) = OwnerPosition(v)
      BY <2>1, <2>4 DEF ClaimInv, RangeOK
    <3>2. RangeFront(v) + PendingChunks(v) + Unclaimed(v) = rangeEnd[v]
          /\ PendingChunks(v) \in Nat /\ Unclaimed(v) \in Nat /\ RangeFront(v) \in Nat
      BY <2>1, RangeNumbers
    <3>3. rangeEnd[v] - OwnerPosition(v) = Unclaimed(v) + PendingChunks(v)
      BY <3>1, <3>2
    <3>4. QED
      BY <2>2, <2>4, <3>3
  <2>5. CASE ~(pc[v] # "gone" /\ OwnRange(v))
    <3>1. offset[v] > 0
      BY <2>1, <2>3, <2>5, JobFacts DEF OwnRange, Phase
    <3>2. 0 \in 0 .. (offset[v] - 1)
      BY <2>3, <3>1
    <3>3. Unclaimed(VictimAt(v, 0)) = 0
      BY <2>3, <3>2 DEF Passed
    <3>4. VictimAt(v, 0) = v
      BY <2>1, VictimFacts
    <3>5. QED
      BY <2>2, <2>5, <3>3, <3>4
  <2>6. QED
    BY <2>4, <2>5
<1>2. QED
  BY <1>1, ClaimsAlways, PTL

-----------------------------------------------------------------------------
(* Boxes of tiles.                                                         *)

\* A quotient is below a bound when the dividend is.
LEMMA QuotientBound ==
    ASSUME NEW x \in Nat, NEW u \in Nat \ {0}, NEW c \in Nat
    PROVE  x >= c * u <=> x \div u >= c
<1> DEFINE q == x \div u
           m == x % u
<1>1. q \in Nat /\ m \in 0 .. (u - 1) /\ x = q * u + m
  BY Division
<1> HIDE DEF q, m
<1>2. \A y, z, w \in Nat : y <= z => y * w <= z * w /\ y * w \in Nat /\ z * w \in Nat
  OBVIOUS
<1>3. u \in Nat /\ q * u \in Nat /\ c * u \in Nat
  BY <1>1
<1>4. CASE q >= c
  <2>1. c * u <= q * u
    BY <1>1, <1>2, <1>3, <1>4
  <2>2. QED
    BY <1>1, <1>3, <1>4, <2>1 DEF q
<1>5. CASE q < c
  <2>1. q + 1 \in Nat /\ q + 1 <= c
    BY <1>1, <1>5
  <2>2. (q + 1) * u <= c * u
    BY <1>2, <1>3, <2>1
  <2>3. (q + 1) * u = q * u + u
    BY <1>1, <1>3
  <2>4. QED
    BY <1>1, <1>3, <1>5, <2>2, <2>3 DEF q
<1>6. QED
  BY <1>1, <1>4, <1>5

\* Along one axis: s tiles of u from tile k on, cut where the range r ends.
TilesAlong(r, u, k, s, start, size) == start = k * u /\ size = Smaller(r - start, s * u)

\* It lies in the range, begins on a tile and covers whole tiles: these.
CoversTiles(r, u, k, s, start, size) ==
    /\ start \in Nat /\ start < r /\ start % u = 0
    /\ size \in Nat /\ size >= 1 /\ start + size <= r
    /\ size % u = 0 \/ start + size = r
    /\ size <= s * u
    /\ \A x \in Nat : start <= x /\ x < start + size
                      <=> x < r /\ k <= x \div u /\ x \div u < k + s

\* A stretch of tiles along one axis covers the cells of those tiles.
LEMMA AxisBox ==
    ASSUME NEW r \in Nat \ {0}, NEW u \in Nat \ {0}, NEW k \in Nat, NEW s \in Nat \ {0},
           k < divide_round_up(r, u),
           NEW start, NEW size, TilesAlong(r, u, k, s, start, size)
    PROVE  CoversTiles(r, u, k, s, start, size)
<1>0. start = k * u /\ size = Smaller(r - start, s * u)
  BY DEF TilesAlong
<1>1. r \in Nat /\ u \in Nat /\ s \in Nat
  OBVIOUS
<1>2. start \in Nat /\ start < r
  <2>1. k * u \in Nat
    BY <1>1
  <2>2. k * u >= r <=> k >= divide_round_up(r, u)
    BY RoundUp
  <2>3. divide_round_up(r, u) \in Nat
    BY RoundUp
  <2>4. QED
    BY <1>0, <2>1, <2>2, <2>3
<1> DEFINE w == s * u
<1>3. w \in Nat /\ w >= u /\ w = s * u
  <2>1. \A y, z \in Nat : y >= 1 => y * z >= z /\ y * z \in Nat
    OBVIOUS
  <2>2. QED
    BY <1>1, <2>1
<1>4. \A c \in Nat : (c * u) % u = 0
  <2> SUFFICES ASSUME NEW c \in Nat PROVE (c * u) % u = 0
    OBVIOUS
  <2> DEFINE y == c * u
  <2>1. y \in Nat /\ y = c * u + 0 /\ 0 \in 0 .. (u - 1)
    BY <1>1
  <2> HIDE DEF y
  <2>2. y % u = 0
    BY <2>1, DivisionUnique
  <2>3. QED
    BY <2>2 DEF y
<1>5. start % u = 0 /\ w % u = 0
  BY <1>0, <1>1, <1>4
<1> HIDE DEF w
<1>6. size = Smaller(r - start, w)
  BY <1>0 DEF w
<1>7. /\ size \in Nat /\ size >= 1 /\ start + size <= r
      /\ size % u = 0 \/ start + size = r
      /\ size <= w
      /\ \A x \in Nat : x < start + size <=> x < r /\ x < start + w
  <2>1. CASE r - start < w
    BY <1>1, <1>2, <1>3, <1>6, <2>1 DEF Smaller
  <2>2. CASE ~(r - start < w)
    BY <1>1, <1>2, <1>3, <1>5, <1>6, <2>2 DEF Smaller
  <2>3. QED
    BY <2>1, <2>2
<1>8. ASSUME NEW x \in Nat
      PROVE  (start <= x <=> k <= x \div u) /\ (x < start + w <=> x \div u < k + s)
  <2> DEFINE e == k + s
             q == x \div u
  <2>1. e \in Nat /\ q \in Nat
    BY <1>1
  <2>2. x >= k * u <=> q >= k
    BY QuotientBound
  <2>3. e * u = start + w
    BY <1>0, <1>1, <1>3
  <2> HIDE DEF e
  <2>4. x >= e * u <=> q >= e
    BY <2>1, QuotientBound
  <2> HIDE DEF q
  <2>5. x < start + w <=> q < e
    BY <1>2, <1>3, <2>1, <2>3, <2>4
  <2>6. start <= x <=> k <= q
    BY <1>0, <1>2, <2>1, <2>2
  <2>7. QED
    BY <2>5, <2>6 DEF e, q
<1>9. ASSUME NEW x \in Nat
      PROVE  start <= x /\ x < start + size <=> x < r /\ k <= x \div u /\ x \div u < k + s
  BY <1>7, <1>8
<1>10. QED
  BY <1>2, <1>3, <1>5, <1>7, <1>9 DEF CoversTiles

\* The cells of a call are those of a box.
LEMMA CellsAre ==
    ASSUME NEW D \in Nat, NEW start \in [1 .. D -> Nat], NEW size \in [1 .. D -> Nat]
    PROVE  \A c : c \in Cells(start, size)
                  <=> /\ c \in [1 .. D -> Nat]
                      /\ \A a \in 1 .. D : start[a] <= c[a] /\ c[a] < start[a] + size[a]
<1> DEFINE Along(a) == start[a] .. (start[a] + size[a] - 1)
<1>1. DOMAIN start = 1 .. D
  OBVIOUS
<1>2. Cells(start, size)
      = {c \in [1 .. D -> UNION {Along(a) : a \in 1 .. D}] : \A a \in 1 .. D : c[a] \in Along(a)}
  BY <1>1 DEF Cells
<1>3. \A a \in 1 .. D : \A x : x \in Along(a) <=> x \in Nat /\ start[a] <= x /\ x < start[a] + size[a]
  <2> SUFFICES ASSUME NEW a \in 1 .. D, NEW x
               PROVE  x \in Along(a) <=> x \in Nat /\ start[a] <= x /\ x < start[a] + size[a]
    OBVIOUS
  <2>1. start[a] \in Nat /\ size[a] \in Nat
    OBVIOUS
  <2>2. QED
    BY <2>1
<1> HIDE DEF Along
<1> TAKE c
<1>4. ASSUME c \in Cells(start, size)
      PROVE  /\ c \in [1 .. D -> Nat]
             /\ \A a \in 1 .. D : start[a] <= c[a] /\ c[a] < start[a] + size[a]
  <2>1. c \in [1 .. D -> UNION {Along(a) : a \in 1 .. D}] /\ \A a \in 1 .. D : c[a] \in Along(a)
    BY <1>2, <1>4
  <2>2. QED
    BY <1>3, <2>1
<1>5. ASSUME c \in [1 .. D -> Nat],
             \A a \in 1 .. D : start[a] <= c[a] /\ c[a] < start[a] + size[a]
      PROVE  c \in Cells(start, size)
  <2>1. \A a \in 1 .. D : c[a] \in Along(a)
    BY <1>3, <1>5
  <2>2. c \in [1 .. D -> UNION {Along(a) : a \in 1 .. D}]
    BY <1>5, <2>1
  <2>3. QED
    BY <1>2, <2>1, <2>2
<1>6. QED
  BY <1>4, <1>5

\* The cells of a grid, and those of some of its tiles.
GridOf(range) == {c \in [1 .. Len(range) -> Nat] : \A a \in 1 .. Len(range) : c[a] < range[a]}

InTile(range, tile, c, n) ==
    \A a \in 1 .. Len(range) : RowMajor(TileCounts(range, tile), n)[a] = c[a] \div tile[a]

TilesOf(range, tile, S) == {c \in GridOf(range) : \E n \in S : InTile(range, tile, c, n)}

\* What a grid is made of, axis by axis.
LEMMA GridFacts ==
    ASSUME NEW range, NEW tile, IsGrid(range, tile)
    PROVE  /\ Len(range) \in Nat \ {0} /\ DOMAIN range = 1 .. Len(range)
           /\ range \in [1 .. Len(range) -> Nat \ {0}] /\ tile \in [1 .. Len(range) -> Nat \ {0}]
           /\ TileCounts(range, tile) \in Counts /\ Len(TileCounts(range, tile)) = Len(range)
           /\ Linear(TileCounts(range, tile)) \in Nat \ {0}
           /\ \A a \in 1 .. Len(range) :
                  /\ TileCounts(range, tile)[a] = divide_round_up(range[a], tile[a])
                  /\ TileCounts(range, tile)[a] \in Nat \ {0}
<1>1. /\ range \in Counts /\ tile \in Counts /\ Len(range) = Len(tile)
  BY DEF IsGrid
<1>2. PICK d \in Nat \ {0} : range \in [1 .. d -> Nat \ {0}]
  BY <1>1 DEF Counts
<1>3. PICK e \in Nat \ {0} : tile \in [1 .. e -> Nat \ {0}]
  BY <1>1 DEF Counts
<1>4. Len(range) = d /\ Len(tile) = e
  BY <1>2, <1>3
<1>5. /\ TileCounts(range, tile) \in Counts /\ Len(TileCounts(range, tile)) = Len(range)
      /\ \A a \in 1 .. Len(range) :
            TileCounts(range, tile)[a] = divide_round_up(range[a], tile[a])
  BY TileCountsType
<1>6. Linear(TileCounts(range, tile)) \in Nat \ {0}
  BY <1>5, LinearFacts
<1>7. \A a \in 1 .. Len(range) : TileCounts(range, tile)[a] \in Nat \ {0}
  BY <1>2, <1>3, <1>1, <1>4, <1>5, RoundUp
<1>8. QED
  BY <1>1, <1>2, <1>3, <1>4, <1>5, <1>6, <1>7

\* The tiles cover the grid.
LEMMA WholeGrid ==
    ASSUME NEW range, NEW tile, IsGrid(range, tile)
    PROVE  /\ Cells(Zeros(range), range) = GridOf(range)
           /\ TilesOf(range, tile, 0 .. (Linear(TileCounts(range, tile)) - 1)) = GridOf(range)
<1> DEFINE D == Len(range)
           counts == TileCounts(range, tile)
           N == Linear(counts)
<1>1. /\ D \in Nat \ {0} /\ DOMAIN range = 1 .. D
      /\ range \in [1 .. D -> Nat \ {0}] /\ tile \in [1 .. D -> Nat \ {0}]
      /\ counts \in Counts /\ Len(counts) = D /\ N \in Nat \ {0}
      /\ \A a \in 1 .. D : counts[a] = divide_round_up(range[a], tile[a]) /\ counts[a] \in Nat \ {0}
  BY GridFacts
<1> HIDE DEF counts
<1>2. Cells(Zeros(range), range) = GridOf(range)
  <2>1. Zeros(range) \in [1 .. D -> Nat] /\ \A a \in 1 .. D : Zeros(range)[a] = 0
    BY <1>1 DEF Zeros
  <2>2. \A c : c \in Cells(Zeros(range), range)
               <=> /\ c \in [1 .. D -> Nat]
                   /\ \A a \in 1 .. D : Zeros(range)[a] <= c[a] /\ c[a] < Zeros(range)[a] + range[a]
    <3>1. range \in [1 .. D -> Nat] /\ D \in Nat
      BY <1>1
    <3> HIDE DEF D
    <3>2. QED
      BY <2>1, <3>1, CellsAre
  <2>3. ASSUME NEW c \in [1 .. D -> Nat], NEW a \in 1 .. D
        PROVE  Zeros(range)[a] <= c[a] /\ c[a] < Zeros(range)[a] + range[a] <=> c[a] < range[a]
    BY <1>1, <2>1
  <2>4. \A c : c \in Cells(Zeros(range), range) <=> c \in GridOf(range)
    BY <2>2, <2>3 DEF GridOf
  <2>5. QED
    BY <2>4
<1>3. ASSUME NEW c \in GridOf(range)
      PROVE  \E n \in 0 .. (N - 1) : InTile(range, tile, c, n)
  <2>1. c \in [1 .. D -> Nat] /\ \A a \in 1 .. D : c[a] < range[a]
    BY DEF GridOf
  <2> DEFINE q == [a \in 1 .. D |-> c[a] \div tile[a]]
  <2>2. ASSUME NEW a \in 1 .. D PROVE q[a] \in 0 .. (counts[a] - 1)
    <3>1. c[a] \in Nat /\ tile[a] \in Nat \ {0} /\ range[a] \in Nat \ {0} /\ counts[a] \in Nat \ {0}
      BY <1>1, <2>1
    <3>2. q[a] \in Nat
      BY <3>1, Division
    <3>3. counts[a] * tile[a] >= range[a] /\ counts[a] * tile[a] \in Nat
      <4>1. \A n, u \in Nat \ {0} : \A k \in Nat : k * u >= n <=> k >= divide_round_up(n, u)
        BY RoundUp
      <4>2. PICK k \in Nat \ {0} : k = counts[a] /\ k = divide_round_up(range[a], tile[a])
        BY <1>1, <3>1
      <4>3. k * tile[a] >= range[a] /\ k * tile[a] \in Nat
        BY <3>1, <4>1, <4>2
      <4>4. QED
        BY <4>2, <4>3
    <3>4. ~(c[a] >= counts[a] * tile[a])
      BY <2>1, <3>1, <3>3
    <3>5. c[a] >= counts[a] * tile[a] <=> c[a] \div tile[a] >= counts[a]
      BY <3>1, QuotientBound
    <3>6. q[a] = c[a] \div tile[a]
      OBVIOUS
    <3> HIDE DEF q
    <3>7. ~(q[a] >= counts[a])
      BY <3>4, <3>5, <3>6
    <3>8. QED
      BY <3>1, <3>2, <3>7
  <2> HIDE DEF q
  <2>3. PICK n \in Nat : n < N /\ \A a \in 1 .. D : RowMajor(counts, n)[a] = q[a]
    BY <1>1, <2>2, RowMajorOnto
  <2>4. InTile(range, tile, c, n)
    BY <2>3 DEF InTile, counts, q
  <2>5. QED
    BY <1>1, <2>3, <2>4
<1>4. TilesOf(range, tile, 0 .. (N - 1)) = GridOf(range)
  BY <1>3 DEF TilesOf
<1>5. QED
  BY <1>2, <1>4 DEF counts

\* Different items are different tiles, and these have no cell in common.
LEMMA TilesApart ==
    ASSUME NEW range, NEW tile, IsGrid(range, tile),
           NEW S \in SUBSET Nat, NEW T \in SUBSET Nat, S \cap T = {}
    PROVE  TilesOf(range, tile, S) \cap TilesOf(range, tile, T) = {}
<1> SUFFICES ASSUME NEW c, c \in TilesOf(range, tile, S), c \in TilesOf(range, tile, T)
             PROVE  FALSE
  OBVIOUS
<1>1. PICK m \in S : InTile(range, tile, c, m)
  BY DEF TilesOf
<1>2. PICK n \in T : InTile(range, tile, c, n)
  BY DEF TilesOf
<1>3. TileCounts(range, tile) \in Counts /\ Len(TileCounts(range, tile)) = Len(range)
  BY TileCountsType
<1>4. m = n
  <2>1. \A a \in 1 .. Len(range) :
            RowMajor(TileCounts(range, tile), m)[a] = RowMajor(TileCounts(range, tile), n)[a]
    BY <1>1, <1>2 DEF InTile
  <2>2. m \in Nat /\ n \in Nat
    OBVIOUS
  <2>3. QED
    BY <1>3, <2>1, <2>2, RowMajorInjective
<1>5. QED
  BY <1>4

\* The number of tiles of a call along axis a: i along g.
Along(g, i, a) == IF a = g THEN i ELSE 1

\* Tile n and those after it in its row along axis g, i of them.
RowOfTiles(range, tile, n, g, i) ==
    LET counts == TileCounts(range, tile) IN
    /\ n \in Nat /\ n < Linear(counts)
    /\ g \in 1 .. Len(range) /\ i \in Nat \ {0}
    /\ i # 1 => StepFits(counts, n, g, i)
    /\ RowMajor(counts, n)[g] + i <= counts[g]

\* The task is passed these tiles.
PassesTiles(range, tile, n, g, i, start, size) ==
    /\ start = TileStart(range, tile, n)
    /\ size = SizeAt(range, [a \in 1 .. Len(range) |-> Along(g, i, a) * tile[a]], start)

\* What a task is passed for i tiles of a row from tile n on: it fits the grid,
\* and its cells are those of the i tiles.
LEMMA BoxOfTiles ==
    ASSUME NEW range, NEW tile, IsGrid(range, tile),
           NEW n, NEW g, NEW i, RowOfTiles(range, tile, n, g, i),
           NEW start, NEW size, PassesTiles(range, tile, n, g, i, start, size)
    PROVE  /\ start \in [1 .. Len(range) -> Nat] /\ size \in [1 .. Len(range) -> Nat]
           /\ \A a \in 1 .. Len(range) :
                 /\ start[a] < range[a] /\ start[a] % tile[a] = 0
                 /\ size[a] >= 1 /\ start[a] + size[a] <= range[a]
                 /\ size[a] % tile[a] = 0 \/ start[a] + size[a] = range[a]
                 /\ size[a] <= Along(g, i, a) * tile[a]
           /\ Cells(start, size) = TilesOf(range, tile, n .. (n + i - 1))
<1> DEFINE D == Len(range)
           counts == TileCounts(range, tile)
           row == RowMajor(counts, n)
<1>1. /\ D \in Nat \ {0} /\ DOMAIN range = 1 .. D
      /\ range \in [1 .. D -> Nat \ {0}] /\ tile \in [1 .. D -> Nat \ {0}]
      /\ counts \in Counts /\ Len(counts) = D
      /\ \A a \in 1 .. D : counts[a] = divide_round_up(range[a], tile[a]) /\ counts[a] \in Nat \ {0}
  BY GridFacts
<1>0. n \in Nat /\ n < Linear(counts) /\ g \in 1 .. D /\ i \in Nat \ {0}
  BY DEF RowOfTiles
<1>2. \A a \in 1 .. D : row[a] \in Nat /\ row[a] < counts[a]
  <2>1. \A a \in 1 .. D : row[a] \in 0 .. (counts[a] - 1)
    BY <1>0, <1>1, RowMajorInGrid
  <2>2. QED
    BY <1>1, <2>1
<1>3. \A a \in 1 .. D : start[a] = row[a] * tile[a]
  BY DEF PassesTiles, TileStart
<1>4. \A a \in 1 .. D : size[a] = Smaller(range[a] - start[a], Along(g, i, a) * tile[a])
  BY <1>1 DEF PassesTiles, SizeAt
<1>5. /\ i # 1 => StepFits(counts, n, g, i)
      /\ row[g] + i <= counts[g]
  BY DEF RowOfTiles
<1>6. DOMAIN start = 1 .. D /\ DOMAIN size = 1 .. D
      /\ start = [a \in 1 .. D |-> start[a]] /\ size = [a \in 1 .. D |-> size[a]]
  BY <1>1 DEF PassesTiles, TileStart, SizeAt
<1> HIDE DEF row, counts
<1>7. ASSUME NEW a \in 1 .. D
      PROVE  /\ start[a] \in Nat /\ start[a] < range[a] /\ start[a] % tile[a] = 0
             /\ size[a] \in Nat /\ size[a] >= 1 /\ start[a] + size[a] <= range[a]
             /\ size[a] % tile[a] = 0 \/ start[a] + size[a] = range[a]
             /\ size[a] <= Along(g, i, a) * tile[a]
             /\ \A x \in Nat :
                   start[a] <= x /\ x < start[a] + size[a]
                   <=> x < range[a] /\ row[a] <= x \div tile[a] /\ x \div tile[a] < row[a] + Along(g, i, a)
  <2>1. /\ range[a] \in Nat \ {0} /\ tile[a] \in Nat \ {0} /\ row[a] \in Nat
        /\ row[a] < divide_round_up(range[a], tile[a])
    BY <1>1, <1>2
  <2>2. PICK s \in Nat \ {0} : s = Along(g, i, a)
    BY <1>0 DEF Along
  <2>3. PICK k \in Nat, r \in Nat \ {0}, u \in Nat \ {0} :
            k = row[a] /\ r = range[a] /\ u = tile[a] /\ k < divide_round_up(r, u)
    BY <2>1
  <2>4. start[a] = k * u /\ size[a] = Smaller(r - start[a], s * u)
    BY <1>3, <1>4, <2>2, <2>3
  <2> DEFINE b == start[a]
             z == size[a]
  <2> HIDE DEF b, z
  <2>5. TilesAlong(r, u, k, s, b, z)
    BY <2>4 DEF TilesAlong, b, z
  <2>6. CoversTiles(r, u, k, s, b, z)
    <3>1. k < divide_round_up(r, u)
      BY <2>3
    <3>2. QED
      BY <2>5, <3>1, AxisBox
  <2>7. QED
    BY <2>2, <2>3, <2>6 DEF CoversTiles, b, z
<1>8. start \in [1 .. D -> Nat] /\ size \in [1 .. D -> Nat]
  BY <1>6, <1>7
<1>9. \A c : c \in Cells(start, size)
             <=> /\ c \in GridOf(range)
                 /\ \A a \in 1 .. D : /\ row[a] <= c[a] \div tile[a]
                                      /\ c[a] \div tile[a] < row[a] + Along(g, i, a)
  <2>1. \A c : c \in Cells(start, size)
               <=> /\ c \in [1 .. D -> Nat]
                   /\ \A a \in 1 .. D : start[a] <= c[a] /\ c[a] < start[a] + size[a]
    <3>1. D \in Nat
      BY <1>1
    <3>2. \A d \in Nat : \A b, z \in [1 .. d -> Nat] : \A c :
              c \in Cells(b, z) <=> /\ c \in [1 .. d -> Nat]
                                   /\ \A a \in 1 .. d : b[a] <= c[a] /\ c[a] < b[a] + z[a]
      BY CellsAre
    <3> HIDE DEF D
    <3>3. QED
      BY <1>8, <3>1, <3>2
  <2>2. ASSUME NEW c \in [1 .. D -> Nat], NEW a \in 1 .. D
        PROVE  start[a] <= c[a] /\ c[a] < start[a] + size[a]
               <=> /\ c[a] < range[a] /\ row[a] <= c[a] \div tile[a]
                   /\ c[a] \div tile[a] < row[a] + Along(g, i, a)
    <3>1. c[a] \in Nat
      OBVIOUS
    <3>2. QED
      BY <1>7, <3>1
  <2>3. QED
    BY <2>1, <2>2 DEF GridOf
<1>10. ASSUME NEW j \in Nat, j < i
       PROVE  \A a \in 1 .. D : RowMajor(counts, n + j)[a] = row[a] + (IF a = g THEN j ELSE 0)
  <2>1. row[g] \in Nat /\ counts[g] \in Nat
    BY <1>0, <1>1, <1>2
  <2>2. j # 0 => StepFits(counts, n, g, j)
    <3> SUFFICES ASSUME j # 0 PROVE StepFits(counts, n, g, j)
      OBVIOUS
    <3>1. i # 1 /\ j \in Nat \ {0}
      BY <1>0, <1>10
    <3>2. StepFits(counts, n, g, i)
      BY <1>5, <3>1
    <3>3. row[g] + j <= counts[g]
      BY <1>0, <1>5, <1>10, <2>1
    <3>4. QED
      BY <1>0, <3>1, <3>2, <3>3 DEF StepFits, row
  <2>3. row[g] + j < counts[g]
    BY <1>0, <1>5, <1>10, <2>1
  <2>4. RowMajor(counts, n)[g] + j < counts[g]
    BY <2>3 DEF row
  <2>5. \A a \in 1 .. Len(counts) :
            RowMajor(counts, n + j)[a] = RowMajor(counts, n)[a] + (IF a = g THEN j ELSE 0)
    <3>1. counts \in Counts
      BY <1>1
    <3>2. QED
      BY <1>0, <2>2, <2>4, <3>1, RowItems
  <2>6. QED
    BY <1>1, <2>5 DEF row
<1>11. ASSUME NEW c \in GridOf(range)
       PROVE  (\A a \in 1 .. D : /\ row[a] <= c[a] \div tile[a]
                                 /\ c[a] \div tile[a] < row[a] + Along(g, i, a))
              <=> \E m \in n .. (n + i - 1) : InTile(range, tile, c, m)
  <2> DEFINE q == [a \in 1 .. D |-> c[a] \div tile[a]]
  <2>1. \A a \in 1 .. D : q[a] = c[a] \div tile[a] /\ q[a] \in Nat
    <3>1. \A a \in 1 .. D : c[a] \in Nat /\ tile[a] \in Nat \ {0}
      BY <1>1 DEF GridOf
    <3>2. QED
      BY <3>1, Division
  <2> HIDE DEF q
  <2>2. \A m : InTile(range, tile, c, m) <=> \A a \in 1 .. D : RowMajor(counts, m)[a] = q[a]
    BY <2>1 DEF InTile, counts
  <2>3. ASSUME \A a \in 1 .. D : row[a] <= q[a] /\ q[a] < row[a] + Along(g, i, a)
        PROVE  \E m \in n .. (n + i - 1) : InTile(range, tile, c, m)
    <3> DEFINE j == q[g] - row[g]
    <3>1. j \in Nat /\ j < i /\ q[g] = row[g] + j
      BY <1>0, <1>2, <2>1, <2>3 DEF Along
    <3>2. \A a \in 1 .. D : a # g => q[a] = row[a] + 0
      <4> SUFFICES ASSUME NEW a \in 1 .. D, a # g PROVE q[a] = row[a] + 0
        OBVIOUS
      <4>1. q[a] \in Nat /\ row[a] \in Nat /\ row[a] <= q[a] /\ q[a] < row[a] + 1
        BY <1>0, <1>2, <2>1, <2>3 DEF Along
      <4>2. QED
        BY <4>1
    <3> HIDE DEF j
    <3>3. \A a \in 1 .. D : RowMajor(counts, n + j)[a] = q[a]
      BY <1>0, <1>10, <3>1, <3>2
    <3>4. n + j \in n .. (n + i - 1)
      BY <1>0, <3>1
    <3>5. QED
      BY <2>2, <3>3, <3>4
  <2>4. ASSUME NEW m \in n .. (n + i - 1), InTile(range, tile, c, m)
        PROVE  \A a \in 1 .. D : row[a] <= q[a] /\ q[a] < row[a] + Along(g, i, a)
    <3> DEFINE j == m - n
    <3>1. j \in Nat /\ j < i /\ m = n + j
      BY <1>0
    <3> HIDE DEF j
    <3>2. \A a \in 1 .. D : q[a] = row[a] + (IF a = g THEN j ELSE 0)
      BY <1>0, <1>10, <2>2, <2>4, <3>1
    <3>3. QED
      BY <1>0, <1>2, <2>1, <3>1, <3>2 DEF Along
  <2>5. QED
    BY <2>1, <2>3, <2>4
<1>12. \A c : c \in Cells(start, size) <=> c \in TilesOf(range, tile, n .. (n + i - 1))
  BY <1>9, <1>11 DEF TilesOf
<1>13. QED
  BY <1>7, <1>8, <1>12

-----------------------------------------------------------------------------
(* The calls of the task.                                                  *)

\* What the task may be told about its thread.
UarchAllowed(u) == u = DefaultUarch \/ (u <= MaxUarch /\ ~job.shim)

CallOK(t) ==
    /\ FitsGrid(call[t])
    /\ "thread" \in job.nest.ids => call[t].thread = t
    /\ UarchAllowed(call[t].uarch)

CallInv ==
    /\ call = [t \in Threads |-> call[t]]
    /\ \A t \in Threads : UarchAllowed(uarch[t])
    /\ \A t \in Threads : IF pc[t] = "task" THEN CallOK(t) ELSE call[t] = NoCall

\* The cells of some tiles of the job, and those of the call of a thread.
CellsOf(S) == TilesOf(job.range, job.tile, S)

CallCells(t) == Cells(call[t].start, call[t].size)

\* The tiles of the loop over the items, or of the wrapper's own loops.
Tiles == Linear(TileCounts(job.range, job.tile))

\* Two axes of the same length, and a tile that is one of two sizes.
LEMMA UnitFits ==
    ASSUME NEW r \in Nat \ {0}, NEW u \in Nat \ {0}, NEW w, w = u \/ w = r,
           NEW start \in Nat, NEW size \in Nat, start < r, start % w = 0,
           size >= 1, start + size <= r, size % w = 0 \/ start + size = r
    PROVE  start % u = 0 /\ (size % u = 0 \/ start + size = r)
<1>1. CASE w = u
  BY <1>1
<1>2. CASE w = r
  <2>1. \A x \in Nat : x < r => x % r = x
    <3> SUFFICES ASSUME NEW x \in Nat, x < r PROVE x % r = x
      OBVIOUS
    <3>1. x = 0 * r + x /\ x \in 0 .. (r - 1)
      OBVIOUS
    <3>2. 0 \in Nat
      OBVIOUS
    <3>3. QED
      BY <3>1, <3>2, DivisionUnique
  <2>2. start = 0
    BY <1>2, <2>1
  <2>3. 0 % u = 0
    <3>1. 0 = 0 * u + 0 /\ 0 \in 0 .. (u - 1) /\ 0 \in Nat
      OBVIOUS
    <3>2. QED
      BY <3>1, DivisionUnique
  <2>4. start + size = r
    <3>1. size < r => size % r = size
      BY <2>1
    <3>2. QED
      BY <1>2, <2>2, <3>1
  <2>5. QED
    BY <2>2, <2>3, <2>4
<1>3. QED
  BY <1>1, <1>2

\* A call for tiles of a row keeps to the grid.
LEMMA CallFits ==
    ASSUME job \in Jobs, NEW c, NEW n, NEW g, NEW i,
           RowOfTiles(job.range, job.tile, n, g, i),
           PassesTiles(job.range, job.tile, n, g, i, c.start, c.size),
           ~job.nest.dynamic => i = 1
    PROVE  FitsGrid(c) /\ Cells(c.start, c.size) = CellsOf(n .. (n + i - 1))
<1> DEFINE D == Len(job.range)
           start == c.start
           size == c.size
<1>1. GoodJob(job) /\ job.serial \in BOOLEAN /\ DOMAIN job.range = 1 .. D
  BY JobFacts
<1>2. IsGrid(job.range, job.tile) /\ IsGrid(job.range, job.unit)
  BY <1>1 DEF GoodJob
<1>3. /\ job.range \in [1 .. D -> Nat \ {0}] /\ job.tile \in [1 .. D -> Nat \ {0}]
      /\ job.unit \in [1 .. D -> Nat \ {0}]
  BY <1>2, GridFacts
<1>4. /\ start \in [1 .. D -> Nat] /\ size \in [1 .. D -> Nat]
      /\ \A a \in 1 .. D :
            /\ start[a] < job.range[a] /\ start[a] % job.tile[a] = 0
            /\ size[a] >= 1 /\ start[a] + size[a] <= job.range[a]
            /\ size[a] % job.tile[a] = 0 \/ start[a] + size[a] = job.range[a]
            /\ size[a] <= Along(g, i, a) * job.tile[a]
      /\ Cells(start, size) = TilesOf(job.range, job.tile, n .. (n + i - 1))
  BY <1>2, BoxOfTiles
<1>5. \A a \in 1 .. D : job.tile[a] = job.unit[a] \/ job.tile[a] = job.range[a]
  BY <1>1 DEF GoodJob
<1>6. ~job.nest.dynamic => job.tile = job.unit
  BY <1>1 DEF GoodJob
<1>7. Cells(c.start, c.size) = CellsOf(n .. (n + i - 1))
  BY <1>4 DEF CellsOf
<1> HIDE DEF start, size
<1>8. ASSUME NEW a \in 1 .. D
      PROVE  /\ start[a] \in 0 .. (job.range[a] - 1)
             /\ start[a] % job.unit[a] = 0
             /\ start[a] + size[a] \in (start[a] + 1) .. job.range[a]
             /\ size[a] % job.unit[a] = 0 \/ start[a] + size[a] = job.range[a]
             /\ job.nest.dynamic \/ size[a] <= job.unit[a]
  <2>1. /\ start[a] \in Nat /\ size[a] \in Nat
        /\ job.range[a] \in Nat \ {0} /\ job.unit[a] \in Nat \ {0} /\ job.tile[a] \in Nat \ {0}
    BY <1>3, <1>4
  <2>2. start[a] % job.unit[a] = 0 /\ (size[a] % job.unit[a] = 0 \/ start[a] + size[a] = job.range[a])
    <3>1. PICK r \in Nat \ {0}, u \in Nat \ {0}, w \in Nat \ {0}, b \in Nat, z \in Nat :
              r = job.range[a] /\ u = job.unit[a] /\ w = job.tile[a] /\ b = start[a] /\ z = size[a]
      BY <2>1
    <3>2. w = u \/ w = r
      BY <1>5, <3>1
    <3>3. b < r /\ b % w = 0 /\ z >= 1 /\ b + z <= r /\ (z % w = 0 \/ b + z = r)
      BY <1>4, <3>1
    <3>4. b % u = 0 /\ (z % u = 0 \/ b + z = r)
      BY <3>2, <3>3, UnitFits
    <3>5. QED
      BY <3>1, <3>4
  <2>3. job.nest.dynamic \/ size[a] <= job.unit[a]
    <3> SUFFICES ASSUME ~job.nest.dynamic PROVE size[a] <= job.unit[a]
      OBVIOUS
    <3>1. Along(g, i, a) = 1
      BY DEF Along
    <3>2. size[a] <= 1 * job.unit[a]
      BY <1>4, <1>6, <3>1
    <3>3. QED
      BY <2>1, <3>2
  <2>4. QED
    BY <1>4, <2>1, <2>2, <2>3
<1>9. FitsGrid(c)
  BY <1>1, <1>8 DEF FitsGrid, start, size
<1>10. QED
  BY <1>7, <1>9

\* A call for one tile, as the static functions and the serial loops make it.
LEMMA TilePassed ==
    ASSUME NEW range, NEW tile, IsGrid(range, tile),
           NEW n \in Nat, n < Linear(TileCounts(range, tile))
    PROVE  \E g : /\ RowOfTiles(range, tile, n, g, 1)
                  /\ PassesTiles(range, tile, n, g, 1, TileStart(range, tile, n),
                                 SizeAt(range, tile, TileStart(range, tile, n)))
<1> DEFINE D == Len(range)
           counts == TileCounts(range, tile)
           z == [a \in 1 .. D |-> Along(D, 1, a) * tile[a]]
<1>1. /\ D \in Nat \ {0} /\ tile \in [1 .. D -> Nat \ {0}]
      /\ counts \in Counts /\ Len(counts) = D
      /\ \A a \in 1 .. D : counts[a] \in Nat \ {0}
  BY GridFacts
<1>2. z = tile
  <2>1. \A a \in 1 .. D : Along(D, 1, a) * tile[a] = tile[a]
    <3> SUFFICES ASSUME NEW a \in 1 .. D PROVE Along(D, 1, a) * tile[a] = tile[a]
      OBVIOUS
    <3>1. Along(D, 1, a) = 1 /\ tile[a] \in Nat
      BY <1>1 DEF Along
    <3>2. QED
      BY <3>1
  <2>2. QED
    BY <1>1, <2>1
<1>3. RowMajor(counts, n)[D] + 1 <= counts[D]
  <2>1. D \in 1 .. D /\ \A a \in 1 .. D : RowMajor(counts, n)[a] \in 0 .. (counts[a] - 1)
    BY <1>1, RowMajorInGrid
  <2>2. QED
    BY <1>1, <2>1
<1>4. RowOfTiles(range, tile, n, D, 1)
  BY <1>1, <1>3 DEF RowOfTiles
<1> HIDE DEF z
<1>5. PassesTiles(range, tile, n, D, 1, TileStart(range, tile, n),
                  SizeAt(range, tile, TileStart(range, tile, n)))
  BY <1>2 DEF PassesTiles, z
<1>6. QED
  BY <1>4, <1>5

\* Thread t enters the task with i tiles from tile n on.
CallsTask(t, n, g, i) ==
    /\ RowOfTiles(job.range, job.tile, n, g, i)
    /\ ~job.nest.dynamic => i = 1
    /\ \E start, size : /\ PassesTiles(job.range, job.tile, n, g, i, start, size)
                        /\ call' = [call EXCEPT ![t] = Task(t, start, size)]
    /\ job' = job /\ uarch' = uarch /\ done' = done
    /\ pc' = [pc EXCEPT ![t] = "task"]

\* The call of t becomes one for these tiles, and no other call changes.
LEMMA CallStep ==
    ASSUME ClaimInv, CallInv, NEW t \in Threads, NEW n, NEW g, NEW i, CallsTask(t, n, g, i)
    PROVE  /\ CallInv'
           /\ CallCells(t)' = CellsOf(n .. (n + i - 1))
           /\ \A u \in Threads \ {t} : CallCells(u)' = CallCells(u)
<1>1. LoopTypes /\ job \in Jobs
  BY DEF ClaimInv, LoopTypes
<1>2. PICK start, size : /\ PassesTiles(job.range, job.tile, n, g, i, start, size)
                         /\ call' = [call EXCEPT ![t] = Task(t, start, size)]
  BY DEF CallsTask
<1>3. /\ RowOfTiles(job.range, job.tile, n, g, i) /\ (~job.nest.dynamic => i = 1)
      /\ job' = job /\ uarch' = uarch /\ pc' = [pc EXCEPT ![t] = "task"]
  BY DEF CallsTask
<1> DEFINE c == Task(t, start, size)
<1>4. /\ c.start = start /\ c.size = size
      /\ "thread" \in job.nest.ids => c.thread = t
      /\ c.uarch = DefaultUarch \/ c.uarch = uarch[t]
  BY DEF Task
<1> HIDE DEF c
<1>5. call' = [call EXCEPT ![t] = c] /\ call = [u \in Threads |-> call[u]]
  BY <1>2 DEF c, CallInv
<1>6. call'[t] = c /\ \A u \in Threads \ {t} : call'[u] = call[u]
  BY <1>5
<1>7. pc'[t] = "task" /\ \A u \in Threads \ {t} : pc'[u] = pc[u]
  BY <1>1, <1>3 DEF LoopTypes
<1>8. FitsGrid(c) /\ Cells(c.start, c.size) = CellsOf(n .. (n + i - 1))
  BY <1>1, <1>2, <1>3, <1>4, CallFits
<1>9. \A u \in Threads : UarchAllowed(uarch[u])'
  BY <1>3 DEF CallInv, UarchAllowed
<1>10. CallOK(t)'
  <2>1. FitsGrid(call[t])'
    BY <1>3, <1>6, <1>8 DEF FitsGrid
  <2>2. ("thread" \in job.nest.ids => call[t].thread = t)'
    BY <1>3, <1>4, <1>6
  <2>3. UarchAllowed(call[t].uarch)'
    BY <1>3, <1>4, <1>6 DEF CallInv, UarchAllowed
  <2>4. QED
    BY <2>1, <2>2, <2>3 DEF CallOK
<1>11. ASSUME NEW u \in Threads \ {t}
       PROVE  IF pc'[u] = "task" THEN CallOK(u)' ELSE call'[u] = NoCall
  <2>1. IF pc[u] = "task" THEN CallOK(u) ELSE call[u] = NoCall
    BY DEF CallInv
  <2>2. CallOK(u) => CallOK(u)'
    BY <1>3, <1>6 DEF CallOK, FitsGrid, UarchAllowed
  <2>3. QED
    BY <1>6, <1>7, <2>1, <2>2
<1>12. (call = [u \in Threads |-> call[u]])'
  BY <1>5
<1>13. CallInv'
  BY <1>7, <1>9, <1>10, <1>11, <1>12 DEF CallInv
<1>14. CallCells(t)' = CellsOf(n .. (n + i - 1)) /\ \A u \in Threads \ {t} : CallCells(u)' = CallCells(u)
  BY <1>6, <1>8 DEF CallCells
<1>15. QED
  BY <1>13, <1>14

\* A step in which nobody enters or leaves the task.
LEMMA NoCallStep ==
    ASSUME CallInv, job' = job, call' = call, \A u \in Threads : UarchAllowed(uarch[u])',
           \A u \in Threads : pc'[u] = "task" <=> pc[u] = "task"
    PROVE  CallInv' /\ \A u : CallCells(u)' = CallCells(u)
<1>1. \A u \in Threads : CallOK(u) => CallOK(u)'
  BY DEF CallOK, FitsGrid, UarchAllowed
<1>2. (call = [u \in Threads |-> call[u]])'
  BY DEF CallInv
<1>3. \A u \in Threads : IF pc'[u] = "task" THEN CallOK(u)' ELSE call'[u] = NoCall
  <2> TAKE u \in Threads
  <2>1. IF pc[u] = "task" THEN CallOK(u) ELSE call[u] = NoCall
    BY DEF CallInv
  <2>2. QED
    BY <1>1, <2>1
<1>4. CallInv'
  BY <1>2, <1>3 DEF CallInv
<1>5. \A u : CallCells(u)' = CallCells(u)
  BY DEF CallCells
<1>6. QED
  BY <1>4, <1>5

\* A thread returns from the task.
LEMMA ReturnStep ==
    ASSUME ClaimInv, CallInv, NEW t \in Threads, Finish(t)
    PROVE  /\ CallInv'
           /\ \A u \in Threads \ {t} : CallCells(u)' = CallCells(u)
<1>1. LoopTypes
  BY DEF ClaimInv
<1>2. /\ job' = job /\ uarch' = uarch /\ call' = [call EXCEPT ![t] = NoCall]
      /\ pc' = [pc EXCEPT ![t] = IF job.serial THEN "serial" ELSE IF chunk[t] > 0 THEN "chunk" ELSE "claim"]
  BY DEF Finish, Goto
<1>3. call = [u \in Threads |-> call[u]]
  BY DEF CallInv
<1>4. call'[t] = NoCall /\ \A u \in Threads \ {t} : call'[u] = call[u]
  BY <1>2, <1>3
<1>5. pc'[t] # "task" /\ \A u \in Threads \ {t} : pc'[u] = pc[u]
  BY <1>1, <1>2 DEF LoopTypes
<1>6. ASSUME NEW u \in Threads
      PROVE  IF pc'[u] = "task" THEN CallOK(u)' ELSE call'[u] = NoCall
  <2>1. IF pc[u] = "task" THEN CallOK(u) ELSE call[u] = NoCall
    BY DEF CallInv
  <2>2. u # t => (CallOK(u) => CallOK(u)')
    BY <1>2, <1>4 DEF CallOK, FitsGrid, UarchAllowed
  <2>3. QED
    BY <1>4, <1>5, <2>1, <2>2
<1>7. (call = [u \in Threads |-> call[u]])'
  BY <1>2, <1>3
<1>8. \A u \in Threads : UarchAllowed(uarch[u])'
  BY <1>2 DEF CallInv, UarchAllowed
<1>9. CallInv'
  BY <1>6, <1>7, <1>8 DEF CallInv
<1>10. QED
  BY <1>4, <1>9 DEF CallCells

\* What a thread looks up is allowed.
LEMMA LookUpAllowed ==
    ASSUME LoopTypes, CallInv, job' = job, NEW t \in Threads, LookUpCpu(t)
    PROVE  \A u \in Threads : UarchAllowed(uarch[u])'
<1>1. \A u \in Threads : UarchAllowed(uarch[u])
  BY DEF CallInv
<1>2. PICK cpu \in CpuUarchs[t] :
          uarch' = [uarch EXCEPT ![t] = IF "uarch" \in job.nest.ids /\ ~job.shim
                                        THEN UarchOn(cpu) ELSE @]
  BY DEF LookUpCpu
<1>3. cpu \in Nat /\ MaxUarch \in Nat
  BY <1>2, UarchAssumption
<1>4. uarch'[t] = uarch[t] \/ (uarch'[t] = UarchOn(cpu) /\ ~job.shim)
  BY <1>2 DEF LoopTypes
<1>5. \A u \in Threads \ {t} : uarch'[u] = uarch[u]
  BY <1>2 DEF LoopTypes
<1>6. ~job.shim => UarchAllowed(UarchOn(cpu))
  BY <1>3 DEF UarchAllowed, UarchOn
<1>7. QED
  BY <1>1, <1>4, <1>5, <1>6 DEF UarchAllowed

\* The call of a static function.
LEMMA StaticCall ==
    ASSUME ClaimInv, NEW t \in Threads, CallOnTile(t)
    PROVE  \E g : CallsTask(t, from[t], g, 1)
<1>1. pc[t] = "chunk" /\ ~job.nest.dynamic /\ job \in Jobs /\ ~job.serial
  BY InTheJob DEF CallOnTile
<1>2. /\ at[t] = TileStart(job.range, job.tile, from[t]) /\ job.tile = job.unit
      /\ from[t] \in Nat /\ from[t] + 1 <= Linear(job.counts)
  BY <1>1, TileFacts
<1>3. IsGrid(job.range, job.tile) /\ job.counts = TileCounts(job.range, job.tile)
      /\ Linear(job.counts) \in Nat
  BY <1>1, <1>2, JobFacts DEF GoodJob
<1>4. from[t] < Linear(TileCounts(job.range, job.tile))
  BY <1>2, <1>3
<1> DEFINE start == at[t]
           size == SizeAt(job.range, job.tile, at[t])
<1>5. PICK g : RowOfTiles(job.range, job.tile, from[t], g, 1)
               /\ PassesTiles(job.range, job.tile, from[t], g, 1, start, size)
  BY <1>2, <1>3, <1>4, TilePassed
<1>6. call' = [call EXCEPT ![t] = Task(t, start, size)]
  BY DEF CallOnTile
<1>7. job' = job /\ uarch' = uarch /\ done' = done /\ pc' = [pc EXCEPT ![t] = "task"]
  BY DEF CallOnTile, Goto
<1>8. QED
  BY <1>5, <1>6, <1>7 DEF CallsTask

\* The call of a dynamic function.
LEMMA RowCall ==
    ASSUME ClaimInv, NEW t \in Threads, CallOnRow(t)
    PROVE  \E g : CallsTask(t, from[t], g, RowTiles(t))
<1>1. pc[t] = "chunk" /\ job.nest.dynamic /\ job \in Jobs /\ ~job.serial /\ LoopTypes
  BY InTheJob DEF CallOnRow
<1>2. PICK g : g = GroupAxis(job.nest, job.counts)
  OBVIOUS
<1> DEFINE D == Len(job.range)
           i == RowTiles(t)
           steps == [a \in DOMAIN at[t] |-> IF a = g THEN i ELSE 1]
           start == [a \in DOMAIN at[t] |-> at[t][a] * job.tile[a]]
           sizes == [a \in DOMAIN at[t] |-> steps[a] * job.tile[a]]
           size == SizeAt(job.range, sizes, start)
<1>3. /\ at[t] = RowMajor(job.counts, from[t]) /\ from[t] \in Nat
      /\ i \in 1 .. chunk[t] /\ StepFits(job.counts, from[t], g, i)
      /\ at[t][g] + i <= job.counts[g]
      /\ from[t] + chunk[t] <= Linear(job.counts)
  BY <1>1, <1>2, RowFacts
<1>4. /\ GoodJob(job) /\ DOMAIN job.counts = 1 .. D /\ Linear(job.counts) \in Nat
      /\ Len(job.counts) = D /\ D \in Nat
  BY <1>1, JobFacts
<1>5. job.counts = TileCounts(job.range, job.tile)
  BY <1>1, <1>4 DEF GoodJob
<1>6. chunk[t] \in Nat
  BY <1>1, JobFacts DEF LoopTypes
<1>7. RowOfTiles(job.range, job.tile, from[t], g, i)
  <2>1. from[t] < Linear(job.counts) /\ i \in Nat \ {0}
    BY <1>3, <1>4, <1>6
  <2>2. g \in 1 .. D
    BY <1>3, <1>4 DEF StepFits
  <2> HIDE DEF i
  <2>3. QED
    BY <1>3, <1>5, <2>1, <2>2 DEF RowOfTiles
<1>8. DOMAIN at[t] = 1 .. D
  BY <1>1 DEF LoopTypes
<1>9. start = TileStart(job.range, job.tile, from[t])
  BY <1>3, <1>5, <1>8 DEF TileStart
<1>10. sizes = [a \in 1 .. D |-> Along(g, i, a) * job.tile[a]]
  <2> HIDE DEF i
  <2>1. \A a \in 1 .. D : steps[a] = Along(g, i, a)
    BY <1>8 DEF Along
  <2> HIDE DEF steps
  <2>2. QED
    BY <1>8, <2>1
<1>11. call' = [call EXCEPT ![t] = Task(t, start, size)]
  BY <1>2 DEF CallOnRow, RowTiles
<1>12. job' = job /\ uarch' = uarch /\ done' = done /\ pc' = [pc EXCEPT ![t] = "task"]
  BY DEF CallOnRow, Goto
<1> HIDE DEF i, start, sizes
<1>13. PassesTiles(job.range, job.tile, from[t], g, i, start, size)
  BY <1>9, <1>10 DEF PassesTiles
<1> HIDE DEF size
<1>14. CallsTask(t, from[t], g, i)
  BY <1>1, <1>7, <1>11, <1>12, <1>13 DEF CallsTask
<1>15. QED
  BY <1>14 DEF i

-----------------------------------------------------------------------------
(* Where every item is: waiting to be located, held by a thread, in the    *)
(* call of a thread, or done.                                              *)

Items  == 0 .. (Tiles - 1)
Stages == {"waiting", "held", "called", "done"}

Called(stage, holder, t) == {n \in Items : stage[n] = "called" /\ holder[n] = t}
Processed(stage)         == {n \in Items : stage[n] = "done"}

Tracks(stage, holder) ==
    /\ stage \in [Items -> Stages] /\ holder \in [Items -> Threads]
    /\ \A n : IsWaiting(n) <=> n \in Items /\ stage[n] = "waiting"
    /\ \A t \in Threads : \A n : n \in Held(t) <=> n \in Items /\ stage[n] = "held" /\ holder[n] = t
    /\ \A n \in Items : stage[n] = "called" => pc[holder[n]] = "task"
    /\ \A t \in Threads : pc[t] = "task" => CallCells(t) = CellsOf(Called(stage, holder, t))
    /\ done = CellsOf(Processed(stage))

Tracked == \E stage, holder : Tracks(stage, holder)

\* A step of t leaves the items of the others where they are.
LEMMA OthersHold ==
    ASSUME NEW t \in Threads, OthersStay(t)
    PROVE  /\ \A u \in Threads \ {t} : Held(u)' = Held(u) /\ pc'[u] = pc[u]
           /\ Items' = Items /\ \A S : CellsOf(S)' = CellsOf(S)
<1>1. job' = job /\ \A u \in Threads \ {t} :
                       pc'[u] = pc[u] /\ from'[u] = from[u] /\ chunk'[u] = chunk[u]
  BY DEF OthersStay
<1>2. Items' = Items
  BY <1>1 DEF Items, Tiles
<1>3. \A S : CellsOf(S)' = CellsOf(S)
  BY <1>1 DEF CellsOf
<1>4. \A u \in Threads \ {t} : Held(u)' = Held(u)
  BY <1>1 DEF Held
<1>5. QED
  BY <1>1, <1>2, <1>3, <1>4

\* A claim: items that were waiting are held now.
LEMMA LocateTracked ==
    ASSUME Tracked, NEW t \in Threads, OthersStay(t), Locates(t),
           pc[t] # "task", pc'[t] # "task", done' = done,
           \A u : CallCells(u)' = CallCells(u)
    PROVE  Tracked'
<1>1. PICK stage, holder : Tracks(stage, holder)
  BY DEF Tracked
<1>2. PICK s : s = [n \in Items |-> IF n \in Held(t)' THEN "held" ELSE stage[n]]
  OBVIOUS
<1>3. PICK h : h = [n \in Items |-> IF n \in Held(t)' THEN t ELSE holder[n]]
  OBVIOUS
<1>4. /\ \A u \in Threads \ {t} : Held(u)' = Held(u) /\ pc'[u] = pc[u]
      /\ Items' = Items /\ \A S : CellsOf(S)' = CellsOf(S)
  BY OthersHold
<1>5. /\ Held(t) = {}
      /\ \A n : IsWaiting(n)' <=> IsWaiting(n) /\ n \notin Held(t)'
      /\ \A n \in Held(t)' : IsWaiting(n)
  BY DEF Locates
<1>6. /\ stage \in [Items -> Stages] /\ holder \in [Items -> Threads]
      /\ \A n : IsWaiting(n) <=> n \in Items /\ stage[n] = "waiting"
      /\ \A u \in Threads : \A n :
            n \in Held(u) <=> n \in Items /\ stage[n] = "held" /\ holder[n] = u
      /\ \A n \in Items : stage[n] = "called" => pc[holder[n]] = "task"
      /\ \A u \in Threads : pc[u] = "task" => CallCells(u) = CellsOf(Called(stage, holder, u))
      /\ done = CellsOf(Processed(stage))
  BY <1>1 DEF Tracks
<1>7. s \in [Items -> Stages] /\ h \in [Items -> Threads]
  BY <1>2, <1>3, <1>6 DEF Stages
<1>8. \A n \in Items : /\ n \in Held(t)' => s[n] = "held" /\ h[n] = t
                       /\ n \notin Held(t)' => s[n] = stage[n] /\ h[n] = holder[n]
  BY <1>2, <1>3
<1>9. \A n \in Held(t)' : n \in Items /\ stage[n] = "waiting"
  BY <1>5, <1>6
<1>10. \A n : IsWaiting(n)' <=> n \in Items /\ s[n] = "waiting"
  BY <1>5, <1>6, <1>8
<1>11. ASSUME NEW u \in Threads, NEW n
       PROVE  n \in Held(u)' <=> n \in Items /\ s[n] = "held" /\ h[n] = u
  <2>1. CASE n \in Held(t)'
    BY <1>4, <1>6, <1>8, <1>9, <2>1
  <2>2. CASE n \notin Held(t)'
    BY <1>4, <1>5, <1>6, <1>8, <2>2
  <2>3. QED
    BY <2>1, <2>2
<1>12. \A n \in Items : s[n] = "called" => stage[n] = "called" /\ h[n] = holder[n] /\ pc'[h[n]] = "task"
  BY <1>4, <1>6, <1>8
<1>13. \A n \in Items : stage[n] = "called" => s[n] = "called" /\ h[n] = holder[n]
  BY <1>8, <1>9
<1>14. \A u : Called(s, h, u) = Called(stage, holder, u)
  BY <1>12, <1>13 DEF Called
<1>15. Processed(s) = Processed(stage)
  BY <1>8, <1>9 DEF Processed
<1>16. \A u \in Threads : pc'[u] = "task" => CallCells(u)' = CellsOf(Called(s, h, u))
  BY <1>4, <1>6, <1>14
<1>17. \A u : Called(s, h, u)' = Called(s, h, u) /\ Processed(s)' = Processed(s)
  BY <1>4 DEF Called, Processed
<1>18. Tracks(s, h)'
  BY <1>4, <1>6, <1>7, <1>10, <1>11, <1>12, <1>15, <1>16, <1>17 DEF Tracks
<1>19. QED
  BY <1>18 DEF Tracked

\* A call of the task: items the thread has held are in the call now.
LEMMA CallTracked ==
    ASSUME Tracked, NEW t \in Threads, OthersStay(t),
           NEW K, K \subseteq Held(t), \A n : n \in Held(t)' <=> n \in Held(t) /\ n \notin K,
           \A n : IsWaiting(n)' <=> IsWaiting(n),
           pc[t] # "task", pc'[t] = "task", done' = done,
           CallCells(t)' = CellsOf(K), \A u \in Threads \ {t} : CallCells(u)' = CallCells(u)
    PROVE  Tracked'
<1>1. PICK stage, holder : Tracks(stage, holder)
  BY DEF Tracked
<1>2. PICK s : s = [n \in Items |-> IF n \in K THEN "called" ELSE stage[n]]
  OBVIOUS
<1>4. /\ \A u \in Threads \ {t} : Held(u)' = Held(u) /\ pc'[u] = pc[u]
      /\ Items' = Items /\ \A S : CellsOf(S)' = CellsOf(S)
  BY OthersHold
<1>6. /\ stage \in [Items -> Stages] /\ holder \in [Items -> Threads]
      /\ \A n : IsWaiting(n) <=> n \in Items /\ stage[n] = "waiting"
      /\ \A u \in Threads : \A n :
            n \in Held(u) <=> n \in Items /\ stage[n] = "held" /\ holder[n] = u
      /\ \A n \in Items : stage[n] = "called" => pc[holder[n]] = "task"
      /\ \A u \in Threads : pc[u] = "task" => CallCells(u) = CellsOf(Called(stage, holder, u))
      /\ done = CellsOf(Processed(stage))
  BY <1>1 DEF Tracks
<1>7. s \in [Items -> Stages]
  BY <1>2, <1>6 DEF Stages
<1>8. \A n \in Items : /\ n \in K => s[n] = "called"
                       /\ n \notin K => s[n] = stage[n]
  BY <1>2
<1>9. \A n \in K : n \in Items /\ stage[n] = "held" /\ holder[n] = t
  BY <1>6
<1>10. \A n : IsWaiting(n)' <=> n \in Items /\ s[n] = "waiting"
  BY <1>6, <1>8, <1>9
<1>11. ASSUME NEW u \in Threads, NEW n
       PROVE  n \in Held(u)' <=> n \in Items /\ s[n] = "held" /\ holder[n] = u
  <2>1. CASE n \in K
    BY <1>4, <1>6, <1>8, <1>9, <2>1
  <2>2. CASE n \notin K
    BY <1>4, <1>6, <1>8, <2>2
  <2>3. QED
    BY <2>1, <2>2
<1>12. \A n \in Items : s[n] = "called" => pc'[holder[n]] = "task"
  BY <1>4, <1>6, <1>8, <1>9
<1>13. Called(s, holder, t) = K
  <2>1. \A n \in Items : stage[n] = "called" => holder[n] # t
    BY <1>6
  <2>2. \A n : n \in Called(s, holder, t) <=> n \in K
    BY <1>8, <1>9, <2>1 DEF Called
  <2>3. QED
    BY <2>2
<1>14. \A u \in Threads \ {t} : Called(s, holder, u) = Called(stage, holder, u)
  BY <1>8, <1>9 DEF Called
<1>15. Processed(s) = Processed(stage)
  BY <1>8, <1>9 DEF Processed
<1>16. \A u \in Threads : pc'[u] = "task" => CallCells(u)' = CellsOf(Called(s, holder, u))
  BY <1>4, <1>6, <1>13, <1>14
<1>17. \A u : Called(s, holder, u)' = Called(s, holder, u) /\ Processed(s)' = Processed(s)
  BY <1>4 DEF Called, Processed
<1>18. Tracks(s, holder)'
  BY <1>4, <1>6, <1>7, <1>10, <1>11, <1>12, <1>15, <1>16, <1>17 DEF Tracks
<1>19. QED
  BY <1>18 DEF Tracked

\* A return from the task: the items of the call are done.
LEMMA ReturnTracked ==
    ASSUME Tracked, NEW t \in Threads, OthersStay(t), Held(t)' = Held(t),
           \A n : IsWaiting(n)' <=> IsWaiting(n),
           pc[t] = "task", pc'[t] # "task", done' = done \cup CallCells(t),
           \A u \in Threads \ {t} : CallCells(u)' = CallCells(u)
    PROVE  Tracked'
<1>1. PICK stage, holder : Tracks(stage, holder)
  BY DEF Tracked
<1> DEFINE K == Called(stage, holder, t)
<1>2. PICK s : s = [n \in Items |-> IF n \in K THEN "done" ELSE stage[n]]
  OBVIOUS
<1>4. /\ \A u \in Threads \ {t} : Held(u)' = Held(u) /\ pc'[u] = pc[u]
      /\ Items' = Items /\ \A S : CellsOf(S)' = CellsOf(S)
  BY OthersHold
<1>6. /\ stage \in [Items -> Stages] /\ holder \in [Items -> Threads]
      /\ \A n : IsWaiting(n) <=> n \in Items /\ stage[n] = "waiting"
      /\ \A u \in Threads : \A n :
            n \in Held(u) <=> n \in Items /\ stage[n] = "held" /\ holder[n] = u
      /\ \A n \in Items : stage[n] = "called" => pc[holder[n]] = "task"
      /\ \A u \in Threads : pc[u] = "task" => CallCells(u) = CellsOf(Called(stage, holder, u))
      /\ done = CellsOf(Processed(stage))
  BY <1>1 DEF Tracks
<1>9. \A n : n \in K <=> n \in Items /\ stage[n] = "called" /\ holder[n] = t
  BY DEF Called
<1> HIDE DEF K
<1>7. s \in [Items -> Stages]
  BY <1>2, <1>6 DEF Stages
<1>8. \A n \in Items : /\ n \in K => s[n] = "done"
                       /\ n \notin K => s[n] = stage[n]
  BY <1>2
<1>10. \A n : IsWaiting(n)' <=> n \in Items /\ s[n] = "waiting"
  BY <1>6, <1>8, <1>9
<1>11. ASSUME NEW u \in Threads, NEW n
       PROVE  n \in Held(u)' <=> n \in Items /\ s[n] = "held" /\ holder[n] = u
  BY <1>4, <1>6, <1>8, <1>9
<1>12. \A n \in Items : s[n] = "called" => pc'[holder[n]] = "task"
  BY <1>4, <1>6, <1>8, <1>9
<1>14. \A u \in Threads \ {t} : Called(s, holder, u) = Called(stage, holder, u)
  BY <1>8, <1>9 DEF Called
<1>15. Processed(s) = Processed(stage) \cup K
  BY <1>8, <1>9 DEF Processed
<1>16. \A u \in Threads : pc'[u] = "task" => CallCells(u)' = CellsOf(Called(s, holder, u))
  BY <1>4, <1>6, <1>14
<1>17. \A u : Called(s, holder, u)' = Called(s, holder, u) /\ Processed(s)' = Processed(s)
  BY <1>4 DEF Called, Processed
<1>20. done' = CellsOf(Processed(s))
  <2>1. CallCells(t) = CellsOf(K)
    BY <1>6 DEF K
  <2>2. CellsOf(Processed(stage) \cup K) = CellsOf(Processed(stage)) \cup CellsOf(K)
    BY DEF CellsOf, TilesOf
  <2>3. QED
    BY <1>6, <1>15, <2>1, <2>2
<1>18. Tracks(s, holder)'
  BY <1>4, <1>6, <1>7, <1>10, <1>11, <1>12, <1>16, <1>17, <1>20 DEF Tracks
<1>19. QED
  BY <1>18 DEF Tracked

-----------------------------------------------------------------------------
(* The loops of the wrapper do one tile after the other.                   *)

SerialTracks(d) ==
    /\ d \in Nat /\ d <= Tiles
    /\ done = CellsOf(0 .. (d - 1))
    /\ pc[0] = "task" => d < Tiles /\ CallCells(0) = CellsOf({d})
    /\ pc[0] = "gone" => d = Tiles
    /\ at[0] = TileStart(job.range, job.tile, IF pc[0] = "task" THEN d + 1 ELSE d)

SerialTracked == \E d : SerialTracks(d)

\* The outermost loop ends after the last tile and not before.
LEMMA InsideRange ==
    ASSUME NEW range, NEW tile, IsGrid(range, tile), NEW d \in Nat
    PROVE  /\ TileStart(range, tile, d)[1] \in Nat
           /\ TileStart(range, tile, d)[1] < range[1] <=> d < Linear(TileCounts(range, tile))
<1> DEFINE D == Len(range)
           counts == TileCounts(range, tile)
           N == Linear(counts)
           x == RowMajor(counts, d)[1]
<1>1. /\ D \in Nat \ {0}
      /\ range \in [1 .. D -> Nat \ {0}] /\ tile \in [1 .. D -> Nat \ {0}]
      /\ counts \in Counts /\ Len(counts) = D /\ N \in Nat \ {0}
      /\ \A a \in 1 .. D : counts[a] = divide_round_up(range[a], tile[a]) /\ counts[a] \in Nat \ {0}
  BY GridFacts
<1>2. 1 \in 1 .. D
  BY <1>1
<1>3. TileStart(range, tile, d)[1] = x * tile[1]
  BY <1>2 DEF TileStart
<1> HIDE DEF counts
<1>4. x \in Nat
  <2>1. RowMajor(counts, d) \in [1 .. D -> Nat]
    BY <1>1, RowMajorFacts
  <2>2. QED
    BY <1>2, <2>1
<1>5. d < N => x < counts[1]
  <2> SUFFICES ASSUME d < N PROVE x < counts[1]
    OBVIOUS
  <2>1. RowMajor(counts, d)[1] \in 0 .. (counts[1] - 1)
    BY <1>1, <1>2, RowMajorInGrid
  <2>2. QED
    BY <1>1, <1>2, <2>1
<1>6. d >= N => x >= counts[1]
  BY <1>1, PastTheEnd
<1> HIDE DEF x, N
<1>7. x * tile[1] >= range[1] <=> x >= counts[1]
  <2>1. PICK r \in Nat \ {0}, u \in Nat \ {0} : r = range[1] /\ u = tile[1]
    BY <1>1, <1>2
  <2>2. \A n, q \in Nat \ {0} : \A c \in Nat : c * q >= n <=> c >= divide_round_up(n, q)
    BY RoundUp
  <2>3. x * u >= r <=> x >= divide_round_up(r, u)
    BY <1>4, <2>2
  <2>4. QED
    BY <1>1, <1>2, <2>1, <2>3
<1>8. PICK y \in Nat : y = x * tile[1]
  BY <1>1, <1>2, <1>4
<1>9. y < range[1] <=> d < N
  BY <1>1, <1>2, <1>4, <1>5, <1>6, <1>7, <1>8
<1>10. QED
  BY <1>3, <1>8, <1>9 DEF N, counts

\* The inductive invariant of the whole call.
JobInv ==
    /\ ClaimInv
    /\ CallInv
    /\ job.serial => SerialTracked
    /\ ~job.serial => Tracked

\* The calling thread is one of the threads.
LEMMA ZeroIsThread ==
    ASSUME job \in Jobs PROVE 0 \in Threads
<1>1. MaxThreads \in Nat /\ job.threads \in Nat \ {0} /\ job.threads <= MaxThreads
  BY JobFacts
<1>2. QED
  BY <1>1 DEF Threads

\* The wrapper is the only one who runs its loops.
LEMMA SerialFacts ==
    ASSUME JobInv, job.serial
    PROVE  /\ LoopTypes /\ job \in Jobs /\ 0 \in Threads
           /\ IsGrid(job.range, job.tile)
           /\ \A t \in Threads : pc[t] # "out" => t = 0
           /\ \A t \in Threads : pc[t] \in {"out", "serial", "task", "gone"}
           /\ SerialTracked /\ CallInv
<1>1. LoopTypes /\ job \in Jobs /\ \A t \in Threads : SerialPhase(t)
  BY DEF JobInv, ClaimInv, LoopTypes
<1>2. GoodJob(job)
  BY <1>1, JobFacts
<1>3. QED
  BY <1>1, <1>2, ZeroIsThread DEF JobInv, GoodJob, SerialPhase

\* A serial job begins at its first item.
LEMMA BeginSerialJob ==
    ASSUME JobInv, NEW t \in Threads, BeginSerial(t)
    PROVE  JobInv'
<1>1. job.serial /\ t = 0 /\ pc[0] = "out" /\ job' = job /\ at' = at /\ call' = call /\ done' = done
      /\ LookUpCpu(t) /\ pc' = [pc EXCEPT ![0] = "serial"]
  BY DEF BeginSerial, Goto, localVars
<1>2. LoopTypes /\ job \in Jobs /\ 0 \in Threads /\ SerialTracked /\ CallInv
  BY <1>1, SerialFacts
<1>3. pc'[0] = "serial" /\ \A u \in Threads \ {0} : pc'[u] = pc[u]
  BY <1>1, <1>2 DEF LoopTypes
<1>4. \A u \in Threads : pc'[u] = "task" <=> pc[u] = "task"
  BY <1>1, <1>3
<1>5. \A u \in Threads : UarchAllowed(uarch[u])'
  BY <1>1, <1>2, LookUpAllowed
<1>6. CallInv'
  BY <1>1, <1>2, <1>4, <1>5, NoCallStep
<1>7. PICK d : SerialTracks(d)
  BY <1>2 DEF SerialTracked
<1>8. SerialTracks(d)'
  BY <1>1, <1>3, <1>7 DEF SerialTracks, CellsOf, Tiles
<1>9. ClaimInv'
  BY SerialSteps DEF JobInv
<1>10. QED
  BY <1>1, <1>6, <1>8, <1>9 DEF JobInv, SerialTracked

\* A serial call has covered exactly the items before the next one.
LEMMA CallInOrderJob ==
    ASSUME JobInv, NEW t \in Threads, CallInOrder(t)
    PROVE  JobInv'
<1>1. job.serial
  <2>1. ~job.serial => pc[t] # "serial"
    BY DEF JobInv, ClaimInv, Phase
  <2>2. job.serial \in BOOLEAN
    BY JobFacts DEF JobInv, ClaimInv, LoopTypes
  <2>3. QED
    BY <2>1, <2>2 DEF CallInOrder
<1>2. /\ LoopTypes /\ job \in Jobs /\ 0 \in Threads /\ SerialTracked /\ CallInv
      /\ IsGrid(job.range, job.tile) /\ t = 0
  BY <1>1, SerialFacts DEF CallInOrder
<1>3. PICK d : SerialTracks(d)
  BY <1>2 DEF SerialTracked
<1>4. /\ pc[0] = "serial" /\ at[0][1] < job.range[1] /\ job' = job /\ uarch' = uarch /\ done' = done
      /\ call' = [call EXCEPT ![0] = Task(0, at[0], SizeAt(job.range, job.tile, at[0]))]
      /\ at' = [at EXCEPT ![0] = Advance(at[0], job.tile, job.range)]
      /\ pc' = [pc EXCEPT ![0] = "task"]
  BY <1>2 DEF CallInOrder, Goto
<1>5. /\ d \in Nat /\ done = CellsOf(0 .. (d - 1))
      /\ at[0] = TileStart(job.range, job.tile, d)
  BY <1>3, <1>4 DEF SerialTracks
<1>6. d < Tiles
  BY <1>2, <1>4, <1>5, InsideRange DEF Tiles
<1>7. PICK g : RowOfTiles(job.range, job.tile, d, g, 1)
               /\ PassesTiles(job.range, job.tile, d, g, 1, at[0], SizeAt(job.range, job.tile, at[0]))
  BY <1>2, <1>5, <1>6, TilePassed DEF Tiles
<1>8. CallsTask(0, d, g, 1)
  BY <1>4, <1>7 DEF CallsTask
<1>9. CallInv' /\ CallCells(0)' = CellsOf(d .. (d + 1 - 1))
  BY <1>2, <1>8, CallStep DEF JobInv
<1>10. d .. (d + 1 - 1) = {d}
  BY <1>5
<1>11. at'[0] = TileStart(job.range, job.tile, d + 1)
  <2>1. Advance(at[0], job.tile, job.range) = TileStart(job.range, job.tile, d + 1)
    BY <1>2, <1>5, TilesWalk
  <2>2. QED
    BY <1>2, <1>4, <2>1 DEF LoopTypes
<1>12. pc'[0] = "task"
  BY <1>2, <1>4 DEF LoopTypes
<1>13. SerialTracks(d)'
  <2>1. Tiles' = Tiles /\ \A S : CellsOf(S)' = CellsOf(S)
    BY <1>4 DEF Tiles, CellsOf
  <2>2. d <= Tiles
    BY <1>3 DEF SerialTracks
  <2>3. QED
    BY <1>4, <1>5, <1>6, <1>9, <1>10, <1>11, <1>12, <2>1, <2>2 DEF SerialTracks
<1>14. ClaimInv'
  BY SerialSteps DEF JobInv
<1>15. QED
  BY <1>1, <1>4, <1>9, <1>13, <1>14 DEF JobInv, SerialTracked

\* The serial loop ends when no item is left.
LEMMA EndSerialJob ==
    ASSUME JobInv, NEW t \in Threads, EndSerial(t)
    PROVE  JobInv'
<1>1. job.serial
  <2>1. ~job.serial => pc[t] # "serial"
    BY DEF JobInv, ClaimInv, Phase
  <2>2. job.serial \in BOOLEAN
    BY JobFacts DEF JobInv, ClaimInv, LoopTypes
  <2>3. QED
    BY <2>1, <2>2 DEF EndSerial
<1>2. /\ LoopTypes /\ job \in Jobs /\ 0 \in Threads /\ SerialTracked /\ CallInv
      /\ IsGrid(job.range, job.tile) /\ t = 0
  BY <1>1, SerialFacts DEF EndSerial
<1>3. PICK d : SerialTracks(d)
  BY <1>2 DEF SerialTracked
<1>4. /\ pc[0] = "serial" /\ at[0][1] >= job.range[1] /\ job' = job /\ uarch' = uarch /\ done' = done
      /\ call' = call /\ at' = at /\ pc' = [pc EXCEPT ![0] = "gone"]
  BY <1>2 DEF EndSerial, Goto, localVars
<1>5. d \in Nat /\ d <= Tiles /\ at[0] = TileStart(job.range, job.tile, d)
  BY <1>3, <1>4 DEF SerialTracks
<1>6. d = Tiles
  <2>1. Tiles \in Nat /\ job.range[1] \in Nat
    <3>1. /\ Len(job.range) \in Nat \ {0} /\ job.range \in [1 .. Len(job.range) -> Nat \ {0}]
          /\ Linear(TileCounts(job.range, job.tile)) \in Nat
      BY <1>2, GridFacts
    <3>2. 1 \in 1 .. Len(job.range)
      BY <3>1
    <3>3. QED
      BY <3>1, <3>2 DEF Tiles
  <2>2. at[0][1] \in Nat /\ (at[0][1] < job.range[1] <=> d < Tiles)
    BY <1>2, <1>5, InsideRange DEF Tiles
  <2>3. QED
    BY <1>4, <1>5, <2>1, <2>2
<1>7. pc'[0] = "gone" /\ \A u \in Threads \ {0} : pc'[u] = pc[u]
  BY <1>2, <1>4 DEF LoopTypes
<1>8. SerialTracks(d)'
  BY <1>3, <1>4, <1>6, <1>7 DEF SerialTracks, CellsOf, Tiles
<1>9. CallInv'
  <2>1. \A u \in Threads : pc'[u] = "task" <=> pc[u] = "task"
    BY <1>4, <1>7
  <2>2. \A u \in Threads : UarchAllowed(uarch[u])'
    BY <1>2, <1>4 DEF CallInv, UarchAllowed
  <2>3. QED
    BY <1>2, <1>4, <2>1, <2>2, NoCallStep
<1>10. ClaimInv'
  BY SerialSteps DEF JobInv
<1>11. QED
  BY <1>1, <1>4, <1>8, <1>9, <1>10 DEF JobInv, SerialTracked

\* A serial job ends with every item called on.
LEMMA SerialFinishJob ==
    ASSUME JobInv, job.serial, NEW t \in Threads, Finish(t)
    PROVE  JobInv'
<1>1. /\ LoopTypes /\ job \in Jobs /\ 0 \in Threads /\ SerialTracked /\ CallInv
      /\ IsGrid(job.range, job.tile) /\ t = 0
  BY SerialFacts DEF Finish
<1>2. PICK d : SerialTracks(d)
  BY <1>1 DEF SerialTracked
<1>3. /\ pc[0] = "task" /\ job' = job /\ done' = done \cup CallCells(0) /\ at' = at
      /\ pc' = [pc EXCEPT ![0] = "serial"]
  BY <1>1 DEF Finish, Goto, localVars, CallCells
<1>4. pc'[0] = "serial"
  BY <1>1, <1>3 DEF LoopTypes
<1>5. /\ d \in Nat /\ d < Tiles /\ done = CellsOf(0 .. (d - 1)) /\ CallCells(0) = CellsOf({d})
      /\ at[0] = TileStart(job.range, job.tile, d + 1)
  BY <1>2, <1>3 DEF SerialTracks
<1>6. Tiles \in Nat
  BY <1>1, GridFacts DEF Tiles
<1> DEFINE e == d + 1
<1>7. e \in Nat /\ e <= Tiles
  BY <1>5, <1>6
<1>8. done' = CellsOf(0 .. (e - 1))
  <2>1. 0 .. (e - 1) = 0 .. (d - 1) \cup {d}
    BY <1>5
  <2>2. CellsOf(0 .. (d - 1) \cup {d}) = CellsOf(0 .. (d - 1)) \cup CellsOf({d})
    BY DEF CellsOf, TilesOf
  <2>3. QED
    BY <1>3, <1>5, <2>1, <2>2
<1>9. at'[0] = TileStart(job.range, job.tile, e)
  BY <1>3, <1>5
<1> HIDE DEF e
<1>10. SerialTracks(e)'
  <2>1. Tiles' = Tiles /\ \A S : CellsOf(S)' = CellsOf(S)
    BY <1>3 DEF Tiles, CellsOf
  <2>2. QED
    BY <1>3, <1>4, <1>7, <1>8, <1>9, <2>1 DEF SerialTracks
<1>11. CallInv'
  BY ReturnStep DEF JobInv
<1>12. ClaimInv'
  BY SerialSteps DEF JobInv
<1>13. QED
  BY <1>3, <1>10, <1>11, <1>12 DEF JobInv, SerialTracked

-----------------------------------------------------------------------------
(* The steps of the threads of a job.                                      *)

\* An item waits as before when neither the fronts nor the ends move.
LEMMA IsWaitingKept ==
    ASSUME job' = job, rangeEnd' = rangeEnd, FrontsStay
    PROVE  \A n : IsWaiting(n)' <=> IsWaiting(n)
<1>1. Members' = Members
  BY DEF Members
<1>2. \A v \in Members : Waiting(v)' = Waiting(v)
  BY DEF FrontsStay, Waiting
<1>3. QED
  BY <1>1, <1>2 DEF IsWaiting

\* A step that locates items, or none.
LEMMA LocateJob ==
    ASSUME JobInv, ~job.serial, NEW t \in Threads, ClaimInv', Locates(t), OthersStay(t),
           pc[t] # "task", pc'[t] # "task", call' = call, done' = done,
           \A u \in Threads : UarchAllowed(uarch[u])'
    PROVE  JobInv'
<1>1. job' = job /\ Tracked /\ CallInv
  BY DEF OthersStay, JobInv
<1>2. \A u \in Threads : pc'[u] = "task" <=> pc[u] = "task"
  BY DEF OthersStay
<1>3. CallInv' /\ \A u : CallCells(u)' = CallCells(u)
  BY <1>1, <1>2, NoCallStep
<1>4. Tracked'
  BY <1>1, <1>3, LocateTracked
<1>5. QED
  BY <1>1, <1>3, <1>4 DEF JobInv

\* Joining moves no item.
LEMMA JoinJob ==
    ASSUME JobInv, NEW t \in Threads, Join(t)
    PROVE  JobInv'
<1>1. LoopTypes /\ CallInv
  BY DEF JobInv, ClaimInv
<1>2. /\ pc[t] = "out" /\ ~job.serial /\ LookUpCpu(t) /\ job' = job /\ call' = call /\ done' = done
      /\ offset' = offset /\ from' = from /\ chunk' = chunk
      /\ at' = [at EXCEPT ![t] = Coordinates(from[t])] /\ pc' = [pc EXCEPT ![t] = "claim"]
  BY DEF Join, Goto
<1>3. pc'[t] = "claim" /\ OthersStay(t)
  BY <1>1, <1>2 DEF LoopTypes, OthersStay
<1>4. \A u \in Threads : UarchAllowed(uarch[u])'
  BY <1>1, <1>2, LookUpAllowed
<1>5. ClaimInv' /\ Locates(t)
  BY JoinStep DEF JobInv
<1>6. QED
  BY <1>2, <1>3, <1>4, <1>5, LocateJob

\* What a claiming step leaves alone.
LEMMA ClaimingFrame ==
    ASSUME LoopTypes, NEW t \in Threads, Claiming(t)
    PROVE  /\ pc[t] \in {"claim", "subtract", "take"} /\ pc'[t] # "task"
           /\ OthersStay(t) /\ call' = call /\ done' = done /\ uarch' = uarch
<1>1. CASE ClaimOne(t)
  <2>1. /\ pc' = [pc EXCEPT ![t] = IF OwnRange(t) THEN "chunk" ELSE "take"]
        /\ chunk' = [chunk EXCEPT ![t] = 1]
    BY <1>1 DEF ClaimOne, Claimed, Goto
  <2>2. QED
    BY <1>1, <2>1 DEF ClaimOne, LoopTypes, OthersStay
<1>2. CASE SizeChunk(t)
  BY <1>2 DEF SizeChunk, Goto, LoopTypes, OthersStay
<1>3. CASE FoundEmpty(t)
  BY <1>3 DEF FoundEmpty, MoveOn, Goto, LoopTypes, OthersStay
<1>4. CASE SubtractChunk(t)
  <2>1. CASE StillPositive(rangeLength[Victim(t)])
    BY <1>4, <2>1 DEF SubtractChunk, Claimed, Goto, LoopTypes, OthersStay
  <2>2. CASE ~StillPositive(rangeLength[Victim(t)])
    BY <1>4, <2>2 DEF SubtractChunk, MoveOn, Goto, LoopTypes, OthersStay
  <2>3. QED
    BY <2>1, <2>2
<1>5. CASE TakeEnd(t)
  BY <1>5 DEF TakeEnd, Goto, LoopTypes, OthersStay
<1>6. QED
  BY <1>1, <1>2, <1>3, <1>4, <1>5 DEF Claiming

\* A claim moves items from waiting to held.
LEMMA ClaimingJob ==
    ASSUME JobInv, NEW t \in Threads, Claiming(t)
    PROVE  JobInv'
<1>1. LoopTypes /\ CallInv /\ ClaimInv
  BY DEF JobInv, ClaimInv
<1>2. /\ pc[t] \in {"claim", "subtract", "take"} /\ pc'[t] # "task"
      /\ OthersStay(t) /\ call' = call /\ done' = done /\ uarch' = uarch
  BY <1>1, ClaimingFrame
<1>3. ~job.serial
  BY <1>1, <1>2, InTheJob
<1>4. \A u \in Threads : UarchAllowed(uarch[u])'
  BY <1>1, <1>2 DEF CallInv, UarchAllowed, OthersStay
<1>5. ClaimInv' /\ Locates(t)
  BY <1>1, ClaimOneStep, SizeChunkStep, FoundEmptyStep, SubtractChunkStep, TakeEndStep DEF Claiming
<1>6. QED
  BY <1>2, <1>3, <1>4, <1>5, LocateJob

\* A step that calls the task for the first i of the items a thread holds.
LEMMA CallJob ==
    ASSUME JobInv, ~job.serial, NEW t \in Threads, ClaimInv', FrontsStay, OthersStay(t),
           rangeEnd' = rangeEnd, pc[t] = "chunk", NEW g, NEW i \in Nat, i <= chunk[t],
           CallsTask(t, from[t], g, i),
           from'[t] = from[t] + i, from'[t] + chunk'[t] = from[t] + chunk[t]
    PROVE  JobInv'
<1>1. ClaimInv /\ CallInv /\ Tracked /\ LoopTypes
  BY DEF JobInv, ClaimInv
<1>2. job \in Jobs /\ from[t] \in Nat /\ chunk[t] \in Nat
  BY <1>1, JobFacts DEF LoopTypes
<1>3. /\ CallInv' /\ CallCells(t)' = CellsOf(from[t] .. (from[t] + i - 1))
      /\ \A u \in Threads \ {t} : CallCells(u)' = CallCells(u)
  BY <1>1, CallStep
<1>4. job' = job /\ done' = done /\ pc'[t] = "task"
  BY <1>1 DEF CallsTask, LoopTypes
<1>5. \A n : IsWaiting(n)' <=> IsWaiting(n)
  BY <1>4, IsWaitingKept
<1> DEFINE K == from[t] .. (from[t] + i - 1)
<1>6. K \subseteq Held(t) /\ \A n : n \in Held(t)' <=> n \in Held(t) /\ n \notin K
  <2> DEFINE b == from[t]
             m == from[t] + i
             e == from[t] + chunk[t]
  <2>1. b \in Nat /\ m \in Nat /\ e \in Nat /\ b <= m /\ m <= e
    BY <1>2
  <2>2. Held(t) = b .. (e - 1)
    BY <1>2 DEF Held
  <2>3. Held(t)' = m .. (e - 1)
    <3>1. chunk'[t] \in Int
      BY <1>1, <1>4, JobFacts DEF ClaimInv, LoopTypes
    <3>2. from'[t] = m /\ from'[t] + (chunk'[t] - 1) = e - 1
      BY <1>2, <3>1
    <3>3. QED
      BY <1>4, <3>2 DEF Held
  <2>4. K = b .. (m - 1)
    BY <1>2
  <2> HIDE DEF b, m, e, K
  <2>5. b .. (m - 1) \subseteq b .. (e - 1)
        /\ \A n : n \in m .. (e - 1) <=> n \in b .. (e - 1) /\ n \notin b .. (m - 1)
    BY <2>1, IntervalCut
  <2>6. QED
    BY <2>2, <2>3, <2>4, <2>5
<1> HIDE DEF K
<1>7. CallCells(t)' = CellsOf(K)
  BY <1>3 DEF K
<1>8. Tracked'
  BY <1>1, <1>3, <1>4, <1>5, <1>6, <1>7, CallTracked
<1>9. QED
  BY <1>3, <1>4, <1>8 DEF JobInv

\* A call on a tile moves its item from held to called on.
LEMMA CallOnTileJob ==
    ASSUME JobInv, NEW t \in Threads, CallOnTile(t)
    PROVE  JobInv'
<1>1. ClaimInv
  BY DEF JobInv
<1>2. pc[t] = "chunk" /\ ~job.serial /\ LoopTypes /\ ~job.nest.dynamic
  BY <1>1, InTheJob DEF CallOnTile
<1>3. chunk[t] = 1 /\ from[t] \in Nat
  BY <1>1, <1>2, TileFacts
<1>4. /\ job' = job /\ rangeEnd' = rangeEnd /\ offset' = offset /\ from' = [from EXCEPT ![t] = @ + 1]
      /\ chunk' = [chunk EXCEPT ![t] = 0] /\ pc' = [pc EXCEPT ![t] = "task"]
      /\ \A u \in Threads \ {t} : at'[u] = at[u]
  BY <1>2 DEF CallOnTile, Goto, claimVars, LoopTypes
<1>5. OthersStay(t)
  BY <1>2, <1>4 DEF OthersStay, LoopTypes
<1>6. from'[t] = from[t] + 1 /\ chunk'[t] = 0
  BY <1>2, <1>4 DEF LoopTypes
<1>7. ClaimInv' /\ FrontsStay
  BY <1>1, CallOnTileStep
<1>8. PICK g : CallsTask(t, from[t], g, 1)
  BY <1>1, StaticCall
<1>9. 1 \in Nat /\ 1 <= chunk[t] /\ from'[t] + chunk'[t] = from[t] + chunk[t]
  BY <1>3, <1>6
<1>10. QED
  BY <1>2, <1>4, <1>5, <1>6, <1>7, <1>8, <1>9, CallJob

\* A call on a row moves all its items from held to called on.
LEMMA CallOnRowJob ==
    ASSUME JobInv, NEW t \in Threads, CallOnRow(t)
    PROVE  JobInv'
<1>1. ClaimInv
  BY DEF JobInv
<1>2. pc[t] = "chunk" /\ ~job.serial /\ LoopTypes /\ job.nest.dynamic /\ job \in Jobs
  BY <1>1, InTheJob DEF CallOnRow
<1>3. PICK f : f = GroupAxis(job.nest, job.counts)
  OBVIOUS
<1>4. PICK i : i = RowTiles(t)
  OBVIOUS
<1>5. i \in 1 .. chunk[t] /\ from[t] \in Nat /\ (f = 1 => i = chunk[t])
  BY <1>1, <1>2, <1>3, <1>4, RowFacts
<1>6. chunk[t] \in Nat
  BY <1>2, JobFacts DEF LoopTypes
<1>7. i \in Nat /\ i <= chunk[t]
  BY <1>5, <1>6
<1>8. /\ job' = job /\ rangeEnd' = rangeEnd /\ offset' = offset /\ from' = [from EXCEPT ![t] = @ + i]
      /\ chunk' = [chunk EXCEPT ![t] = IF f = 1 THEN 0 ELSE @ - i] /\ pc' = [pc EXCEPT ![t] = "task"]
      /\ \A u \in Threads \ {t} : at'[u] = at[u]
  BY <1>2, <1>3, <1>4 DEF CallOnRow, Goto, claimVars, LoopTypes, RowTiles
<1>9. OthersStay(t)
  BY <1>2, <1>8 DEF OthersStay, LoopTypes
<1>10. from'[t] = from[t] + i /\ chunk'[t] = IF f = 1 THEN 0 ELSE chunk[t] - i
  BY <1>2, <1>8 DEF LoopTypes
<1>11. ClaimInv' /\ FrontsStay
  BY <1>1, CallOnRowStep
<1>12. PICK g : CallsTask(t, from[t], g, i)
  BY <1>1, <1>4, RowCall
<1>13. from'[t] + chunk'[t] = from[t] + chunk[t]
  BY <1>5, <1>6, <1>7, <1>10
<1>14. QED
  BY <1>2, <1>7, <1>8, <1>9, <1>10, <1>11, <1>12, <1>13, CallJob

\* A thread that leaves the job has no item left.
LEMMA FinishJob ==
    ASSUME JobInv, ~job.serial, NEW t \in Threads, Finish(t)
    PROVE  JobInv'
<1>1. ClaimInv /\ LoopTypes /\ CallInv /\ Tracked
  BY DEF JobInv, ClaimInv
<1>2. /\ pc[t] = "task" /\ job' = job /\ rangeEnd' = rangeEnd /\ offset' = offset /\ from' = from
      /\ chunk' = chunk /\ at' = at /\ done' = done \cup CallCells(t)
      /\ pc' = [pc EXCEPT ![t] = IF chunk[t] > 0 THEN "chunk" ELSE "claim"]
  BY DEF Finish, Goto, claimVars, localVars, CallCells
<1>3. pc'[t] = (IF chunk[t] > 0 THEN "chunk" ELSE "claim") /\ OthersStay(t)
  BY <1>1, <1>2 DEF LoopTypes, OthersStay
<1>4. ClaimInv' /\ FrontsStay
  BY <1>1, FinishStep
<1>5. \A n : IsWaiting(n)' <=> IsWaiting(n)
  BY <1>2, <1>4, IsWaitingKept
<1>6. CallInv' /\ \A u \in Threads \ {t} : CallCells(u)' = CallCells(u)
  BY <1>1, ReturnStep
<1>7. Held(t)' = Held(t)
  <2>1. job \in Jobs /\ from[t] \in Nat /\ chunk[t] \in Nat
    BY <1>1, JobFacts DEF LoopTypes
  <2>2. CASE chunk[t] > 0
    BY <1>2, <1>3, <2>2 DEF Held
  <2>3. CASE chunk[t] = 0
    BY <1>2, <1>3, <2>1, <2>3 DEF Held
  <2>4. QED
    BY <2>1, <2>2, <2>3
<1>8. Tracked'
  BY <1>1, <1>2, <1>3, <1>5, <1>6, <1>7, ReturnTracked
<1>9. QED
  BY <1>2, <1>4, <1>6, <1>8 DEF JobInv

\* A job begins with every item waiting ...
LEMMA JobInvInit == Init => JobInv
<1> SUFFICES ASSUME Init PROVE JobInv
  OBVIOUS
<1>1. ClaimInv /\ LoopTypes /\ job \in Jobs
  BY ClaimInvInit DEF ClaimInv, LoopTypes
<1>2. /\ \A t \in Threads : pc[t] = "out" /\ offset[t] = 0 /\ from[t] = StartOf(job, t) /\ chunk[t] = 0
                            /\ rangeEnd[t] = StartOf(job, t) + LengthOf(job, t)
                            /\ at[t] = Zeros(job.counts)
      /\ done = {} /\ call = [t \in Threads |-> NoCall] /\ uarch = [t \in Threads |-> DefaultUarch]
  BY DEF Init
<1>3. CallInv
  BY <1>2 DEF CallInv, UarchAllowed
<1>4. 0 \in Threads /\ GoodJob(job) /\ job.serial \in BOOLEAN
  BY <1>1, ZeroIsThread, JobFacts
<1>5. IsGrid(job.range, job.tile)
  BY <1>4 DEF GoodJob
<1>6. /\ TileCounts(job.range, job.tile) \in Counts
      /\ Len(TileCounts(job.range, job.tile)) = Len(job.range) /\ Tiles \in Nat \ {0}
      /\ Len(job.range) \in Nat /\ job.tile \in [1 .. Len(job.range) -> Nat \ {0}]
  BY <1>5, GridFacts DEF Tiles
<1>7. ASSUME job.serial PROVE SerialTracks(0)
  <2>1. CellsOf(0 .. (0 - 1)) = {}
    <3>1. 0 .. (0 - 1) = {}
      OBVIOUS
    <3>2. CellsOf({}) = {}
      BY DEF CellsOf, TilesOf
    <3>3. QED
      BY <3>1, <3>2
  <2>2. at[0] = TileStart(job.range, job.tile, 0)
    <3>1. DOMAIN job.counts = 1 .. Len(job.range)
      BY <1>1, JobFacts
    <3>2. \A a \in 1 .. Len(job.range) : RowMajor(TileCounts(job.range, job.tile), 0)[a] = 0
      BY <1>6, FirstItem
    <3>3. \A a \in 1 .. Len(job.range) : 0 * job.tile[a] = 0
      <4> SUFFICES ASSUME NEW a \in 1 .. Len(job.range) PROVE 0 * job.tile[a] = 0
        OBVIOUS
      <4>1. job.tile[a] \in Nat
        BY <1>6
      <4>2. QED
        BY <4>1
    <3>4. QED
      BY <1>2, <1>4, <3>1, <3>2, <3>3 DEF Zeros, TileStart
  <2>3. pc[0] = "out" /\ 0 \in Nat /\ 0 <= Tiles
    BY <1>2, <1>4, <1>6
  <2>4. QED
    BY <1>2, <2>1, <2>2, <2>3 DEF SerialTracks
<1>8. ASSUME ~job.serial PROVE Tracked
  <2>1. /\ Tiles = Linear(job.counts)
        /\ Members \subseteq Threads /\ job.threads \in Nat \ {0}
    BY <1>1, <1>4, <1>8, JobFacts DEF GoodJob, Tiles
  <2>2. ASSUME NEW v \in Members
        PROVE  RangeFront(v) = StartOf(job, v) /\ StartOf(job, v) \in Nat /\ LengthOf(job, v) \in Nat
               /\ StartOf(job, v) + LengthOf(job, v) <= Tiles
    <3>1. v \in Threads /\ v \in 0 .. (job.threads - 1)
      BY <2>1 DEF Members
    <3>2. RangeOK(v)
      BY <1>1, <1>8 DEF ClaimInv
    <3>3. /\ LengthOf(job, v) \in Nat \ {0} /\ StartOf(job, v) \in Nat
          /\ StartOf(job, v) + LengthOf(job, v) = StartOf(job, v + 1)
          /\ StartOf(job, job.threads) = Linear(job.counts)
          /\ \A u \in 0 .. job.threads : v < u => StartOf(job, v + 1) <= StartOf(job, u)
      BY <1>4, <1>8, <3>1, Deal
    <3>4. job.threads \in 0 .. job.threads /\ v < job.threads
      BY <2>1, <3>1
    <3>5. StartOf(job, v) + LengthOf(job, v) <= Tiles
      BY <2>1, <3>3, <3>4
    <3>6. RangeFront(v) = StartOf(job, v)
      BY <1>2, <3>1, <3>2, <3>3 DEF RangeOK, OwnRange, OwnerPosition
    <3>7. QED
      BY <3>3, <3>5, <3>6
  <2>3. \A n : IsWaiting(n) <=> n \in Items
    <3>1. ASSUME NEW n, IsWaiting(n) PROVE n \in Items
      <4>1. PICK v \in Members : n \in Waiting(v)
        BY <3>1 DEF IsWaiting
      <4>2. rangeEnd[v] = StartOf(job, v) + LengthOf(job, v)
        BY <1>2, <2>1
      <4>3. /\ RangeFront(v) = StartOf(job, v) /\ StartOf(job, v) \in Nat /\ LengthOf(job, v) \in Nat
            /\ StartOf(job, v) + LengthOf(job, v) <= Tiles
        BY <2>2
      <4>4. n \in StartOf(job, v) .. (StartOf(job, v) + LengthOf(job, v) - 1)
        BY <4>1, <4>2, <4>3 DEF Waiting
      <4>5. QED
        BY <1>6, <4>3, <4>4 DEF Items
    <3>2. ASSUME NEW n \in Items PROVE IsWaiting(n)
      <4>1. n \in 0 .. (Linear(job.counts) - 1)
        BY <2>1 DEF Items
      <4>2. PICK v \in 0 .. (job.threads - 1) :
                StartOf(job, v) <= n /\ n < StartOf(job, v) + LengthOf(job, v)
        BY <1>4, <1>8, <4>1, DealtItem
      <4>3. v \in Members /\ rangeEnd[v] = StartOf(job, v) + LengthOf(job, v)
        BY <1>2, <2>1, <4>2 DEF Members
      <4>4. RangeFront(v) = StartOf(job, v) /\ StartOf(job, v) \in Nat /\ LengthOf(job, v) \in Nat
        BY <2>2, <4>3
      <4>5. n \in Nat
        BY <1>6 DEF Items
      <4>6. n \in Waiting(v)
        BY <4>2, <4>3, <4>4, <4>5 DEF Waiting
      <4>7. QED
        BY <4>3, <4>6 DEF IsWaiting
    <3>3. QED
      BY <3>1, <3>2
  <2>4. PICK stage, holder : /\ stage = [n \in Items |-> "waiting"]
                             /\ holder = [n \in Items |-> 0]
    OBVIOUS
  <2>5. stage \in [Items -> Stages] /\ holder \in [Items -> Threads]
        /\ \A n \in Items : stage[n] = "waiting"
    BY <1>4, <2>4 DEF Stages
  <2>6. \A t \in Threads : Held(t) = {}
    BY <1>2 DEF Held
  <2>7. Processed(stage) = {}
    BY <2>5 DEF Processed
  <2>8. CellsOf({}) = {}
    BY DEF CellsOf, TilesOf
  <2>9. Tracks(stage, holder)
    BY <1>2, <2>3, <2>5, <2>6, <2>7, <2>8 DEF Tracks
  <2>10. QED
    BY <2>9 DEF Tracked
<1>9. QED
  BY <1>1, <1>3, <1>7, <1>8 DEF JobInv, SerialTracked

\* ... every step keeps the account of the items ...
LEMMA JobInvNextStep == JobInv /\ [Next]_vars => JobInv'
<1> SUFFICES ASSUME JobInv, [Next]_vars PROVE JobInv'
  OBVIOUS
<1>1. ASSUME NEW t \in Threads, Join(t) \/ BeginSerial(t) PROVE JobInv'
  BY <1>1, JoinJob, BeginSerialJob
<1>2. ASSUME NEW t \in Threads, Claiming(t) PROVE JobInv'
  BY <1>2, ClaimingJob
<1>3. ASSUME NEW t \in Threads, Processing(t) PROVE JobInv'
  <2>1. job.serial \in BOOLEAN
    BY JobFacts DEF JobInv, ClaimInv, LoopTypes
  <2>2. QED
    BY <1>3, <2>1, CallOnTileJob, CallOnRowJob, CallInOrderJob, EndSerialJob, FinishJob,
       SerialFinishJob DEF Processing
<1>4. CASE UNCHANGED vars
  <2>1. /\ job' = job /\ rangeEnd' = rangeEnd /\ rangeLength' = rangeLength /\ pc' = pc
        /\ offset' = offset /\ from' = from /\ chunk' = chunk /\ at' = at
        /\ ratio' = ratio /\ uarch' = uarch /\ call' = call /\ done' = done
    BY <1>4 DEF vars, claimVars, localVars
  <2>2. ClaimInv'
    BY <1>4, ClaimInvNextStep DEF JobInv
  <2>3. \A u \in Threads : UarchAllowed(uarch[u])'
    BY <2>1 DEF JobInv, CallInv, UarchAllowed
  <2>4. CallInv' /\ \A u : CallCells(u)' = CallCells(u)
    BY <2>1, <2>3, NoCallStep DEF JobInv
  <2>5. Items' = Items /\ Tiles' = Tiles /\ \A S : CellsOf(S)' = CellsOf(S)
    BY <2>1 DEF Items, Tiles, CellsOf
  <2>6. ASSUME job.serial PROVE SerialTracked'
    <3>1. PICK d : SerialTracks(d)
      BY <2>6 DEF JobInv, SerialTracked
    <3>2. SerialTracks(d)'
      BY <2>1, <2>4, <2>5, <3>1 DEF SerialTracks
    <3>3. QED
      BY <3>2 DEF SerialTracked
  <2>7. ASSUME ~job.serial PROVE Tracked'
    <3>1. PICK stage, holder : Tracks(stage, holder)
      BY <2>7 DEF JobInv, Tracked
    <3>2. \A n : IsWaiting(n)' <=> IsWaiting(n)
      BY <2>1 DEF IsWaiting, Waiting, RangeFront, Unclaimed, Left, PendingChunks, Victim, Members
    <3>3. \A u : Held(u)' = Held(u) /\ Called(stage, holder, u)' = Called(stage, holder, u)
          /\ Processed(stage)' = Processed(stage)
      BY <2>1, <2>5 DEF Held, Called, Processed
    <3>4. Tracks(stage, holder)'
      BY <2>1, <2>4, <2>5, <3>1, <3>2, <3>3 DEF Tracks
    <3>5. QED
      BY <3>4 DEF Tracked
  <2>8. QED
    BY <2>1, <2>2, <2>4, <2>6, <2>7 DEF JobInv
<1>5. QED
  BY <1>1, <1>2, <1>3, <1>4 DEF Next, Terminated

\* ... so it holds throughout.
LEMMA JobAlways == Spec => []JobInv
<1>1. QED
  BY JobInvInit, JobInvNextStep, PTL DEF Spec

-----------------------------------------------------------------------------
(* What the invariant of the whole call shows.                             *)

\* The variables keep their types, range_length stays a size_t, and what has
\* been processed lies in the grid.
THEOREM LoopTypeOKHolds == Spec => []LoopTypeOK
<1>1. JobInv => LoopTypeOK
  <2> SUFFICES ASSUME JobInv PROVE LoopTypeOK
    OBVIOUS
  <2>1. LoopTypes /\ job \in Jobs
    BY DEF JobInv, ClaimInv, LoopTypes
  <2>2. /\ GoodJob(job) /\ DOMAIN job.counts = 1 .. Len(job.range) /\ job.serial \in BOOLEAN
        /\ Linear(job.counts) \in Nat /\ 2 * Linear(job.counts) < SizeModulus /\ SizeModulus \in Nat
    BY <2>1, JobFacts, SizeAssumption
  <2>3. \A x \in 0 .. Linear(job.counts) : x \in 0 .. (SizeModulus - 1)
    BY <2>2
  <2>4. rangeEnd \in [Threads -> 0 .. (SizeModulus - 1)]
    BY <2>1, <2>3 DEF LoopTypes
  <2>5. at \in [Threads -> [DOMAIN job.counts -> Nat]]
    BY <2>1, <2>2 DEF LoopTypes
  <2>6. \E S : done = CellsOf(S)
    BY <2>2 DEF JobInv, Tracked, Tracks, SerialTracked, SerialTracks
  <2>7. IsGrid(job.range, job.tile)
    BY <2>2 DEF GoodJob
  <2>8. done \subseteq Cells(Zeros(job.range), job.range)
    BY <2>6, <2>7, WholeGrid DEF CellsOf, TilesOf
  <2>9. QED
    BY <2>1, <2>4, <2>5, <2>8 DEF LoopTypes, LoopTypeOK
<1>2. QED
  BY <1>1, JobAlways, PTL

\* Every call of the task lies in the grid, begins on a tile, covers whole tiles
\* and is told the thread and the uarch that the documentation promises.
THEOREM CallsKeepContractHolds == Spec => []CallsKeepContract
<1>1. JobInv => CallsKeepContract
  <2> SUFFICES ASSUME JobInv, NEW t \in Threads, call[t] # NoCall
               PROVE  FitsGrid(call[t]) /\ TellsCaller(call[t], {call[u] : u \in Threads \ {t}} \ {NoCall})
    BY DEF CallsKeepContract
  <2>1. CallInv
    BY DEF JobInv
  <2>2. CallOK(t)
    BY <2>1 DEF CallInv
  <2>3. \A u \in Threads : call[u] # NoCall => CallOK(u)
    BY <2>1 DEF CallInv
  <2>4. "thread" \in job.nest.ids
        => \A d \in {call[u] : u \in Threads \ {t}} \ {NoCall} : d.thread # call[t].thread
    BY <2>2, <2>3 DEF CallOK
  <2>5. call[t].uarch = DefaultUarch \/ (call[t].uarch <= MaxUarch /\ ~job.shim)
    BY <2>2 DEF CallOK, UarchAllowed
  <2>6. QED
    BY <2>2, <2>4, <2>5 DEF CallOK, TellsCaller
<1>2. QED
  BY <1>1, JobAlways, PTL

\* No cell is processed twice: not by two calls at a time, and not by a call
\* after another.
THEOREM CellsOnceHolds == Spec => []CellsOnce
<1>1. JobInv => CellsOnce
  <2> SUFFICES ASSUME JobInv, NEW t \in Threads, call[t] # NoCall
               PROVE  /\ CallCells(t) \cap done = {}
                      /\ \A u \in Threads \ {t} : call[u] # NoCall => CallCells(t) \cap CallCells(u) = {}
    BY DEF CellsOnce, CallCells
  <2>1. CallInv /\ job \in Jobs
    BY DEF JobInv, ClaimInv, LoopTypes
  <2>2. GoodJob(job) /\ job.serial \in BOOLEAN
    BY <2>1, JobFacts
  <2>3. IsGrid(job.range, job.tile)
    BY <2>2 DEF GoodJob
  <2>4. \A S, T \in SUBSET Nat : S \cap T = {} => CellsOf(S) \cap CellsOf(T) = {}
    BY <2>3, TilesApart DEF CellsOf
  <2>5. \A u \in Threads : call[u] # NoCall => pc[u] = "task"
    BY <2>1 DEF CallInv
  <2>6. CASE job.serial
    <3>1. PICK d : SerialTracks(d)
      BY <2>6 DEF JobInv, SerialTracked
    <3>2. \A u \in Threads : pc[u] = "task" => u = 0
      BY <2>6, SerialFacts
    <3>3. t = 0 /\ pc[0] = "task"
      BY <2>5, <3>2
    <3>4. d \in Nat /\ done = CellsOf(0 .. (d - 1)) /\ CallCells(t) = CellsOf({d})
      BY <3>1, <3>3 DEF SerialTracks
    <3>5. {d} \in SUBSET Nat /\ 0 .. (d - 1) \in SUBSET Nat /\ {d} \cap 0 .. (d - 1) = {}
      BY <3>4
    <3>6. CallCells(t) \cap done = {}
      BY <2>4, <3>4, <3>5
    <3>7. QED
      BY <2>5, <3>2, <3>3, <3>6
  <2>7. CASE ~job.serial
    <3>1. PICK stage, holder : Tracks(stage, holder)
      BY <2>7 DEF JobInv, Tracked
    <3>2. /\ done = CellsOf(Processed(stage))
          /\ \A u \in Threads : pc[u] = "task" => CallCells(u) = CellsOf(Called(stage, holder, u))
      BY <3>1 DEF Tracks
    <3>3. Items \subseteq Nat
      BY <2>3, GridFacts DEF Items, Tiles
    <3>4. \A u : Called(stage, holder, u) \in SUBSET Nat /\ Processed(stage) \in SUBSET Nat
      BY <3>3 DEF Called, Processed
    <3>5. Called(stage, holder, t) \cap Processed(stage) = {}
      BY DEF Called, Processed
    <3>6. \A u : u # t => Called(stage, holder, t) \cap Called(stage, holder, u) = {}
      BY DEF Called
    <3>7. QED
      BY <2>4, <2>5, <3>2, <3>4, <3>5, <3>6
  <2>8. QED
    BY <2>2, <2>6, <2>7
<1>2. QED
  BY <1>1, JobAlways, PTL

\* When the caller and all who took part are out, nothing waits, nobody holds
\* anything, and no call is in progress: every cell of the grid is done.
THEOREM GridDoneHolds == Spec => []GridDone
<1>1. JobInv => GridDone
  <2> SUFFICES ASSUME JobInv, Over PROVE done = Cells(Zeros(job.range), job.range)
    BY DEF GridDone
  <2>1. ClaimInv /\ LoopTypes /\ job \in Jobs
    BY DEF JobInv, ClaimInv, LoopTypes
  <2>2. GoodJob(job) /\ job.serial \in BOOLEAN /\ 0 \in Threads
    BY <2>1, JobFacts, ZeroIsThread
  <2>3. IsGrid(job.range, job.tile)
    BY <2>2 DEF GoodJob
  <2>4. pc[0] = "gone" /\ \A t \in Threads : pc[t] \in {"out", "gone"}
    BY DEF Over
  <2>5. CellsOf(Items) = Cells(Zeros(job.range), job.range)
    BY <2>3, WholeGrid DEF CellsOf, Items, Tiles
  <2>6. CASE job.serial
    <3>1. PICK d : SerialTracks(d)
      BY <2>6 DEF JobInv, SerialTracked
    <3>2. done = CellsOf(0 .. (d - 1)) /\ d = Tiles
      BY <2>4, <3>1 DEF SerialTracks
    <3>3. QED
      BY <2>5, <3>2 DEF Items
  <2>7. CASE ~job.serial
    <3>1. PICK stage, holder : Tracks(stage, holder)
      BY <2>7 DEF JobInv, Tracked
    <3>2. 0 \in Members /\ Members \subseteq Threads /\ job.threads \in Nat
      BY <2>1, JobFacts DEF Members
    <3>3. offset[0] = job.threads /\ Passed(0)
      BY <2>1, <2>2, <2>4, <2>7, <3>2 DEF ClaimInv, Phase
    <3>4. ASSUME NEW v \in Members PROVE Waiting(v) = {}
      <4>1. PICK o \in 0 .. (job.threads - 1) : VictimAt(0, o) = v
        BY <2>1, <3>2, VictimFacts
      <4>2. Unclaimed(v) = 0
        BY <3>3, <4>1 DEF Passed
      <4>3. PendingChunks(v) = 0
        <5>1. {t \in Threads : pc[t] = "take" /\ Victim(t) = v} = {}
          BY <2>4
        <5>2. UNION {{t} \X (1 .. chunk[t]) : t \in {}} = {}
          OBVIOUS
        <5>3. QED
          BY <5>1, <5>2, FS_EmptySet DEF PendingChunks
      <4>4. rangeEnd[v] \in Nat
        BY <2>1, <3>2, JobFacts DEF LoopTypes
      <4>5. RangeFront(v) = rangeEnd[v]
        BY <4>2, <4>3, <4>4 DEF RangeFront
      <4>6. QED
        BY <4>4, <4>5 DEF Waiting
    <3>5. \A n : ~IsWaiting(n)
      BY <3>4 DEF IsWaiting
    <3>6. \A t \in Threads : Held(t) = {}
      BY <2>4 DEF Held
    <3>7. ASSUME NEW n \in Items PROVE stage[n] = "done"
      <4>1. stage[n] \in Stages /\ holder[n] \in Threads
        BY <3>1 DEF Tracks
      <4>2. stage[n] # "waiting"
        BY <3>1, <3>5 DEF Tracks
      <4>3. stage[n] # "held"
        BY <3>1, <3>6, <4>1 DEF Tracks
      <4>4. stage[n] # "called"
        BY <2>4, <3>1, <4>1 DEF Tracks
      <4>5. QED
        BY <4>1, <4>2, <4>3, <4>4 DEF Stages
    <3>8. Processed(stage) = Items
      BY <3>7 DEF Processed
    <3>9. QED
      BY <2>5, <3>1, <3>8 DEF Tracks
  <2>8. QED
    BY <2>2, <2>6, <2>7
<1>2. QED
  BY <1>1, JobAlways, PTL
=============================================================================
