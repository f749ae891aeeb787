------------------------------ MODULE PublicApi -------------------------------
(***************************************************************************)
(* The functions an application calls to run a loop nest on the pool       *)
(* (portable-api.c and, for the old names, legacy-api.c).  Each names what *)
(* its threads are given to run and, in the statically tiled ones, the     *)
(* fast-path function that may replace it; how a wrapper decides between   *)
(* them and a loop of its own is the same in all and is in LoopJob.        *)
(***************************************************************************)
EXTENDS ThreadFunctions, FastFunctions

pthreadpool_parallelize_1d ==
    Wrapper(thread_parallelize_1d,
            pthreadpool_thread_parallelize_1d_fastpath)
pthreadpool_parallelize_1d_with_thread ==
    Wrapper(thread_parallelize_1d_with_thread,
            pthreadpool_thread_parallelize_1d_with_thread_fastpath)
pthreadpool_parallelize_1d_with_uarch ==
    Wrapper(thread_parallelize_1d_with_uarch,
            pthreadpool_thread_parallelize_1d_with_uarch_fastpath)
pthreadpool_parallelize_1d_tile_1d ==
    Wrapper(thread_parallelize_1d_tile_1d,
            pthreadpool_thread_parallelize_1d_tile_1d_fastpath)
pthreadpool_parallelize_1d_tile_1d_dynamic ==
    DynamicWrapper(thread_parallelize_1d_tile_1d_dynamic)
pthreadpool_parallelize_1d_tile_1d_dynamic_with_thread ==
    DynamicWrapper(thread_parallelize_1d_tile_1d_dynamic_with_thread)
pthreadpool_parallelize_1d_tile_1d_dynamic_with_uarch_with_thread ==
    DynamicWrapper(
        thread_parallelize_1d_tile_1d_dynamic_with_uarch_with_thread)
pthreadpool_parallelize_2d ==
    Wrapper(thread_parallelize_2d,
            pthreadpool_thread_parallelize_2d_fastpath)
pthreadpool_parallelize_2d_with_thread ==
    Wrapper(thread_parallelize_2d_with_thread,
            pthreadpool_thread_parallelize_2d_with_thread_fastpath)
pthreadpool_parallelize_2d_tile_1d ==
    Wrapper(thread_parallelize_2d_tile_1d,
            pthreadpool_thread_parallelize_2d_tile_1d_fastpath)
pthreadpool_parallelize_2d_tile_1d_with_uarch ==
    Wrapper(thread_parallelize_2d_tile_1d_with_uarch,
            pthreadpool_thread_parallelize_2d_tile_1d_with_uarch_fastpath)
pthreadpool_parallelize_2d_tile_1d_with_uarch_with_thread ==
    Wrapper(
        thread_parallelize_2d_tile_1d_with_uarch_with_thread,
        pthreadpool_thread_parallelize_2d_tile_1d_with_uarch_with_thread_fastpath)
pthreadpool_parallelize_2d_tile_1d_dynamic ==
    DynamicWrapper(thread_parallelize_2d_tile_1d_dynamic)
pthreadpool_parallelize_2d_tile_1d_dynamic_with_thread ==
    DynamicWrapper(thread_parallelize_2d_tile_1d_dynamic_with_thread)
pthreadpool_parallelize_2d_tile_1d_dynamic_with_uarch_with_thread ==
    DynamicWrapper(
        thread_parallelize_2d_tile_1d_dynamic_with_uarch_with_thread)
pthreadpool_parallelize_2d_tile_2d ==
    Wrapper(thread_parallelize_2d_tile_2d,
            pthreadpool_thread_parallelize_2d_tile_2d_fastpath)
pthreadpool_parallelize_2d_tile_2d_dynamic ==
    DynamicWrapper(thread_parallelize_2d_tile_2d_dynamic)
pthreadpool_parallelize_2d_tile_2d_dynamic_with_uarch ==
    DynamicWrapper(thread_parallelize_2d_tile_2d_dynamic_with_uarch)
pthreadpool_parallelize_2d_tile_2d_dynamic_with_thread ==
    DynamicWrapper(thread_parallelize_2d_tile_2d_dynamic_with_thread)
pthreadpool_parallelize_2d_tile_2d_with_uarch ==
    Wrapper(thread_parallelize_2d_tile_2d_with_uarch,
            pthreadpool_thread_parallelize_2d_tile_2d_with_uarch_fastpath)
pthreadpool_parallelize_3d ==
    Wrapper(thread_parallelize_3d,
            pthreadpool_thread_parallelize_3d_fastpath)
pthreadpool_parallelize_3d_tile_1d ==
    Wrapper(thread_parallelize_3d_tile_1d,
            pthreadpool_thread_parallelize_3d_tile_1d_fastpath)
pthreadpool_parallelize_3d_tile_1d_with_thread ==
    Wrapper(thread_parallelize_3d_tile_1d_with_thread,
            pthreadpool_thread_parallelize_3d_tile_1d_with_thread_fastpath)
pthreadpool_parallelize_3d_tile_1d_with_uarch ==
    Wrapper(thread_parallelize_3d_tile_1d_with_uarch,
            pthreadpool_thread_parallelize_3d_tile_1d_with_uarch_fastpath)
pthreadpool_parallelize_3d_tile_1d_with_uarch_with_thread ==
    Wrapper(
        thread_parallelize_3d_tile_1d_with_uarch_with_thread,
        pthreadpool_thread_parallelize_3d_tile_1d_with_uarch_with_thread_fastpath)
pthreadpool_parallelize_3d_tile_1d_dynamic ==
    DynamicWrapper(thread_parallelize_3d_tile_1d_dynamic)
pthreadpool_parallelize_3d_tile_1d_dynamic_with_thread ==
    DynamicWrapper(thread_parallelize_3d_tile_1d_dynamic_with_thread)
pthreadpool_parallelize_3d_tile_1d_dynamic_with_uarch_with_thread ==
    DynamicWrapper(
        thread_parallelize_3d_tile_1d_dynamic_with_uarch_with_thread)
pthreadpool_parallelize_3d_tile_2d ==
    Wrapper(thread_parallelize_3d_tile_2d,
            pthreadpool_thread_parallelize_3d_tile_2d_fastpath)
pthreadpool_parallelize_3d_tile_2d_dynamic ==
    DynamicWrapper(thread_parallelize_3d_tile_2d_dynamic)
pthreadpool_parallelize_3d_tile_2d_dynamic_with_uarch ==
    DynamicWrapper(thread_parallelize_3d_tile_2d_dynamic_with_uarch)
pthreadpool_parallelize_3d_tile_2d_dynamic_with_thread ==
    DynamicWrapper(thread_parallelize_3d_tile_2d_dynamic_with_thread)
pthreadpool_parallelize_3d_tile_2d_with_uarch ==
    Wrapper(thread_parallelize_3d_tile_2d_with_uarch,
            pthreadpool_thread_parallelize_3d_tile_2d_with_uarch_fastpath)
pthreadpool_parallelize_4d ==
    Wrapper(thread_parallelize_4d,
            pthreadpool_thread_parallelize_4d_fastpath)
pthreadpool_parallelize_4d_tile_1d ==
    Wrapper(thread_parallelize_4d_tile_1d,
            pthreadpool_thread_parallelize_4d_tile_1d_fastpath)
pthreadpool_parallelize_4d_tile_2d ==
    Wrapper(thread_parallelize_4d_tile_2d,
            pthreadpool_thread_parallelize_4d_tile_2d_fastpath)
pthreadpool_parallelize_4d_tile_2d_with_uarch ==
    Wrapper(thread_parallelize_4d_tile_2d_with_uarch,
            pthreadpool_thread_parallelize_4d_tile_2d_with_uarch_fastpath)
pthreadpool_parallelize_4d_tile_2d_dynamic ==
    DynamicWrapper(thread_parallelize_4d_tile_2d_dynamic)
pthreadpool_parallelize_4d_tile_2d_dynamic_with_uarch ==
    DynamicWrapper(thread_parallelize_4d_tile_2d_dynamic_with_uarch)
pthreadpool_parallelize_5d ==
    Wrapper(thread_parallelize_5d,
            pthreadpool_thread_parallelize_5d_fastpath)
pthreadpool_parallelize_5d_tile_1d ==
    Wrapper(thread_parallelize_5d_tile_1d,
            pthreadpool_thread_parallelize_5d_tile_1d_fastpath)
pthreadpool_parallelize_5d_tile_2d ==
    Wrapper(thread_parallelize_5d_tile_2d,
            pthreadpool_thread_parallelize_5d_tile_2d_fastpath)
pthreadpool_parallelize_6d ==
    Wrapper(thread_parallelize_6d,
            pthreadpool_thread_parallelize_6d_fastpath)
pthreadpool_parallelize_6d_tile_1d ==
    Wrapper(thread_parallelize_6d_tile_1d,
            pthreadpool_thread_parallelize_6d_tile_1d_fastpath)
pthreadpool_parallelize_6d_tile_2d ==
    Wrapper(thread_parallelize_6d_tile_2d,
            pthreadpool_thread_parallelize_6d_tile_2d_fastpath)

-----------------------------------------------------------------------------
(* legacy-api.c: four forward, two divide the linear index in their task.  *)

pthreadpool_compute_1d == pthreadpool_parallelize_1d
pthreadpool_compute_1d_tiled == pthreadpool_parallelize_1d_tile_1d
pthreadpool_compute_2d == pthreadpool_parallelize_2d
pthreadpool_compute_2d_tiled == pthreadpool_parallelize_2d_tile_2d
compute_3d_tiled == TaskNest(<<2, 1>>, 3)
pthreadpool_compute_3d_tiled == LegacyWrapper(compute_3d_tiled)
compute_4d_tiled == TaskNest(<<2, 1, 3>>, 4)
pthreadpool_compute_4d_tiled == LegacyWrapper(compute_4d_tiled)

-----------------------------------------------------------------------------

PublicFunctions == {
    pthreadpool_parallelize_1d,
    pthreadpool_parallelize_1d_with_thread,
    pthreadpool_parallelize_1d_with_uarch,
    pthreadpool_parallelize_1d_tile_1d,
    pthreadpool_parallelize_1d_tile_1d_dynamic,
    pthreadpool_parallelize_1d_tile_1d_dynamic_with_thread,
    pthreadpool_parallelize_1d_tile_1d_dynamic_with_uarch_with_thread,
    pthreadpool_parallelize_2d,
    pthreadpool_parallelize_2d_with_thread,
    pthreadpool_parallelize_2d_tile_1d,
    pthreadpool_parallelize_2d_tile_1d_with_uarch,
    pthreadpool_parallelize_2d_tile_1d_with_uarch_with_thread,
    pthreadpool_parallelize_2d_tile_1d_dynamic,
    pthreadpool_parallelize_2d_tile_1d_dynamic_with_thread,
    pthreadpool_parallelize_2d_tile_1d_dynamic_with_uarch_with_thread,
    pthreadpool_parallelize_2d_tile_2d,
    pthreadpool_parallelize_2d_tile_2d_dynamic,
    pthreadpool_parallelize_2d_tile_2d_dynamic_with_uarch,
    pthreadpool_parallelize_2d_tile_2d_dynamic_with_thread,
    pthreadpool_parallelize_2d_tile_2d_with_uarch,
    pthreadpool_parallelize_3d,
    pthreadpool_parallelize_3d_tile_1d,
    pthreadpool_parallelize_3d_tile_1d_with_thread,
    pthreadpool_parallelize_3d_tile_1d_with_uarch,
    pthreadpool_parallelize_3d_tile_1d_with_uarch_with_thread,
    pthreadpool_parallelize_3d_tile_1d_dynamic,
    pthreadpool_parallelize_3d_tile_1d_dynamic_with_thread,
    pthreadpool_parallelize_3d_tile_1d_dynamic_with_uarch_with_thread,
    pthreadpool_parallelize_3d_tile_2d,
    pthreadpool_parallelize_3d_tile_2d_dynamic,
    pthreadpool_parallelize_3d_tile_2d_dynamic_with_uarch,
    pthreadpool_parallelize_3d_tile_2d_dynamic_with_thread,
    pthreadpool_parallelize_3d_tile_2d_with_uarch,
    pthreadpool_parallelize_4d,
    pthreadpool_parallelize_4d_tile_1d,
    pthreadpool_parallelize_4d_tile_2d,
    pthreadpool_parallelize_4d_tile_2d_with_uarch,
    pthreadpool_parallelize_4d_tile_2d_dynamic,
    pthreadpool_parallelize_4d_tile_2d_dynamic_with_uarch,
    pthreadpool_parallelize_5d,
    pthreadpool_parallelize_5d_tile_1d,
    pthreadpool_parallelize_5d_tile_2d,
    pthreadpool_parallelize_6d,
    pthreadpool_parallelize_6d_tile_1d,
    pthreadpool_parallelize_6d_tile_2d,
    pthreadpool_compute_1d,
    pthreadpool_compute_1d_tiled,
    pthreadpool_compute_2d,
    pthreadpool_compute_2d_tiled,
    pthreadpool_compute_3d_tiled,
    pthreadpool_compute_4d_tiled}
===============================================================================
