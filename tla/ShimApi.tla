------------------------------- MODULE ShimApi --------------------------------
(***************************************************************************)
(* The build without threads (shim.c): every function is a loop nest run   *)
(* by the caller, which reports default_uarch_index and thread 0.          *)
(***************************************************************************)
EXTENDS LoopNest

pthreadpool_parallelize_1d == SerialNest(1, 0, {})
pthreadpool_parallelize_1d_with_thread == SerialNest(1, 0, {"thread"})
pthreadpool_parallelize_1d_with_uarch == SerialNest(1, 0, {"uarch"})
pthreadpool_parallelize_1d_tile_1d == SerialNest(1, 1, {})
pthreadpool_parallelize_1d_tile_1d_dynamic == SerialDynamicNest(1, 1, {})
pthreadpool_parallelize_1d_tile_1d_dynamic_with_thread ==
    SerialDynamicNest(1, 1, {"thread"})
pthreadpool_parallelize_1d_tile_1d_dynamic_with_uarch_with_thread ==
    SerialDynamicNest(1, 1, {"uarch", "thread"})
pthreadpool_parallelize_2d == SerialNest(2, 0, {})
pthreadpool_parallelize_2d_with_thread == SerialNest(2, 0, {"thread"})
pthreadpool_parallelize_2d_tile_1d == SerialNest(2, 1, {})
pthreadpool_parallelize_2d_tile_1d_with_uarch == SerialNest(2, 1, {"uarch"})
pthreadpool_parallelize_2d_tile_1d_with_uarch_with_thread ==
    SerialNest(2, 1, {"uarch", "thread"})
pthreadpool_parallelize_2d_tile_1d_dynamic == SerialDynamicNest(2, 1, {})
pthreadpool_parallelize_2d_tile_1d_dynamic_with_thread ==
    SerialDynamicNest(2, 1, {"thread"})
pthreadpool_parallelize_2d_tile_1d_dynamic_with_uarch_with_thread ==
    SerialDynamicNest(2, 1, {"uarch", "thread"})
pthreadpool_parallelize_2d_tile_2d == SerialNest(2, 2, {})
pthreadpool_parallelize_2d_tile_2d_with_uarch == SerialNest(2, 2, {"uarch"})
pthreadpool_parallelize_2d_tile_2d_dynamic == SerialDynamicNest(2, 2, {})
pthreadpool_parallelize_2d_tile_2d_dynamic_with_uarch ==
    SerialDynamicNest(2, 2, {"uarch"})
pthreadpool_parallelize_2d_tile_2d_dynamic_with_thread ==
    SerialDynamicNest(2, 2, {"thread"})
pthreadpool_parallelize_3d == SerialNest(3, 0, {})
pthreadpool_parallelize_3d_tile_1d == SerialNest(3, 1, {})
pthreadpool_parallelize_3d_tile_1d_with_thread == SerialNest(3, 1, {"thread"})
pthreadpool_parallelize_3d_tile_1d_with_uarch == SerialNest(3, 1, {"uarch"})
pthreadpool_parallelize_3d_tile_1d_with_uarch_with_thread ==
    SerialNest(3, 1, {"uarch", "thread"})
pthreadpool_parallelize_3d_tile_2d == SerialNest(3, 2, {})
pthreadpool_parallelize_3d_tile_1d_dynamic == SerialDynamicNest(3, 1, {})
pthreadpool_parallelize_3d_tile_1d_dynamic_with_thread ==
    SerialDynamicNest(3, 1, {"thread"})
pthreadpool_parallelize_3d_tile_1d_dynamic_with_uarch_with_thread ==
    SerialDynamicNest(3, 1, {"uarch", "thread"})
pthreadpool_parallelize_3d_tile_2d_with_uarch == SerialNest(3, 2, {"uarch"})
pthreadpool_parallelize_3d_tile_2d_dynamic == SerialDynamicNest(3, 2, {})
pthreadpool_parallelize_3d_tile_2d_dynamic_with_thread ==
    SerialDynamicNest(3, 2, {"thread"})
pthreadpool_parallelize_4d == SerialNest(4, 0, {})
pthreadpool_parallelize_4d_tile_1d == SerialNest(4, 1, {})
pthreadpool_parallelize_4d_tile_2d == SerialNest(4, 2, {})
pthreadpool_parallelize_4d_tile_2d_with_uarch == SerialNest(4, 2, {"uarch"})
pthreadpool_parallelize_4d_tile_2d_dynamic == SerialDynamicNest(4, 2, {})
pthreadpool_parallelize_4d_tile_2d_dynamic_with_uarch ==
    SerialDynamicNest(4, 2, {"uarch"})
pthreadpool_parallelize_5d == SerialNest(5, 0, {})
pthreadpool_parallelize_5d_tile_1d == SerialNest(5, 1, {})
pthreadpool_parallelize_5d_tile_2d == SerialNest(5, 2, {})
pthreadpool_parallelize_6d == SerialNest(6, 0, {})
pthreadpool_parallelize_6d_tile_1d == SerialNest(6, 1, {})
pthreadpool_parallelize_6d_tile_2d == SerialNest(6, 2, {})

ShimFunctions == {
    pthreadpool_parallelize_1d,
    pthreadpool_parallelize_1d_with_thread,
    pthreadpool_parallelize_1d_with_uarch,
    pthreadpool_parallelize_1d_tile_1d,
    pthreadpool_parallelize_1d_tile_1d_dynamic,
    pthreadpool_parallelize_1d_tile_1d_dynamic_with_thread,
    pthreadpool_parallelize_1d_tile_1d_dynamic_with_uarch_with_thread,
    pthreadpool_parallelize_2d,
    pthreadpool_parallelize_2d_with_thread,
    pthreadpool_parallelize_2d_tile_1d,
    pthreadpool_parallelize_2d_tile_1d_with_uarch,
    pthreadpool_parallelize_2d_tile_1d_with_uarch_with_thread,
    pthreadpool_parallelize_2d_tile_1d_dynamic,
    pthreadpool_parallelize_2d_tile_1d_dynamic_with_thread,
    pthreadpool_parallelize_2d_tile_1d_dynamic_with_uarch_with_thread,
    pthreadpool_parallelize_2d_tile_2d,
    pthreadpool_parallelize_2d_tile_2d_with_uarch,
    pthreadpool_parallelize_2d_tile_2d_dynamic,
    pthreadpool_parallelize_2d_tile_2d_dynamic_with_uarch,
    pthreadpool_parallelize_2d_tile_2d_dynamic_with_thread,
    pthreadpool_parallelize_3d,
    pthreadpool_parallelize_3d_tile_1d,
    pthreadpool_parallelize_3d_tile_1d_with_thread,
    pthreadpool_parallelize_3d_tile_1d_with_uarch,
    pthreadpool_parallelize_3d_tile_1d_with_uarch_with_thread,
    pthreadpool_parallelize_3d_tile_2d,
    pthreadpool_parallelize_3d_tile_1d_dynamic,
    pthreadpool_parallelize_3d_tile_1d_dynamic_with_thread,
    pthreadpool_parallelize_3d_tile_1d_dynamic_with_uarch_with_thread,
    pthreadpool_parallelize_3d_tile_2d_with_uarch,
    pthreadpool_parallelize_3d_tile_2d_dynamic,
    pthreadpool_parallelize_3d_tile_2d_dynamic_with_thread,
    pthreadpool_parallelize_4d,
    pthreadpool_parallelize_4d_tile_1d,
    pthreadpool_parallelize_4d_tile_2d,
    pthreadpool_parallelize_4d_tile_2d_with_uarch,
    pthreadpool_parallelize_4d_tile_2d_dynamic,
    pthreadpool_parallelize_4d_tile_2d_dynamic_with_uarch,
    pthreadpool_parallelize_5d,
    pthreadpool_parallelize_5d_tile_1d,
    pthreadpool_parallelize_5d_tile_2d,
    pthreadpool_parallelize_6d,
    pthreadpool_parallelize_6d_tile_1d,
    pthreadpool_parallelize_6d_tile_2d}
===============================================================================
