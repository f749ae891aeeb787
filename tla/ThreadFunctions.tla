--------------------------- MODULE ThreadFunctions ----------------------------
(***************************************************************************)
(* The functions the threads of a job run, one per shape of loop nest      *)
(* (portable-api.c).  They claim items alike and differ in what is written *)
(* here: how a linear index is taken apart (after which axes it is         *)
(* divided, in the order of the divisions), how many of the last axes are  *)
(* tiled, which identifiers the task is passed, and whether items are      *)
(* claimed one at a time or, in the dynamic functions, in chunks.          *)
(***************************************************************************)
EXTENDS LoopNest

thread_parallelize_1d == Nest(<<>>, 0, {})
thread_parallelize_1d_with_thread == Nest(<<>>, 0, {"thread"})
thread_parallelize_1d_with_uarch == Nest(<<>>, 0, {"uarch"})
thread_parallelize_1d_tile_1d == Nest(<<>>, 1, {})
thread_parallelize_1d_tile_1d_dynamic == DynamicNest(1, 1, {})
thread_parallelize_1d_tile_1d_dynamic_with_thread ==
    DynamicNest(1, 1, {"thread"})
thread_parallelize_1d_tile_1d_dynamic_with_uarch_with_thread ==
    DynamicNest(1, 1, {"uarch", "thread"})
thread_parallelize_2d == Nest(<<1>>, 0, {})
thread_parallelize_2d_with_thread == Nest(<<1>>, 0, {"thread"})
thread_parallelize_2d_tile_1d == Nest(<<1>>, 1, {})
thread_parallelize_2d_tile_1d_with_uarch == Nest(<<1>>, 1, {"uarch"})
thread_parallelize_2d_tile_1d_with_uarch_with_thread ==
    Nest(<<1>>, 1, {"uarch", "thread"})
thread_parallelize_2d_tile_1d_dynamic == DynamicNest(2, 1, {})
thread_parallelize_2d_tile_1d_dynamic_with_thread ==
    DynamicNest(2, 1, {"thread"})
thread_parallelize_2d_tile_1d_dynamic_with_uarch_with_thread ==
    DynamicNest(2, 1, {"uarch", "thread"})
thread_parallelize_2d_tile_2d == Nest(<<1>>, 2, {})
thread_parallelize_2d_tile_2d_with_uarch == Nest(<<1>>, 2, {"uarch"})
thread_parallelize_2d_tile_2d_dynamic == DynamicNest(2, 2, {})
thread_parallelize_2d_tile_2d_dynamic_with_uarch ==
    DynamicNest(2, 2, {"uarch"})
thread_parallelize_2d_tile_2d_dynamic_with_thread ==
    DynamicNest(2, 2, {"thread"})
thread_parallelize_3d == Nest(<<2, 1>>, 0, {})
thread_parallelize_3d_tile_1d == Nest(<<2, 1>>, 1, {})
thread_parallelize_3d_tile_1d_with_thread == Nest(<<2, 1>>, 1, {"thread"})
thread_parallelize_3d_tile_1d_with_uarch == Nest(<<2, 1>>, 1, {"uarch"})
thread_parallelize_3d_tile_1d_with_uarch_with_thread ==
    Nest(<<2, 1>>, 1, {"uarch", "thread"})
thread_parallelize_3d_tile_1d_dynamic == DynamicNest(3, 1, {})
thread_parallelize_3d_tile_1d_dynamic_with_thread ==
    DynamicNest(3, 1, {"thread"})
thread_parallelize_3d_tile_1d_dynamic_with_uarch_with_thread ==
    DynamicNest(3, 1, {"uarch", "thread"})
thread_parallelize_3d_tile_2d == Nest(<<2, 1>>, 2, {})
thread_parallelize_3d_tile_2d_with_uarch == Nest(<<2, 1>>, 2, {"uarch"})
thread_parallelize_3d_tile_2d_dynamic == DynamicNest(3, 2, {})
thread_parallelize_3d_tile_2d_dynamic_with_uarch ==
    DynamicNest(3, 2, {"uarch"})
thread_parallelize_3d_tile_2d_dynamic_with_thread ==
    DynamicNest(3, 2, {"thread"})
thread_parallelize_4d == Nest(<<2, 1, 3>>, 0, {})
thread_parallelize_4d_tile_1d == Nest(<<2, 1, 3>>, 1, {})
thread_parallelize_4d_tile_2d == Nest(<<2, 1, 3>>, 2, {})
thread_parallelize_4d_tile_2d_with_uarch == Nest(<<2, 1, 3>>, 2, {"uarch"})
thread_parallelize_4d_tile_2d_dynamic == DynamicNest(4, 2, {})
thread_parallelize_4d_tile_2d_dynamic_with_uarch ==
    DynamicNest(4, 2, {"uarch"})
thread_parallelize_5d == Nest(<<3, 2, 4, 1>>, 0, {})
thread_parallelize_5d_tile_1d == Nest(<<4, 2, 1, 3>>, 1, {})
thread_parallelize_5d_tile_2d == Nest(<<3, 2, 4, 1>>, 2, {})
thread_parallelize_6d == Nest(<<3, 2, 5, 1, 4>>, 0, {})
thread_parallelize_6d_tile_1d == Nest(<<3, 2, 5, 1, 4>>, 1, {})
thread_parallelize_6d_tile_2d == Nest(<<4, 2, 5, 1, 3>>, 2, {})
===============================================================================
