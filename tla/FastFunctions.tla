---------------------------- MODULE FastFunctions -----------------------------
(***************************************************************************)
(* The fast-path versions of the statically tiled functions (fastpath.c).  *)
(* Each takes an index apart as the function it stands in for does; how they *)
(* claim an item is modelled in FastPath.                                  *)
(***************************************************************************)
EXTENDS LoopNest

pthreadpool_thread_parallelize_1d_fastpath == Nest(<<>>, 0, {})
pthreadpool_thread_parallelize_1d_with_thread_fastpath ==
    Nest(<<>>, 0, {"thread"})
pthreadpool_thread_parallelize_1d_with_uarch_fastpath ==
    Nest(<<>>, 0, {"uarch"})
pthreadpool_thread_parallelize_1d_tile_1d_fastpath == Nest(<<>>, 1, {})
pthreadpool_thread_parallelize_2d_fastpath == Nest(<<1>>, 0, {})
pthreadpool_thread_parallelize_2d_with_thread_fastpath ==
    Nest(<<1>>, 0, {"thread"})
pthreadpool_thread_parallelize_2d_tile_1d_fastpath == Nest(<<1>>, 1, {})
pthreadpool_thread_parallelize_2d_tile_1d_with_uarch_fastpath ==
    Nest(<<1>>, 1, {"uarch"})
pthreadpool_thread_parallelize_2d_tile_1d_with_uarch_with_thread_fastpath ==
    Nest(<<1>>, 1, {"uarch", "thread"})
pthreadpool_thread_parallelize_2d_tile_2d_fastpath == Nest(<<1>>, 2, {})
pthreadpool_thread_parallelize_2d_tile_2d_with_uarch_fastpath ==
    Nest(<<1>>, 2, {"uarch"})
pthreadpool_thread_parallelize_3d_fastpath == Nest(<<2, 1>>, 0, {})
pthreadpool_thread_parallelize_3d_tile_1d_fastpath == Nest(<<2, 1>>, 1, {})
pthreadpool_thread_parallelize_3d_tile_1d_with_thread_fastpath ==
    Nest(<<2, 1>>, 1, {"thread"})
pthreadpool_thread_parallelize_3d_tile_1d_with_uarch_fastpath ==
    Nest(<<2, 1>>, 1, {"uarch"})
pthreadpool_thread_parallelize_3d_tile_1d_with_uarch_with_thread_fastpath ==
    Nest(<<2, 1>>, 1, {"uarch", "thread"})
pthreadpool_thread_parallelize_3d_tile_2d_fastpath == Nest(<<2, 1>>, 2, {})
pthreadpool_thread_parallelize_3d_tile_2d_with_uarch_fastpath ==
    Nest(<<2, 1>>, 2, {"uarch"})
pthreadpool_thread_parallelize_4d_fastpath == Nest(<<2, 1, 3>>, 0, {})
pthreadpool_thread_parallelize_4d_tile_1d_fastpath == Nest(<<2, 1, 3>>, 1, {})
pthreadpool_thread_parallelize_4d_tile_2d_fastpath == Nest(<<2, 1, 3>>, 2, {})
pthreadpool_thread_parallelize_4d_tile_2d_with_uarch_fastpath ==
    Nest(<<2, 1, 3>>, 2, {"uarch"})
pthreadpool_thread_parallelize_5d_fastpath == Nest(<<3, 2, 4, 1>>, 0, {})
pthreadpool_thread_parallelize_5d_tile_1d_fastpath ==
    Nest(<<4, 2, 1, 3>>, 1, {})
pthreadpool_thread_parallelize_5d_tile_2d_fastpath ==
    Nest(<<3, 2, 4, 1>>, 2, {})
pthreadpool_thread_parallelize_6d_fastpath == Nest(<<3, 2, 5, 1, 4>>, 0, {})
pthreadpool_thread_parallelize_6d_tile_1d_fastpath ==
    Nest(<<3, 2, 5, 1, 4>>, 1, {})
pthreadpool_thread_parallelize_6d_tile_2d_fastpath ==
    Nest(<<4, 2, 5, 1, 3>>, 2, {})
===============================================================================
