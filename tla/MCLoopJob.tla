------------------------------ MODULE MCLoopJob ------------------------------
(* An instance of LoopJob for TLC.                                         *)
EXTENDS LoopJob

Shape(threads, tiled, range, tile) ==
    [threads |-> threads, tiled |-> tiled, range |-> range, tile |-> tile]

\* Every kind of nest is run in parallel, with cut tiles and rows that end
\* inside a thread's range.
ParallelShapes == {
    Shape(3, 0, <<5>>, <<1>>),
    Shape(3, 1, <<4>>, <<1>>),
    Shape(2, 1, <<9>>, <<2>>),
    Shape(2, 0, <<2, 3>>, <<1, 1>>),
    Shape(2, 1, <<2, 5>>, <<1, 2>>),
    Shape(2, 2, <<3, 5>>, <<2, 2>>),
    Shape(2, 2, <<5, 2>>, <<2, 3>>),
    Shape(2, 0, <<2, 1, 3>>, <<1, 1, 1>>),
    Shape(2, 1, <<2, 2, 3>>, <<1, 1, 2>>),
    Shape(2, 2, <<2, 3, 3>>, <<1, 2, 4>>),
    Shape(2, 2, <<1, 3, 5>>, <<1, 2, 2>>),
    Shape(2, 3, <<1, 3, 5>>, <<1, 2, 2>>),
    Shape(2, 0, <<2, 2, 1, 3>>, <<1, 1, 1, 1>>),
    Shape(2, 1, <<2, 1, 2, 3>>, <<1, 1, 1, 2>>),
    Shape(2, 2, <<1, 2, 3, 2>>, <<1, 1, 2, 1>>),
    Shape(2, 2, <<2, 1, 3, 2>>, <<1, 1, 2, 2>>),
    Shape(2, 4, <<2, 1, 3, 2>>, <<1, 1, 2, 1>>)}

DeepShapes == {
    Shape(2, 0, <<2, 1, 2, 1, 3>>, <<1, 1, 1, 1, 1>>),
    Shape(2, 1, <<2, 1, 1, 2, 3>>, <<1, 1, 1, 1, 2>>),
    Shape(2, 2, <<2, 1, 2, 3, 2>>, <<1, 1, 1, 2, 1>>),
    Shape(2, 0, <<1, 2, 1, 2, 1, 3>>, <<1, 1, 1, 1, 1, 1>>),
    Shape(2, 1, <<2, 1, 2, 1, 1, 3>>, <<1, 1, 1, 1, 1, 2>>),
    Shape(2, 2, <<1, 2, 1, 2, 3, 3>>, <<1, 1, 1, 1, 2, 2>>)}

\* Thread 0 may be moved between a core of uarch 0 and one beyond MaxUarch.
MCUarchs == [t \in 0 .. 2 |-> IF t = 0 THEN {0, 2} ELSE IF t = 1 THEN {2} ELSE {0}]

MCShapes == ParallelShapes \cup DeepShapes
             \cup {[s EXCEPT !.threads = 1] : s \in ParallelShapes}
==============================================================================
