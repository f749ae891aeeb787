------------------------------- MODULE LoopNest -------------------------------
(***************************************************************************)
(* The index arithmetic of the loop nests.  A nest of D loops over range   *)
(* in steps of tile (1 on an axis that is not tiled) is run as one loop    *)
(* over linear_range, the product of the tile counts.  A linear index is   *)
(* turned back into coordinates by divisions; a thread that takes items in *)
(* order divides once and then carries, like an odometer.                  *)
(*                                                                         *)
(* Axes are numbered from 1, the outermost; ranges, tiles, tile counts and *)
(* coordinates are sequences with one entry per axis.                      *)
(***************************************************************************)
EXTENDS Integers, SequencesExt

Smaller(a, b) == IF a < b THEN a ELSE b
Larger(a, b)  == IF a > b THEN a ELSE b

divide_round_up(n, q) == IF n % q = 0 THEN n \div q ELSE n \div q + 1

TileCounts(range, tile) ==
    [a \in DOMAIN range |-> divide_round_up(range[a], tile[a])]

\* The product of the counts of the axes from first to last.
Product(counts, first, last) ==
    LET product[a \in 0 .. Len(counts)] ==
            IF a < first THEN 1 ELSE product[a - 1] * counts[a]
    IN  product[last]

\* linear_range.
Linear(counts) == Product(counts, 1, Len(counts))

Zeros(counts) == [a \in DOMAIN counts |-> 0]

-----------------------------------------------------------------------------
(* The kinds of loop nest: which of the last axes are tiled, what the task *)
(* is told about the thread that calls it, and how an index is taken apart.*)

\* One item at a time; the thread's own items are found by carrying.
Nest(cuts, tiled, ids) ==
    [axes |-> Len(cuts) + 1, cuts |-> cuts, tiled |-> tiled, ids |-> ids,
     dynamic |-> FALSE, walks |-> TRUE]

\* As Nest, but every index is divided, in the task: thread_parallelize_1d
\* runs it over the linear range.
TaskNest(cuts, tiled) == [Nest(cuts, tiled, {}) EXCEPT !.walks = FALSE]

\* Chunks of consecutive items, passed to the task in as few calls as possible.
DynamicNest(axes, tiled, ids) ==
    [axes |-> axes, cuts |-> <<>>, tiled |-> tiled, ids |-> ids,
     dynamic |-> TRUE, walks |-> TRUE]

\* A function of the interface: what its threads run, and whether the wrapper
\* is one that runs everything on the calling thread.
Wrapper(run, fast)   == [run |-> run, fast |-> fast, serial |-> FALSE]
DynamicWrapper(run)  == [run |-> run, fast |-> run, serial |-> FALSE]
LegacyWrapper(task)  == [run |-> task, fast |-> task, serial |-> FALSE]

SerialNest(axes, tiled, ids) ==
    LET nest == [DynamicNest(axes, tiled, ids) EXCEPT !.dynamic = FALSE]
    IN  [run |-> nest, fast |-> nest, serial |-> TRUE]
SerialDynamicNest(axes, tiled, ids) ==
    [DynamicWrapper(DynamicNest(axes, tiled, ids)) EXCEPT !.serial = TRUE]

-----------------------------------------------------------------------------
(* Dividing.                                                               *)

\* Division k, of a number x on the way to the coordinate of axis a.  It splits
\* the group of axes that holds axes cuts[k] and cuts[k] + 1, and that the
\* divisions before it have left in one piece: the axes up to cuts[k] get the
\* quotient, those after it the remainder.
Divide(cuts, counts, a, x, k) ==
    LET Before   == {cuts[j] : j \in 1 .. (k - 1)}
        LastAxis == Min({Len(counts)} \cup {m \in Before : m > cuts[k]})
        Divisor  == Product(counts, cuts[k] + 1, LastAxis)
        Apart    == \E m \in Before : \/ a <= m /\ m < cuts[k]
                                      \/ cuts[k] < m /\ m < a
    IN  IF Apart THEN x ELSE IF a <= cuts[k] THEN x \div Divisor ELSE x % Divisor

\* The coordinates of item n.
Split(cuts, counts, n) ==
    [a \in DOMAIN counts |->
        LET part[k \in 0 .. Len(cuts)] ==
                IF k = 0 THEN n ELSE Divide(cuts, counts, a, part[k - 1], k)
        IN  part[Len(cuts)]]

\* The same, as the dynamic functions compute it: each coordinate by itself.
\* The outermost is not reduced, so the item after the last has one, too.
RowMajor(counts, n) ==
    [a \in DOMAIN counts |->
        LET quotient == n \div Product(counts, a + 1, Len(counts))
        IN  IF a = 1 THEN quotient ELSE quotient % counts[a]]

-----------------------------------------------------------------------------
(* Carrying.                                                               *)

TooFarMutant(x, limit) == x > limit  \* of Beyond: the end is taken for a tile
Beyond(x, limit) == x >= limit

\* From coordinates at, a step along the last of the axes: each axis that has
\* reached its limit starts over and its outer neighbour takes a step.
Advance(at, step, limit) ==
    LET stays == {a \in 2 .. Len(at) : ~Beyond(at[a] + step[a], limit[a])}
        moved == Max({1} \cup stays)
    IN  [a \in DOMAIN at |-> IF a < moved THEN at[a]
                             ELSE IF a = moved THEN at[a] + step[a]
                             ELSE 0]

\* The tile at a start: what the task is passed.
UncutMutant(range, tile, start) == tile  \* of SizeAt: the last tile is not cut
SizeAt(range, tile, start) ==
    [a \in DOMAIN range |-> Smaller(range[a] - start[a], tile[a])]

\* The axis along which a dynamic function joins tiles: the last one, or the
\* tiled one before it when the last is a single tile.
GroupAxis(nest, counts) ==
    IF nest.tiled = 2 /\ counts[nest.axes] = 1 THEN nest.axes - 1 ELSE nest.axes
==============================================================================
