---------------------------- MODULE MCThreadPool ----------------------------
(* Instances of ThreadPool for TLC.                                        *)
EXTENDS ThreadPool

\* Jobs for a pool of three threads: one that reduces threads_count and makes
\* threads work under their rank, and one that uses every thread.
ReducedJob == {2}
EveryJob   == {2, 3}
=============================================================================
