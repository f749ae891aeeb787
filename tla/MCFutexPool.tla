----------------------------- MODULE MCFutexPool -----------------------------
(* Instances of FutexPool for TLC.                                         *)
EXTENDS FutexPool

\* As in MCThreadPool; in a pool of two threads every job uses both.
ReducedJob == {2}
EveryJob   == {2, 3}
==============================================================================
