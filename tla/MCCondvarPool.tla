---------------------------- MODULE MCCondvarPool ----------------------------
(* Instances of CondvarPool for TLC.                                       *)
EXTENDS CondvarPool

\* As in MCThreadPool.
ReducedJob == {2}
EveryJob   == {2, 3}
==============================================================================
