----------------------------- MODULE MCStealing -----------------------------
(* Instances of FastPath, and of the WorkStealing it extends, for TLC.     *)
EXTENDS FastPath

\* Fewer items than threads, one with a remainder, two with different ones, and
\* one so close to SizeModulus = 9 that the wrappers refuse the fast path.
MCRanges == {2, 4, 5, 7}
=============================================================================
