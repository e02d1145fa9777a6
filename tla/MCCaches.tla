------------------------------ MODULE MCCaches ------------------------------
(* Two ADOMs, and two threads that refresh a cache of them again and again.  *)
EXTENDS Caches

CONSTANTS
    n1, n2,    \* ADOMs
    f1, f2     \* threads
=============================================================================
