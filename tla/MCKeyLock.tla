----------------------------- MODULE MCKeyLock -----------------------------
(* KeyLock for TLC.  A goroutine refers to at most one object and the table to
   one per key, so Procs + Keys objects always leave a fresh one.  No symmetry:
   the run checks liveness. *)
EXTENDS KeyLock
=============================================================================
