----------------------------- MODULE KeyedMutex -----------------------------
(***************************************************************************)
(* What pkg/keylock promises its callers: one mutex per key, with nothing  *)
(* to be seen of the table of locks, of its cleaning or of the counters.   *)
(***************************************************************************)
CONSTANTS Procs, Keys

VARIABLES mode,   \* "idle", "wait" or "hold", per goroutine
          want    \* the key of its last Lock

mvars == <<mode, want>>

MInit ==
    /\ mode = [p \in Procs |-> "idle"]
    /\ want \in [Procs -> Keys]

Request(p, k) ==
    /\ mode[p] = "idle"
    /\ mode' = [mode EXCEPT ![p] = "wait"]
    /\ want' = [want EXCEPT ![p] = k]

Grant(p) ==
    /\ mode[p] = "wait"
    /\ \A q \in Procs : mode[q] = "hold" => want[q] # want[p]
    /\ mode' = [mode EXCEPT ![p] = "hold"]
    /\ UNCHANGED want

Return(p) ==
    /\ mode[p] = "hold"
    /\ mode' = [mode EXCEPT ![p] = "idle"]
    /\ UNCHANGED want

MNext ==
    \E p \in Procs : (\E k \in Keys : Request(p, k)) \/ Grant(p) \/ Return(p)

MSpec == MInit /\ [][MNext]_mvars
=============================================================================
