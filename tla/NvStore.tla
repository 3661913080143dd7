------------------------------ MODULE NvStore ------------------------------
(***************************************************************************)
(* What struct eeprom comes down to for its client: a map that survives    *)
(* power cycles.  A write changes its own key only and is complete when    *)
(* write() returns; a power loss costs the value of one key at most, and   *)
(* nothing else ever does, putting things in order after it included.      *)
(* Eeprom.tla implements this specification.                               *)
(***************************************************************************)
CONSTANTS
  Keys, Values,
  NotFound,  \* read() returns false
  Blank      \* what is read where a value got lost, 0xffff

VARIABLES
  map,       \* what read() gives for each key
  job,       \* the write under way, or NoJob
  on         \* powered, and init() has begun

NoJob == [key |-> NotFound, value |-> NotFound]

StoreInit == map = [k \in Keys |-> NotFound] /\ job = NoJob /\ on = FALSE

PowerUp == /\ ~on /\ on' = TRUE
           /\ UNCHANGED <<map, job>>

Begin == /\ on /\ job = NoJob
         /\ \E k \in Keys, v \in Values : job' = [key |-> k, value |-> v]
         /\ UNCHANGED <<map, on>>

Commit == /\ job # NoJob
          /\ map' = [map EXCEPT ![job.key] = job.value]
          /\ UNCHANGED <<job, on>>

End == /\ job # NoJob /\ map[job.key] = job.value
       /\ job' = NoJob
       /\ UNCHANGED <<map, on>>

PowerLoss == /\ on /\ on' = FALSE /\ job' = NoJob
             /\ map' \in {map} \cup {[map EXCEPT ![k] = Blank] : k \in Keys}

StoreSpec ==
  StoreInit /\ [][PowerUp \/ Begin \/ Commit \/ End \/ PowerLoss]_<<map, job, on>>
=============================================================================
