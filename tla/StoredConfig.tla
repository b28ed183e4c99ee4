------------------------------ MODULE StoredConfig ------------------------------
(* What the configuration store promises (ConfigStore.h): the configuration in *)
(* RAM may run ahead, the one in flash only ever becomes what the one in RAM   *)
(* is, all of it at once, and a start reads back exactly what is in flash. A   *)
(* file system without room may lose the file. The file the device was         *)
(* installed with is replaced only once there is a copy of it, if flash takes  *)
(* one.                                                                        *)

CONSTANTS Defaults

VARIABLES on, current, stored, full,
          first,    \* flash still holds a file of the first version
          copied    \* a whole copy of it is there, or flash refused one

Vars == <<on, current, stored, full, first, copied>>

Init == ~on /\ ~full /\ ~copied /\ first \in BOOLEAN /\ current = Defaults

SameFile == UNCHANGED <<stored, full, first>>
Replaced == on /\ on' /\ (first => copied) /\ ~first' /\ UNCHANGED <<current, full, copied>>

Start == ~on /\ on' /\ current' = stored /\ SameFile /\ UNCHANGED copied
Stop == on /\ ~on' /\ current' = Defaults /\ SameFile /\ UNCHANGED copied
Change == on /\ on' /\ SameFile /\ UNCHANGED copied
Copy == on /\ on' /\ first /\ SameFile /\ UNCHANGED current
Store == Replaced /\ stored' = current
Fill == on /\ full' /\ UNCHANGED <<on, current, stored, first, copied>>
Lose == Replaced /\ full /\ stored' = Defaults

Next == Start \/ Stop \/ Change \/ Copy \/ Store \/ Fill \/ Lose

Spec == Init /\ [][Next]_Vars

=============================================================================
