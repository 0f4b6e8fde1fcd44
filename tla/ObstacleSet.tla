----------------------------- MODULE ObstacleSet -----------------------------
(***************************************************************************)
(* What the dynamic obstacle layer promises, without its lock, gate and    *)
(* slots: obstacles held under ids, changed and asked for in one step      *)
(* each.  PatchLayer implements it (its ImplementsObstacleSet property),   *)
(* so that a query never sees half of a change, whoever runs beside it.    *)
(***************************************************************************)
CONSTANTS Threads, Obstacles, NoAnswer

VARIABLES
  held,    \* the obstacles, by id
  answer   \* what each thread was last told, NoAnswer once it asks again

setVars == <<held, answer>>

Init == held = <<>> /\ answer = [t \in Threads |-> NoAnswer]

\* An id is free again once its obstacle is gone.
Add(o) ==
  /\ \E id \in DOMAIN held' \ DOMAIN held :
       held' = [i \in DOMAIN held \cup {id} |->
                  IF i = id THEN o ELSE held[i]]
  /\ UNCHANGED answer

Remove(id) ==
  /\ held' = [i \in DOMAIN held \ {id} |-> held[i]]
  /\ UNCHANGED answer

Clear == held' = <<>> /\ UNCHANGED answer

Ask(t) == answer' = [answer EXCEPT ![t] = held] /\ UNCHANGED held

Forget(t) == answer' = [answer EXCEPT ![t] = NoAnswer] /\ UNCHANGED held

Next ==
  \/ \E o \in Obstacles : Add(o)
  \/ \E id \in DOMAIN held : Remove(id)
  \/ Clear
  \/ \E t \in Threads : Ask(t) \/ Forget(t)

Spec == Init /\ [][Next]_setVars
=============================================================================
