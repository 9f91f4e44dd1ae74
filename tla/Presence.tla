------------------------------ MODULE Presence ------------------------------
(***************************************************************************)
(* What a registry promises: it lists who has been heard on either plane,  *)
(* knows how long ago that was, and takes a node off the list only after   *)
(* it has been silent for more than MaxAge.                                *)
(***************************************************************************)
EXTENDS Naturals

CONSTANTS Id, MaxAge, MaxLag

VARIABLE age    \* of the listed ids: ticks since the last message, up to Old

Old == MaxAge + MaxLag + 1

Init == age = [id \in {} |-> Old]

Hear(id) == age' = [i \in DOMAIN age \cup {id} |-> IF i = id THEN 0 ELSE age[i]]

Forget(S) ==
    /\ \A id \in S : age[id] > MaxAge
    /\ age' = [id \in DOMAIN age \ S |-> age[id]]

Tick == age' = [id \in DOMAIN age |-> IF age[id] = Old THEN Old ELSE age[id] + 1]

\* The registry is in memory: a new process has an empty one.
Restart == age' = [id \in {} |-> Old]

Next == \/ \E id \in Id : Hear(id)
        \/ \E S \in SUBSET DOMAIN age : Forget(S)
        \/ Tick \/ Restart

Spec == Init /\ [][Next]_age
=============================================================================
