----------------------------- MODULE Singleton ------------------------------
(***************************************************************************)
(* What a lazily made singleton promises its users, however their steps    *)
(* interleave: one of them at a time makes the object and nobody once it   *)
(* is there, it is given out only when it is complete, and everybody who   *)
(* has it has the same one for good.                                       *)
(***************************************************************************)
CONSTANTS Users, NoObject

VARIABLES object,   \* what is published, or NoObject
          makers,   \* users who are making it
          held      \* what each user has been given

vars == <<object, makers, held>>

\* The object may be there already.
Init == makers = {} /\ held = [u \in Users |-> NoObject]

Make(u) == /\ object = NoObject /\ makers = {}
           /\ makers' = {u}
           /\ UNCHANGED <<object, held>>

\* The maker may keep what it made.
Publish(u) == /\ object = NoObject /\ makers = {u}
              /\ object' # NoObject /\ makers' = {}
              /\ held' \in {held, [held EXCEPT ![u] = object']}

\* Making it failed; another user may try.
GiveUp(u) == /\ makers = {u} /\ makers' = {}
             /\ UNCHANGED <<object, held>>

Take(u) == /\ object # NoObject
           /\ held' = [held EXCEPT ![u] = object]
           /\ UNCHANGED <<object, makers>>

Next == \E u \in Users : Make(u) \/ Publish(u) \/ GiveUp(u) \/ Take(u)

Spec == Init /\ [][Next]_vars
=============================================================================
