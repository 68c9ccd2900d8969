---------------------------- MODULE CallPromise -----------------------------
(***************************************************************************)
(* What "Try it out" promises of one submission, however many are under    *)
(* way, in whatever order they are answered and however often the page is  *)
(* made anew: it is refused at once or answered once, and its answer is    *)
(* shown in the view it was made in and in no other, if that view is still *)
(* there.                                                                  *)
(***************************************************************************)
EXTENDS Integers

CONSTANT Views

VARIABLES submitted,   \* submissions so far
          page,        \* pages made so far; a view is one of a page
          out,         \* submissions that are under way
          refused, answered,
          shown        \* submission whose answer a view shows, or 0

vars == <<submitted, page, out, refused, answered, shown>>

Init == /\ submitted = 0 /\ page = 1
        /\ out = {} /\ refused = {} /\ answered = {}
        /\ shown = [v \in Views |-> 0]

Submit(v) == /\ submitted' = submitted + 1
             /\ out' = out \cup {[id |-> submitted', view |-> v, page |-> page]}
             /\ UNCHANGED <<page, refused, answered, shown>>

Refuse == /\ submitted' = submitted + 1
          /\ refused' = refused \cup {submitted'}
          /\ UNCHANGED <<page, out, answered, shown>>

Answer(s) == /\ out' = out \ {s}
             /\ answered' = answered \cup {s.id}
             /\ shown' = IF s.page = page THEN [shown EXCEPT ![s.view] = s.id] ELSE shown
             /\ UNCHANGED <<submitted, page, refused>>

NewPage == /\ page' = page + 1
           /\ shown' = [v \in Views |-> 0]
           /\ UNCHANGED <<submitted, out, refused, answered>>

Next == \/ \E v \in Views : Submit(v)
        \/ Refuse
        \/ \E s \in out : Answer(s)
        \/ NewPage

Spec == Init /\ [][Next]_vars
=============================================================================
