--------------------------- MODULE ProcessPromise ---------------------------
(***************************************************************************)
(* What the process resource promises of each request, whatever is         *)
(* deployed, replaced or removed at any time: a request has no effect      *)
(* before it is worked on nor after its answer; it starts at most one      *)
(* instance, of the process it asked for; the instance and the answer are  *)
(* one step, and a request that fails with an instance running is one      *)
(* whose reply was lost.                                                   *)
(***************************************************************************)
CONSTANTS Requests, Processes, Unknown

VARIABLES phase,    \* waiting, open or answered
          asked,    \* the process a request asks for
          effect,   \* processes an instance was started of, for each request
          lost,     \* requests whose reply was lost
          answer

vars == <<phase, asked, effect, lost, answer>>

Init == /\ phase = [r \in Requests |-> "waiting"]
        /\ asked \in [Requests -> Processes \cup {Unknown}]
        /\ effect = [r \in Requests |-> <<>>]
        /\ lost = {}
        /\ answer = [r \in Requests |-> "none"]

Open(r) == /\ phase[r] = "waiting"
           /\ phase' = [phase EXCEPT ![r] = "open"]
           /\ UNCHANGED <<asked, effect, lost, answer>>

Close(r, status) == /\ phase' = [phase EXCEPT ![r] = "answered"]
                    /\ answer' = [answer EXCEPT ![r] = status]
                    /\ UNCHANGED asked

Refuse(r) == /\ phase[r] \in {"waiting", "open"} /\ Close(r, "FAIL")
             /\ UNCHANGED <<effect, lost>>

StartInstance(r) == /\ phase[r] = "open" /\ asked[r] \in Processes
                    /\ effect' = [effect EXCEPT ![r] = <<asked[r]>>]

Succeed(r) == StartInstance(r) /\ Close(r, "SUCCESS") /\ UNCHANGED lost

LoseReply(r) == StartInstance(r) /\ Close(r, "FAIL") /\ lost' = lost \cup {r}

Next == \E r \in Requests : Open(r) \/ Refuse(r) \/ Succeed(r) \/ LoseReply(r)

Spec == Init /\ [][Next]_vars
=============================================================================
