--------------------------- MODULE PackagePromise ---------------------------
(***************************************************************************)
(* What the package resource promises the caller of one request, whatever  *)
(* other requests and the WSO2 server do: the request is answered once, it *)
(* calls a service that changes the server's packages at most once and     *)
(* never after its answer, and the answer tells what it can about that     *)
(* call.                                                                   *)
(***************************************************************************)
EXTENDS Integers

CONSTANT Requests

VARIABLES phase,   \* "waiting", "open" or "answered"
          kind,    \* "upload", "delete" or "list"
          issued,  \* requests that called a changing service of WSO2
          answer   \* error code of the answer, 0 for success

vars == <<phase, kind, issued, answer>>

\* File type not supported, package busy, package exists, package does not
\* exist: nothing was changed.
Untouched == {10001, 10002, 10003, 10006}
\* Deploy information lost, undeploy failed: a change was asked for.
Touched == {10004, 10005}
\* Runtime, Axis and IO exceptions: the caller cannot tell.
Unknown == {20001, 20002, 20003}

Init == /\ phase = [r \in Requests |-> "waiting"]
        /\ kind \in [Requests -> {"upload", "delete", "list"}]
        /\ issued = {}
        /\ answer = [r \in Requests |-> 0]

Open(r) == /\ phase[r] = "waiting"
           /\ phase' = [phase EXCEPT ![r] = "open"]
           /\ UNCHANGED <<kind, issued, answer>>

Issue(r) == /\ phase[r] = "open" /\ kind[r] # "list" /\ r \notin issued
            /\ issued' = issued \cup {r}
            /\ UNCHANGED <<phase, kind, answer>>

\* An answer the caller of r can be given now.
Honest(r, code) ==
    \/ code = 0 /\ (kind[r] = "list" \/ r \in issued)
    \/ code \in Untouched /\ r \notin issued
    \/ code \in Touched /\ r \in issued
    \/ code \in Unknown

Answer(r) == /\ phase[r] = "open"
             /\ phase' = [phase EXCEPT ![r] = "answered"]
             /\ \E code \in {0} \cup Untouched \cup Touched \cup Unknown :
                  /\ Honest(r, code)
                  /\ answer' = [answer EXCEPT ![r] = code]
             /\ UNCHANGED <<kind, issued>>

Next == \E r \in Requests : Open(r) \/ Issue(r) \/ Answer(r)

Spec == Init /\ [][Next]_vars
=============================================================================
