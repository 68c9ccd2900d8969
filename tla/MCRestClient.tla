---------------------------- MODULE MCRestClient ----------------------------
(* Small instances of RestClient for TLC.                                  *)
EXTENDS RestClient

CONSTANTS c1, c2, q1, q2, null

Call(m, p) == [mode |-> m, params |-> p, timeout |-> 0]

\* both modes; a parameter object shared, of one's own, or null
MixedCalls == {Call("sync", q1), Call("async", q2), Call("async", null)}

AsyncCalls == {Call("async", q1)}

\* a client that has used up almost all ids
NearMax == {MaxInt - 1, MaxInt}
NoOld   == {}
=============================================================================
