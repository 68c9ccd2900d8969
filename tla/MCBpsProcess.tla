---------------------------- MODULE MCBpsProcess ----------------------------
(***************************************************************************)
(* Small instances of BpsProcess and of MessageBody for TLC: a behaviour   *)
(* is one of the requests, or one of the data of a message.                *)
(***************************************************************************)
EXTENDS BpsProcess, MCMessageBody

CONSTANTS r1, r2, p1, nobody, none

X == [name |-> "x", leaf |-> TRUE]
Y == [name |-> "y", leaf |-> FALSE]

\* one template or two, of one element, of two or of none
TwoInterfaces == {<<<<X>>>>, <<<<Y>>, <<X, Y>>>>, <<<<>>>>}

\* none, one or both of the names, with values their elements take or do not,
\* or no map at all
GivenParams == {[n \in {} |-> "other"], [x |-> "string"], [x |-> "other"], [y |-> "object"],
                [y |-> "string"], [x |-> "string", y |-> "object"]}

AnyCall == [processId |-> nobody, params |-> none]

MCInit == \/ Init /\ stage = "requests" /\ NoMessage
          \/ /\ call = [r \in Requests |-> AnyCall]
             /\ deployed = [p \in Processes |-> Undeployed]
             /\ Init /\ MessageInit

MCNext == \/ stage = "requests" /\ Next /\ UNCHANGED messagevars
          \/ MessageNext /\ UNCHANGED vars

MCSpec == MCInit /\ [][MCNext]_<<vars, messagevars>>
=============================================================================
