----------------------------- MODULE MessageFill -----------------------------
(***************************************************************************)
(* The data a process request carries (wso2bpel-mgr): setParams of         *)
(* BpsProcess.java fills the parameters into the elements of the request   *)
(* template, calling itself for each child with the part of the parameters *)
(* that has the name of their parent.                                      *)
(*                                                                         *)
(* A value of the parameters is [map |-> function of names],               *)
(* [text |-> string] or NoText, which stands for a list, a number, a       *)
(* boolean or null.  One action is a turn of the loop over the children or *)
(* the end of a call; the calls that have not ended are on a stack.        *)
(***************************************************************************)
EXTENDS Integers, Sequences, SequencesExt

CONSTANT Requests

NoText == [null |-> TRUE]

IsMap(v)  == "map" \in DOMAIN v
IsText(v) == "text" \in DOMAIN v

\* Map.get; of what is no map there is nothing.
Get(v, n) == IF IsMap(v) /\ n \in DOMAIN v.map THEN v.map[n] ELSE NoText

(***************************************************************************)
(* A request: the elements of the template, each with its children, name   *)
(* and text; the parameters; and, to compare with, the value found in them *)
(* under the names on the way to an element, its own included.             *)
(***************************************************************************)
WellFormed(r) ==
    /\ r.root \in r.elements /\ r.kids \in [r.elements -> Seq(r.elements)]
    /\ DOMAIN r.name = r.elements /\ DOMAIN r.text = r.elements
    /\ \A S \in SUBSET r.elements :
          r.root \in S /\ (\A e \in S : \A i \in DOMAIN r.kids[e] : r.kids[e][i] \in S)
          => S = r.elements
    /\ r.value[r.root] = Get(r.params, r.name[r.root])
    /\ \A e \in r.elements : \A i \in DOMAIN r.kids[e] :
          LET child == r.kids[e][i] IN r.value[child] = Get(r.value[e], r.name[child])

RequestsOK == \A r \in Requests : WellFormed(r)

VARIABLES
    request,
    text,      \* the text of each element
    calls,     \* calls of setParams: an element, its params and the child it is at
    visited    \* history: elements setParams was called with

fillvars == <<request, text, calls, visited>>

Call(e, params) == [element |-> e, params |-> params, child |-> 1]

Init == /\ request \in Requests /\ text = request.text
        /\ calls = <<Call(request.root, request.params)>>
        /\ visited = {request.root}

-----------------------------------------------------------------------------
(* setParams                                                               *)

This     == Last(calls)
Children == request.kids[This.element]

\* Seeded fault: the children are looked up where their parent was.
ParentParams(call) == call.params

CurrentParams(call) == Get(call.params, request.name[call.element])

PastChild == [calls EXCEPT ![Len(calls)].child = @ + 1]

\* The loop over the children.
SetParams ==
    /\ calls # <<>> /\ IsMap(This.params) /\ This.child <= Len(Children)
    /\ LET child == Children[This.child] IN
       /\ calls' = Append(PastChild, Call(child, CurrentParams(This)))
       /\ visited' = visited \cup {child}
    /\ UNCHANGED <<request, text>>

\* A leaf takes a string and nothing else.
SetText ==
    /\ calls # <<>> /\ IsMap(This.params) /\ Children = <<>>
    /\ text' = IF IsText(CurrentParams(This))
               THEN [text EXCEPT ![This.element] = CurrentParams(This).text] ELSE text
    /\ calls' = Front(calls)
    /\ UNCHANGED <<request, visited>>

\* Nothing is done without a map.
Return ==
    /\ calls # <<>>
    /\ IsMap(This.params) => Children # <<>> /\ This.child > Len(Children)
    /\ calls' = Front(calls)
    /\ UNCHANGED <<request, text, visited>>

Next == SetParams \/ SetText \/ Return

Spec == Init /\ [][Next]_fillvars

-----------------------------------------------------------------------------
(* Properties                                                              *)

(* Each leaf of the request holds the string found in the parameters under *)
(* the names on the way to it, and what the template had there if there is *)
(* no string; nothing else of the template changes.                        *)
FilledByPath ==
    calls = <<>> =>
        \A e \in request.elements :
            text[e] = IF request.kids[e] = <<>> /\ IsText(request.value[e])
                      THEN request.value[e].text ELSE request.text[e]
=============================================================================
