----------------------------- MODULE MessageJson -----------------------------
(***************************************************************************)
(* The reply to a process request (wso2bpel-mgr): iterateElement of        *)
(* Xml2JsonUtil.java turns the elements of the reply into maps of JSON,    *)
(* calling itself for every child with children.                           *)
(*                                                                         *)
(* A JSON value is [map |-> function of names], [list |-> sequence] or     *)
(* [text |-> what was read of a text].  The texts are put into the maps as *)
(* they are; the last put, of JSONObject, goes through all of them and     *)
(* parses each that is JSON itself.  No step looks into a text in between, *)
(* so an entry holds from the start what will be read.  One action is a    *)
(* turn of the loop over the children or the end of a call; the calls that *)
(* have not ended are on a stack.                                          *)
(***************************************************************************)
EXTENDS Integers, Sequences, SequencesExt

CONSTANT Replies

IsMap(v)  == "map" \in DOMAIN v
IsList(v) == "list" \in DOMAIN v

EmptyMap == [n \in {} |-> {}]
JsonOf(map) == [map |-> map]

-----------------------------------------------------------------------------
(* What the children of an element come to: the reference                  *)

\* The children of e named n with a text, and those with children only.
TextsOf(r, e, n) == {i \in DOMAIN r.kids[e] : LET c == r.kids[e][i] IN
                        r.name[c] = n /\ r.text[c] # ""}
NodesOf(r, e, n) == {i \in DOMAIN r.kids[e] : LET c == r.kids[e][i] IN
                        r.name[c] = n /\ r.text[c] = "" /\ r.kids[c] # <<>>}

\* Of the children before the k-th, the m first of `order` have children only:
\* alone, such a child is its JSON, together they are a list.
NodeValue(r, e, order, m) ==
    LET Json(j) == r.json[r.kids[e][order[j]]]
    IN IF m = 1 THEN Json(1) ELSE [list |-> [j \in 1..m |-> Json(j)]]

\* Of the children named n before the k-th the last text remains, and hides
\* those which have children.
FromText(r, e, k, n, v) ==
    \E i \in TextsOf(r, e, n) :
       /\ i < k /\ \A j \in TextsOf(r, e, n) : j < k => j <= i
       /\ v = [text |-> r.read[r.kids[e][i]]]

FromNodes(r, e, k, n, v) ==
    /\ \A i \in TextsOf(r, e, n) : i >= k
    /\ \E m \in DOMAIN r.order[e][n] :
          /\ \A j \in DOMAIN r.order[e][n] : r.order[e][n][j] < k <=> j <= m
          /\ v = NodeValue(r, e, r.order[e][n], m)

NamesIn(r, e, k) == {n \in r.names : \E i \in TextsOf(r, e, n) \cup NodesOf(r, e, n) : i < k}

\* map is made of the children of e before the k-th.
MadeOf(r, e, k, map) ==
    /\ map = [n \in NamesIn(r, e, k) |-> map[n]]
    /\ \A n \in NamesIn(r, e, k) : \/ FromText(r, e, k, n, map[n])
                                 \/ FromNodes(r, e, k, n, map[n])

\* A reply: its elements, each with its children, name, text and what the put of
\* json-lib reads the text as; and, to compare with, its JSON and for each name
\* the children that have only children.
WellFormed(r) ==
    /\ r.root \in r.elements /\ r.kids \in [r.elements -> Seq(r.elements)]
    /\ r.name \in [r.elements -> r.names]
    /\ DOMAIN r.text = r.elements /\ DOMAIN r.read = r.elements
    /\ \A e \in r.elements : \A n \in r.names :
          LET order == r.order[e][n] IN
          /\ order \in Seq(NodesOf(r, e, n))
          /\ \A i \in NodesOf(r, e, n) : \E j \in DOMAIN order : order[j] = i
          /\ \A i, j \in DOMAIN order : i < j => order[i] < order[j]
    /\ \A e \in r.elements : /\ r.json[e] = JsonOf(r.json[e].map)
                             /\ MadeOf(r, e, Len(r.kids[e]) + 1, r.json[e].map)

RepliesOK == \A r \in Replies : WellFormed(r)

-----------------------------------------------------------------------------

VARIABLES
    reply,
    calls,     \* calls of iterateElement: an element, the child it is at, its map
    response   \* what the caller of xml2JSON gets

jsonvars == <<reply, calls, response>>

NoResponse == <<>>

Call(e) == [element |-> e, child |-> 1, map |-> EmptyMap]

Init == /\ reply \in Replies
        /\ calls = <<Call(reply.root)>> /\ response = NoResponse

This     == Last(calls)
Children == reply.kids[This.element]
Child    == Children[This.child]
Name     == reply.name[Child]

Put(map, n, v) == [k \in DOMAIN map \cup {n} |-> IF k = n THEN v ELSE map[k]]

\* Seeded fault: an element of a name seen before replaces the first.
AddReplacing(map, n, v) == Put(map, n, v)

\* A child with children joins the map, a list of two, or the list there is.
Add(map, n, v) ==
    IF n \notin DOMAIN map THEN Put(map, n, v)
    ELSE IF IsMap(map[n])  THEN Put(map, n, [list |-> <<map[n], v>>])
    ELSE Put(map, n, [list |-> Append(map[n].list, v)])

\* The call at the end of cs has its child done, and a map.
DoneWith(cs, map) == [cs EXCEPT ![Len(cs)] = [Last(cs) EXCEPT !.child = @ + 1, !.map = map]]

InLoop == calls # <<>> /\ This.child <= Len(Children)

\* Next to a text of its name a child with children is dropped.
Dropped == /\ Name \in DOMAIN This.map
           /\ ~IsMap(This.map[Name]) /\ ~IsList(This.map[Name])

PutText ==
    /\ InLoop /\ reply.text[Child] # ""
    /\ calls' = DoneWith(calls, Put(This.map, Name, [text |-> reply.read[Child]]))
    /\ UNCHANGED <<reply, response>>

Skip ==
    /\ InLoop /\ reply.text[Child] = ""
    /\ reply.kids[Child] = <<>> \/ Dropped
    /\ calls' = DoneWith(calls, This.map)
    /\ UNCHANGED <<reply, response>>

IterateElement ==
    /\ InLoop /\ reply.text[Child] = ""
    /\ reply.kids[Child] # <<>> /\ ~Dropped
    /\ calls' = Append(calls, Call(Child))
    /\ UNCHANGED <<reply, response>>

\* The map of a call joins that of the call it was made by.
Return ==
    /\ Len(calls) > 1 /\ This.child > Len(Children)
    /\ LET below == Front(calls)
           map   == Add(Last(below).map, reply.name[This.element], JsonOf(This.map))
       IN calls' = DoneWith(below, map)
    /\ UNCHANGED <<reply, response>>

Xml2Json ==
    /\ Len(calls) = 1 /\ This.child > Len(Children)
    /\ response' = JsonOf([n \in {reply.name[This.element]} |-> JsonOf(This.map)])
    /\ calls' = <<>>
    /\ UNCHANGED reply

Next == PutText \/ Skip \/ IterateElement \/ Return \/ Xml2Json

Spec == Init /\ [][Next]_jsonvars

-----------------------------------------------------------------------------
(* Properties                                                              *)

(* The response has every element with children, in order, at every depth, *)
(* and a list exactly when there are several of one name; of the texts of  *)
(* one name the last remains and hides such elements of that name.         *)
ConvertedAsReferenced ==
    calls = <<>> => response = JsonOf([n \in {reply.name[reply.root]} |-> reply.json[reply.root]])
=============================================================================
