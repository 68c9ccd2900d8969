--------------------------- MODULE MCMessageBody ----------------------------
(***************************************************************************)
(* Requests with templates of two names and up to three levels and with    *)
(* parameters of all kinds; replies of two names and up to three levels,   *)
(* short ones of all kinds of children and longer ones of a few.  An       *)
(* element is written [name, text, kids]; those of a request or reply are  *)
(* its paths in it.                                                        *)
(***************************************************************************)
EXTENDS MessageBody, SequencesExt, FiniteSets

AB == {"a", "b"}

Leaf(n, t)  == [name |-> n, text |-> t, kids |-> <<>>]
Node(n, cs) == [name |-> n, text |-> "", kids |-> cs]
Body(cs)    == Node("body", cs)

UpTo(S, n) == UNION {[1..k -> S] : k \in 0..n}
Some(S, n) == UpTo(S, n) \ {<<>>}

RECURSIVE PathsOf(_)
PathsOf(e) == {<<>>} \cup UNION {{<<i>> \o p : p \in PathsOf(e.kids[i])} : i \in DOMAIN e.kids}

RECURSIVE At(_, _)
At(e, p) == IF p = <<>> THEN e ELSE At(e.kids[Head(p)], Tail(p))

KidsOf(e) == [p \in PathsOf(e) |-> [i \in DOMAIN At(e, p).kids |-> Append(p, i)]]
NameOf(e) == [p \in PathsOf(e) |-> At(e, p).name]
TextOf(e) == [p \in PathsOf(e) |-> At(e, p).text]

-----------------------------------------------------------------------------
(* Requests                                                                *)

NoText == [null |-> TRUE]
Found(v, n) == IF "map" \in DOMAIN v /\ n \in DOMAIN v.map THEN v.map[n] ELSE NoText

RECURSIVE ValueAt(_, _, _)
ValueAt(v, e, p) == IF p = <<>> THEN Found(v, e.name)
                    ELSE ValueAt(Found(v, e.name), e.kids[Head(p)], Tail(p))

RequestOf(e, v) ==
    [elements |-> PathsOf(e), root |-> <<>>, params |-> v,
     kids  |-> KidsOf(e), name |-> NameOf(e), text |-> TextOf(e),
     value |-> [p \in PathsOf(e) |-> ValueAt(v, e, p)]]

Blanks == {Leaf(n, "?") : n \in AB}
Parts  == Blanks \cup {Node(n, cs) : n \in AB, cs \in Some(Blanks, 2)}

Templates == {Leaf("body", "?")} \cup {Body(cs) : cs \in Some(Parts, 2)}
             \cup {Body(<<Node("a", <<k>>)>>) : k \in Parts}

Text(s)   == [text |-> s]
Map(f)    == [map |-> f]
MapsTo(S) == {Map(f) : f \in UNION {[D -> S] : D \in SUBSET AB}}

Values == {Text("u"), NoText} \cup MapsTo({Text("v"), NoText})

AllParams == {NoText, Text("u"), Map([n \in {"body"} |-> Text("u")])}
             \cup {Map([n \in {"body"} |-> v]) : v \in MapsTo(Values)}

ManyBodies == {RequestOf(e, v) : e \in Templates, v \in AllParams}

-----------------------------------------------------------------------------
(* Replies                                                                 *)

\* What JSONObject.put makes of a text: a value if it is JSON, else a string.
Read(t) == IF t = "[]" THEN [list |-> <<>>] ELSE [string |-> t]

\* The children of e named n, their texts and those with children only.
Named(e, n) == SelectSeq([i \in DOMAIN e.kids |-> i], LAMBDA i : e.kids[i].name = n)
Texts(e, n) == SelectSeq(Named(e, n), LAMBDA i : e.kids[i].text # "")
Nodes(e, n) == SelectSeq(Named(e, n),
                         LAMBDA i : e.kids[i].text = "" /\ e.kids[i].kids # <<>>)

RECURSIVE JsonAt(_)
JsonAt(e) ==
    LET Of(n) == IF Texts(e, n) # <<>> THEN Text(Read(e.kids[Last(Texts(e, n))].text))
                 ELSE IF Len(Nodes(e, n)) = 1 THEN JsonAt(e.kids[Nodes(e, n)[1]])
                 ELSE [list |-> [j \in DOMAIN Nodes(e, n) |-> JsonAt(e.kids[Nodes(e, n)[j]])]]
    IN Map([n \in {n \in AB : Texts(e, n) \o Nodes(e, n) # <<>>} |-> Of(n)])

ReplyOf(e) ==
    LET paths == PathsOf(e)
        names == AB \cup {"body"}
    IN [elements |-> paths, root |-> <<>>, names |-> names,
        kids  |-> KidsOf(e), name |-> NameOf(e), text |-> TextOf(e),
        order |-> [p \in paths |-> [n \in names |-> Nodes(At(e, p), n)]],
        read  |-> [p \in paths |-> Read(At(e, p).text)],
        json  |-> [p \in paths |-> JsonAt(At(e, p))]]

Ends == {Leaf(n, t) : n \in AB, t \in {"", "?"}}

\* empty, textual, with children, mixed
Kids == Ends \cup {Node(n, cs) : n \in AB, cs \in Some(Ends, 2)}
              \cup {[name |-> "a", text |-> "t", kids |-> <<Leaf("a", "?")>>]}

FewKids == {Leaf("a", "?"), Leaf("a", "[]"), Leaf("a", ""), Leaf("b", "?"),
            Node("a", <<Leaf("a", "y")>>), Node("a", <<Leaf("b", "z")>>),
            Node("b", <<Leaf("a", "?")>>)}

ManyReplies == {ReplyOf(Body(cs)) : cs \in UpTo(Kids, 1) \cup UpTo(FewKids, 3)}
               \cup {ReplyOf(Body(<<Node("b", cs), Node("b", cs)>>)) : cs \in Some(FewKids, 2)}
=============================================================================
