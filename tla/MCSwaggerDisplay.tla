-------------------------- MODULE MCSwaggerDisplay --------------------------
(***************************************************************************)
(* Responses to four codes, two of them of a success, in two views, of two *)
(* models, one without a sample; signatures of three models of up to two   *)
(* fields or arrays, and a name of none; every well-formed document of up  *)
(* to six tokens; samples of every pair of models of up to two fields, and *)
(* of every three whose fields are of models and no lists.                 *)
(***************************************************************************)
EXTENDS SwaggerDisplay, FiniteSets

ThreeModels  == {"A", "B", "C"}
TwoModels    == {"A", "B"}
OneThrowing  == {"B"}
OneUndefined == {"D"}
FourCodes    == {"200", "202", "default", "404"}

FieldLists     == UNION {[1..n -> ThreeModels \cup OneUndefined] : n \in 0..2}
AllKinds       == [kind : {"object"}, refs : FieldLists] \cup {[kind |-> "array", refs |-> <<>>]}
AllDefinitions == [ThreeModels -> AllKinds]

AnObject(fields) == [kind |-> "object", fields |-> fields, items |-> ""]
AnArray(items)   == [kind |-> "array", fields |-> <<>>, items |-> items]
UpToTwo(fields)  == UNION {[1..n -> fields] : n \in 0..2}

AllDesigns ==
    LET names  == TwoModels \cup OneUndefined \cup {""}
        pairs  == {AnObject(f) : f \in UpToTwo([ref : names, list : BOOLEAN])}
                  \cup {AnArray(i) : i \in names}
        threes == {AnObject(f) : f \in UpToTwo([ref : ThreeModels, list : {FALSE}])}
                  \cup {AnArray(i) : i \in ThreeModels}
    IN [TwoModels -> pairs] \cup [ThreeModels -> threes]

\* A document starts with its declaration, if any, and all after it is one root.
TokenKinds == {"declaration", "open", "close", "single", "leaf"}

Count(tokens, t, k) == Cardinality({i \in 1..k : tokens[i] = t})
DepthOf(tokens) ==
    [k \in 0..Len(tokens) |-> Count(tokens, "open", k) - Count(tokens, "close", k)]

OneRoot(d) ==
    LET n == Len(d.tokens) IN
    /\ d.depth[n] = 0 /\ d.tokens[n] # "declaration"
    /\ \A k \in 1..n - 1 : \/ d.depth[k] > 0 /\ d.tokens[k] # "declaration"
                           \/ k = 1 /\ d.tokens[1] = "declaration"
ShortDocuments ==
    {d \in {[tokens |-> s, depth |-> DepthOf(s)] : s \in UNION {[1..n -> TokenKinds] : n \in 1..6}} :
        OneRoot(d)}
=============================================================================
