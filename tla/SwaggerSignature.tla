-------------------------- MODULE SwaggerSignature ---------------------------
(***************************************************************************)
(* The signature of a model in the API browser (api-doc/lib/               *)
(* swagger-client.js): getMockSignature describes a model, then those its  *)
(* fields refer to, each with theirs.  All calls of a walk share one list  *)
(* of the models described so far, which are ignored when a field refers   *)
(* to them again.  Swagger 1.x has objects only, 2.0 arrays as well.       *)
(*                                                                         *)
(* One action is one turn of the loop over the fields of a model, or the   *)
(* end of a call; the calls that have not ended are on a stack.            *)
(***************************************************************************)
EXTENDS Integers, Sequences, SequencesExt

CONSTANTS
    Models,       \* names of models that are defined
    Definitions   \* what the models may be

\* The names an object's fields refer to, in order, those of no model included;
\* an array has no fields.
DefinitionType(d) ==
    /\ d.kind \in {"object", "array"} /\ d.refs \in Seq(Range(d.refs))
    /\ d.kind = "array" => d.refs = <<>>

DefinitionsOK == \A ds \in Definitions : /\ DOMAIN ds = Models
                                         /\ \A m \in Models : DefinitionType(ds[m])

VARIABLES
    defs,      \* the global `models`
    root,      \* the model whose signature is asked for
    listed,    \* the models described, in order: modelsToIgnore
    calls      \* calls of getMockSignature: a model and the field it is at

sigvars == <<defs, root, listed, calls>>

Init == /\ defs \in Definitions /\ root \in Models
        /\ listed = <<>> /\ calls = <<>>

\* A model is ignored by the name it has itself: every array is "arrayModel".
OwnName(m) == IF defs[m].kind = "array" THEN <<"arrayModel">> ELSE <<"model", m>>

\* Seeded fault: the models to ignore are those on the way to this one.
IgnoredOnPath(m) ==
    m \in Models => \E k \in DOMAIN calls : OwnName(calls[k].model) = OwnName(m)

Ignored(m) ==
    m \in Models => \E k \in DOMAIN listed : OwnName(listed[k]) = OwnName(m)

\* A call describes its model and begins with the first field.
GetMockSignature(m, outer) ==
    /\ listed' = Append(listed, m)
    /\ calls' = Append(outer, [model |-> m, field |-> 1])

Ask == /\ listed = <<>> /\ GetMockSignature(root, <<>>)
       /\ UNCHANGED <<defs, root>>

Fields == defs[Last(calls).model].refs

\* The call at the end of the stack, once it is past its field.
PastField == [calls EXCEPT ![Len(calls)].field = @ + 1]

Describe ==
    /\ calls # <<>> /\ Last(calls).field <= Len(Fields)
    /\ LET ref == Fields[Last(calls).field] IN
       \/ Ignored(ref) /\ calls' = PastField /\ UNCHANGED listed
       \/ ~Ignored(ref) /\ GetMockSignature(ref, PastField)
    /\ UNCHANGED <<defs, root>>

Return == /\ calls # <<>> /\ Last(calls).field > Len(Fields)
          /\ calls' = Front(calls)
          /\ UNCHANGED <<defs, root, listed>>

Next == Ask \/ Describe \/ Return

Spec == Init /\ [][Next]_sigvars

-----------------------------------------------------------------------------
(* Properties                                                              *)

RefersOnlyTo(m, S) == \A k \in DOMAIN defs[m].refs :
                         defs[m].refs[k] \in Models => defs[m].refs[k] \in S

\* What the fields of the root come to, directly or not.
Reached == {m \in Models : \A S \in SUBSET Models :
               root \in S /\ (\A n \in S : RefersOnlyTo(n, S)) => m \in S}

Arrays == {m \in Reached : defs[m].kind = "array"}

Described == {listed[k] : k \in DOMAIN listed}

(* The signature describes every model it comes to exactly once, however   *)
(* they refer to each other, and no other; of the arrays of 2.0 only the   *)
(* first, as they share the name "arrayModel".                             *)
SignatureDescribesOnce ==
    /\ \A j, k \in DOMAIN listed : OwnName(listed[j]) = OwnName(listed[k]) => j = k
    /\ Described \subseteq Reached
    /\ listed # <<>> /\ calls = <<>> =>
          /\ Reached \ Arrays \subseteq Described
          /\ Arrays # {} => Arrays \cap Described # {}
=============================================================================
