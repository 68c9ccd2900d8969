--------------------------- MODULE SwaggerSample ----------------------------
(***************************************************************************)
(* The samples of models in the API browser (api-doc/), which operations   *)
(* show for parameters and answers.  Models refer to each other, so that   *)
(* the walk over them carries a list of models to ignore, one object that  *)
(* all calls of a walk change.  (Signatures: SwaggerSignature.)            *)
(***************************************************************************)
EXTENDS Integers, SequencesExt

CONSTANTS
    Designs,    \* what the models of a description may be, by their names
    MaxDepth    \* depth of calls that only an endless recursion reaches

VARIABLES
    input,  \* the description of models
    shown   \* what the page shows of it

vars == <<input, shown>>

\* A field is of a primitive type (ref = "") or of a model, and may be a list.
\* A model of Swagger 2.0 may be an array: of a model or of a primitive type.
FieldOf(names) == [ref : names \cup {""}, list : BOOLEAN]

DesignsOK ==
    /\ MaxDepth \in Nat
    /\ \A defs \in Designs : \A m \in DOMAIN defs :
          /\ m # "" /\ defs[m].kind \in {"object", "array"} /\ defs[m].items \in STRING
          /\ \A k \in DOMAIN defs[m].fields : defs[m].fields[k] \in FieldOf(STRING)

\* Values of a sample.
Primitive      == <<"primitive">>
Name(m)        == <<"name", m>>
List(v)        == <<"list", v>>
Sampled(vs)    == <<"object", vs>>
Wrapped(f, v)  == IF f.list THEN List(v) ELSE v

-----------------------------------------------------------------------------
(* Swagger 2.0: a call returns its value, the models to ignore after it,   *)
(* and whether it ended, threw or went on for ever.                        *)

Ends(v, ignored)    == [value |-> v, ignored |-> ignored, end |-> "returns"]
Stops(why, ignored) == [value |-> Primitive, ignored |-> ignored, end |-> why]

RECURSIVE GetSampleValue(_, _, _, _)

\* Property.sampleValue, after the fields before it.  What was represented in
\* the same object is returned as it is, list or not.
SampleValue(defs, f, object, depth) ==
    LET call == GetSampleValue(defs, f.ref, object.ignored \cup {f.ref}, depth)
        Add(v, ignored, as) ==
            [object EXCEPT !.values = Append(@, v), !.ignored = ignored, !.as = as]
        represented == {r \in object.as : r.model = f.ref}
    IN CASE object.end # "returns" -> object
         [] f.ref = "" ->
              Add(Wrapped(f, Primitive), object.ignored, object.as)
         [] represented # {} ->
              Add((CHOOSE r \in represented : TRUE).value, object.ignored, object.as)
         [] f.ref # "" /\ represented = {} /\ f.ref \in DOMAIN defs \ object.ignored ->
              [Add(Wrapped(f, call.value), call.ignored,
                   object.as \cup {[model |-> f.ref, value |-> call.value]})
               EXCEPT !.end = call.end]
         [] OTHER ->
              Add(Wrapped(f, Name(f.ref)), object.ignored \cup {f.ref}, object.as)

\* The loop over the properties of createJSONSample and of getSampleValue.
SampleOf(defs, m, ignored, depth) ==
    LET object == FoldLeft(LAMBDA o, f : SampleValue(defs, f, o, depth),
                           [values |-> <<>>, ignored |-> ignored, as |-> {},
                            end |-> "returns"],
                           defs[m].fields)
    IN [value |-> Sampled(object.values), ignored |-> object.ignored, end |-> object.end]

\* Seeded fault: the items of an array are walked with a list of their own.
OwnList(ignored) == {}

\* ArrayModel.getSampleValue: the items are walked with the list as it is.
PassedOn(ignored) == ignored

\* Model.getSampleValue, ArrayModel.getSampleValue: the latter adds nothing to
\* the list, and of a primitive type it returns the undeclared variable `type`.
GetSampleValue(defs, m, ignored, depth) ==
    IF depth = 0 THEN Stops("never", ignored)
    ELSE IF m \notin DOMAIN defs THEN Stops("throws", ignored)
    ELSE IF defs[m].kind = "object" THEN SampleOf(defs, m, ignored, depth - 1)
    ELSE IF defs[m].items = "" THEN Stops("throws", ignored)
    ELSE LET item == GetSampleValue(defs, defs[m].items, PassedOn(ignored), depth - 1)
         IN [item EXCEPT !.value = List(@)]

RECURSIVE CreateJSONSample(_, _, _, _)

\* Model.createJSONSample, ArrayModel.createJSONSample.
CreateJSONSample(defs, m, ignored, depth) ==
    IF m \notin DOMAIN defs THEN Stops("throws", ignored)
    ELSE IF defs[m].kind = "object" THEN SampleOf(defs, m, ignored \cup {m}, depth)
    ELSE LET items == defs[m].items
             item  == CreateJSONSample(defs, items, ignored \cup {items}, depth)
         IN CASE items = "" -> Ends(List(Primitive), ignored)
              [] items # "" /\ items \in ignored -> Ends(Name(items), ignored)
              [] OTHER -> [item EXCEPT !.value = List(@)]

-----------------------------------------------------------------------------
(* Swagger 1.x: the models to ignore are a list, used as a stack.          *)

RECURSIVE CreateJSONSample1(_, _, _)

\* SwaggerModelProperty.getSampleValue.
SampleValue1(defs, f, object) ==
    LET call == CreateJSONSample1(defs, f.ref, object.ignored)
    IN IF f.ref \in DOMAIN defs /\ ~Contains(object.ignored, f.ref)
       THEN [values |-> Append(object.values, Wrapped(f, call.value)),
             ignored |-> call.ignored]
       ELSE [object EXCEPT !.values =
                Append(@, Wrapped(f, IF f.ref = "" THEN Primitive ELSE Name(f.ref)))]

\* Seeded fault: the model stays on the stack.
Unpopped(stack) == stack

Popped(stack) == Front(stack)

\* SwaggerModel.createJSONSample.
CreateJSONSample1(defs, m, ignored) ==
    LET object == FoldLeft(LAMBDA o, f : SampleValue1(defs, f, o),
                           [values |-> <<>>, ignored |-> Append(ignored, m)],
                           defs[m].fields)
    IN [value |-> Sampled(object.values), ignored |-> Popped(object.ignored)]

-----------------------------------------------------------------------------
(* One input, one sample.                                                  *)

NotShown == [done |-> FALSE]

\* Version 1.x has no models that are arrays.
Inputs ==
    \E defs \in Designs : \E m \in DOMAIN defs :
        \/ input = [kind |-> "2.0", defs |-> defs, model |-> m]
        \/ /\ \A n \in DOMAIN defs : defs[n].kind = "object"
           /\ input = [kind |-> "1.x", defs |-> defs, model |-> m]

Init == Inputs /\ shown = NotShown

\* Operation.getModelSampleJSON.
Show2 ==
    /\ input.kind = "2.0" /\ shown = NotShown
    /\ LET sample == CreateJSONSample(input.defs, input.model, {}, MaxDepth)
       IN shown' = [done |-> TRUE, sample |-> sample.value, end |-> sample.end]

\* SwaggerOperation.getSampleJSON.
Show1 ==
    /\ input.kind = "1.x" /\ shown = NotShown
    /\ shown' = [done |-> TRUE, end |-> "returns",
                 sample |-> CreateJSONSample1(input.defs, input.model, <<>>).value]

Next == /\ Show2 \/ Show1
        /\ UNCHANGED input

Spec == Init /\ [][Next]_vars

-----------------------------------------------------------------------------
(* Properties                                                              *)

\* The models a walk over the fields of objects comes to.
Step(defs, ms) ==
    ms \cup {n \in DOMAIN defs : \E m \in ms : \E k \in DOMAIN defs[m].fields :
                                      defs[m].fields[k].ref = n}
Reached(defs, m) == FoldLeft(LAMBDA ms, k : Step(defs, ms), {m},
                             [k \in 1..Cardinality(DOMAIN defs) |-> k])

\* The items of an array, of their items if these are an array, and so on, end
\* at an object.
RECURSIVE EndsAtObject(_, _, _)
EndsAtObject(defs, m, depth) ==
    /\ depth > 0 /\ m \in DOMAIN defs
    /\ defs[m].kind = "array" => EndsAtObject(defs, defs[m].items, depth - 1)

IsName(v) == v[1] = "name"

\* What a sample says of the fields, a list being shown without brackets if an
\* earlier field of the same object shows its model with its fields.
Brackets(fields, vs, k) ==
    /\ fields[k].list
    /\ \A j \in 1..k - 1 :
          \/ fields[j].ref = "" \/ fields[j].ref # fields[k].ref
          \/ vs[j] \in {Name(fields[j].ref), List(Name(fields[j].ref))}
Shown(fields, vs, k) == IF Brackets(fields, vs, k) THEN vs[k][2] ELSE vs[k]

\* v has the shape of m, but for the models shown by their names.
RECURSIVE Fits(_, _, _)
Fits(defs, m, v) ==
    LET fields == defs[m].fields
    IN IF defs[m].kind = "object"
       THEN /\ v[1] = "object" /\ DOMAIN v[2] = DOMAIN fields
            /\ \A k \in DOMAIN fields :
                  LET ref == fields[k].ref
                      w   == Shown(fields, v[2], k)
                  IN /\ Brackets(fields, v[2], k) => v[2][k][1] = "list"
                     /\ CASE ref = "" -> w = Primitive
                          [] ref # "" /\ IsName(w) -> w = Name(ref)
                          [] OTHER -> ref \in DOMAIN defs /\ Fits(defs, ref, w)
       ELSE v[1] = "list" /\ (defs[m].items # "" => Fits(defs, defs[m].items, v[2]))

\* The models a sample shows, from its first line to its last, each with its
\* fields or by its name.
RECURSIVE Lines(_, _, _)
Lines(defs, m, v) ==
    LET fields == defs[m].fields
        LinesOf(k) ==
            LET ref == fields[k].ref
                w   == Shown(fields, v[2], k)
            IN CASE ref = "" -> <<>>
                 [] ref # "" /\ IsName(w) -> <<[model |-> ref, inFull |-> FALSE]>>
                 [] OTHER -> Lines(defs, ref, w)
    IN <<[model |-> m, inFull |-> TRUE]>>
       \o IF defs[m].kind = "object" THEN FlattenSeq([k \in DOMAIN fields |-> LinesOf(k)])
          ELSE IF defs[m].items = "" THEN <<>> ELSE Lines(defs, defs[m].items, v[2])

\* A name stands for a model that nothing defines, or for one whose fields the
\* sample has begun to show before.
NamesShown(defs, m, v) ==
    LET lines == Lines(defs, m, v)
    IN \A k \in DOMAIN lines :
           \/ lines[k].inFull \/ lines[k].model \notin DOMAIN defs
           \/ \E j \in 1..k - 1 : lines[j] = [lines[k] EXCEPT !.inFull = TRUE]

\* The sample 1.x should have: every reference unfolded but to the models on
\* the way to it.
RECURSIVE Unfolded(_, _, _)
Unfolded(defs, m, way) ==
    Sampled([k \in DOMAIN defs[m].fields |->
        LET f == defs[m].fields[k]
        IN Wrapped(f, IF f.ref = "" THEN Primitive
                      ELSE IF f.ref \in DOMAIN defs \ (way \cup {m})
                      THEN Unfolded(defs, f.ref, way \cup {m}) ELSE Name(f.ref))])

\* In 1.x a sample is the unfolding of its model up to cycles, however models
\* refer to each other: SwaggerModel pops what it pushed.
SampleUnfolds ==
    shown.done /\ input.kind = "1.x" =>
        shown.sample = Unfolded(input.defs, input.model, {})

\* In 2.0 the sample of a model is made however models refer to each other, and
\* has its shape, each field in its place.  Three things are lost.  The list of
\* models to ignore is not restored on the way back, so a model is shown with
\* its fields where the sample comes to it first, and elsewhere by its name, on
\* a cycle or not; a list whose model an earlier field of the same object shows
\* is shown without brackets; and no sample is made if a field leads to arrays
\* whose items do not end at an object.
SampleHasShape ==
    LET defs == input.defs
        m    == input.model
    IN /\ shown.done /\ input.kind = "2.0" /\ defs[m].kind = "object"
       /\ \A n \in Reached(defs, m) : EndsAtObject(defs, n, 1 + Cardinality(DOMAIN defs))
       => /\ shown.end = "returns" /\ Fits(defs, m, shown.sample)
          /\ NamesShown(defs, m, shown.sample)
=============================================================================
