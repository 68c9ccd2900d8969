-------------------------- MODULE SwaggerResponses ---------------------------
(***************************************************************************)
(* The responses of an operation of Swagger 2.0 in the API browser         *)
(* (api-doc/): the constructor of Operation (lib/swagger-client.js) takes  *)
(* the first success out of the responses of the description - the object  *)
(* itself, which all views of the operation read - to show it as the       *)
(* response class; each OperationView (swagger-ui.js), one for each tag,   *)
(* renders that and a row for every response that is left.                 *)
(***************************************************************************)
EXTENDS Integers, Sequences

CONSTANTS
    Models,     \* names of models that are defined
    Undefined,  \* names that are referred to only
    Throwing,   \* models whose sample cannot be made: one that leads to an array
                \* of a type, or of nothing defined, throws (SwaggerSample)
    Codes,      \* codes of responses
    MaxViews    \* bound: views of an operation

NamesOK ==
    Models \cap Undefined = {} /\ Throwing \subseteq Models /\ MaxViews \in Nat

\* A response has no schema, a reference, an array of a model or of another
\* type, or another schema.
Schemas == [kind : {"reference", "array"}, of : Models \cup Undefined]
           \cup [kind : {"none", "array", "other"}, of : {"type"}]

HasSchema(s) == s.kind # "none"

VARIABLES
    described,  \* the responses as they were fetched
    responses,  \* what the description has of them
    success,    \* successResponse: a code and what it has, or nothing
    views       \* what each view of the operation shows

rspvars == <<described, responses, success, views>>

Unbuilt == <<"unbuilt">>

Init ==
    /\ \E codes \in SUBSET Codes : described \in [codes -> Schemas]
    /\ responses = described /\ success = Unbuilt /\ views = <<>>

-----------------------------------------------------------------------------
(* Operation                                                               *)

SuccessCodes == <<"200", "201", "202", "203", "204", "205", "206", "default">>

\* The chain of conditions: the first code of a success that is described.
DefaultResponse(code) ==
    \E k \in DOMAIN SuccessCodes :
        /\ code = SuccessCodes[k] /\ code \in DOMAIN described
        /\ \A j \in 1..k - 1 : SuccessCodes[j] \notin DOMAIN described

Signature(name) == [as |-> "signature", of |-> name]
Type(name)      == [as |-> "type", of |-> name]

\* The model of a reference that is defined, an array with its items, or the
\* type of the schema.
ResolveModel(s) ==
    CASE s.kind = "reference" /\ s.of \in Models -> Signature(s.of)
      [] s.kind = "array" -> [as |-> "array", of |-> s.of]
      [] OTHER -> Type(s.of)

\* Seeded fault: the response class stays among the others.
Undeleted(code) == responses

Deleted(code) == [c \in DOMAIN responses \ {code} |-> responses[c]]

\* Operation; without a schema nothing is taken out.
Operation ==
    /\ success = Unbuilt
    /\ \/ \E code \in DOMAIN described :
             /\ DefaultResponse(code) /\ HasSchema(described[code])
             /\ success' = <<code, ResolveModel(described[code])>>
             /\ responses' = Deleted(code)
       \/ /\ \A code \in DOMAIN described :
                DefaultResponse(code) => ~HasSchema(described[code])
          /\ success' = <<>> /\ UNCHANGED responses
    /\ UNCHANGED <<described, views>>

-----------------------------------------------------------------------------
(* OperationView.render                                                    *)

\* StatusCodeView.render: only a schema that is a reference is looked up.
StatusCode(s) ==
    IF s.kind = "reference" /\ s.of \in Models THEN Signature(s.of) ELSE Type("type")

\* The sample of the response class: of its model, or of the items of an array.
ClassThrows ==
    success # <<>> /\ \/ success[2].as = "signature" /\ success[2].of \in Throwing
                      \/ success[2].as = "array" /\ success[2].of \in Throwing \cup Undefined

\* StatusCodeView.render makes the sample of the model it shows.
RowThrows(s) == s.kind = "reference" /\ s.of \in Throwing

RenderThrows == ClassThrows \/ \E c \in DOMAIN responses : RowThrows(responses[c])

NoView == [throws |-> TRUE, class |-> <<>>, messages |-> <<>>]

\* A view that cannot be rendered is not added to the page, and nothing after it.
AddOperation ==
    /\ success # Unbuilt /\ Len(views) < MaxViews
    /\ \A k \in DOMAIN views : ~views[k].throws
    /\ views' = Append(views,
           IF RenderThrows THEN NoView
           ELSE [throws |-> FALSE, class |-> success,
                 messages |-> [c \in DOMAIN responses |-> StatusCode(responses[c])]])
    /\ UNCHANGED <<described, responses, success>>

Next == Operation \/ AddOperation

Spec == Init /\ [][Next]_rspvars

-----------------------------------------------------------------------------
(* Properties                                                              *)

(* Every view of an operation shows each response of the description once, *)
(* although the first view is rendered from what the constructor has left: *)
(* the first success, if it has a schema, as the response class, the       *)
(* others by their codes, with the signature of a model that is defined.   *)
(* All of an operation is missing, and there is no second view of it,      *)
(* exactly if a sample the view needs cannot be made: that of the response *)
(* class, be it a model or an array, or that of a model any other response *)
(* refers to.                                                              *)
ResponsesShownOnce ==
    \A k \in DOMAIN views :
        LET view  == views[k]
            Class(code) == DefaultResponse(code) /\ HasSchema(described[code])
            NoSample(code) ==
                \/ described[code] \in [kind : {"reference"}, of : Throwing]
                \/ /\ Class(code)
                   /\ described[code] \in [kind : {"array"}, of : Throwing \cup Undefined]
        IN /\ view.throws <=> \E code \in DOMAIN described : NoSample(code)
           /\ view.throws => Len(views) = 1
           /\ ~view.throws =>
                /\ DOMAIN view.messages \subseteq DOMAIN described
                /\ view.class # <<>> => view.class[1] \in DOMAIN described
                /\ \A code \in DOMAIN described :
                      LET model == described[code] \in [kind : {"reference"}, of : Models]
                      IN IF Class(code)
                         THEN /\ view.class # <<>> /\ view.class[1] = code
                              /\ code \notin DOMAIN view.messages
                              /\ model => view.class[2] = Signature(described[code].of)
                         ELSE /\ view.class # <<>> => view.class[1] # code
                              /\ code \in DOMAIN view.messages
                              /\ model => view.messages[code] = Signature(described[code].of)

=============================================================================
