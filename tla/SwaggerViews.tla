---------------------------- MODULE SwaggerViews ----------------------------
(***************************************************************************)
(* What the page of the API browser shows of data: the signature of a      *)
(* model (SwaggerSignature), the responses of an operation                 *)
(* (SwaggerResponses), an answer laid out (SwaggerLayout).  Each is made   *)
(* from its own data and nothing of another, so a behaviour is one of      *)
(* them.                                                                   *)
(***************************************************************************)
EXTENDS Integers, Sequences

CONSTANTS
    Models, Undefined,   \* names of models, and names that are referred to only
    ResponseModels,      \* names of models of responses
    Throwing,            \* those whose sample cannot be made
    ResponseCodes,       \* codes of responses
    MaxViews,            \* bound: views of an operation
    Definitions,         \* what the models of a signature may be
    Documents            \* answers to lay out

VARIABLES
    showing,                                           \* what this shows
    described, responses, success, rendered,           \* of SwaggerResponses
    defs, root, listed, calls,                         \* of SwaggerSignature
    document, at, leafText, indent, lastType, formatted    \* of SwaggerLayout

rspside == <<described, responses, success, rendered>>
sigside == <<defs, root, listed, calls>>
layside == <<document, at, leafText, indent, lastType, formatted>>

viewvars == <<showing, rspside, sigside, layside>>

Rsp    == INSTANCE SwaggerResponses WITH Models <- ResponseModels,
              Codes <- ResponseCodes, views <- rendered
Sig    == INSTANCE SwaggerSignature
Layout == INSTANCE SwaggerLayout WITH text <- leafText

ASSUME ViewsAssumption == Rsp!NamesOK /\ Sig!DefinitionsOK /\ Layout!DocumentsOK

NoResponses == described = <<>> /\ responses = <<>> /\ success = <<>> /\ rendered = <<>>
NoSignature == defs = <<>> /\ root = "" /\ listed = <<>> /\ calls = <<>>
NoLayout    == /\ document = <<>> /\ at = 0 /\ leafText = FALSE
               /\ indent = 0 /\ lastType = "other" /\ formatted = <<>>

ViewsInit ==
    \/ showing = "responses" /\ Rsp!Init    /\ NoSignature /\ NoLayout
    \/ showing = "signature" /\ Sig!Init    /\ NoResponses /\ NoLayout
    \/ showing = "layout"    /\ Layout!Init /\ NoResponses /\ NoSignature

ShowResponses == /\ showing = "responses" /\ Rsp!Next
                 /\ UNCHANGED <<showing, sigside, layside>>
ShowSignature == /\ showing = "signature" /\ Sig!Next
                 /\ UNCHANGED <<showing, rspside, layside>>
ShowLayout    == /\ showing = "layout" /\ Layout!Next
                 /\ UNCHANGED <<showing, rspside, sigside>>

ViewsNext == ShowResponses \/ ShowSignature \/ ShowLayout

ViewsSpec == ViewsInit /\ [][ViewsNext]_viewvars

-----------------------------------------------------------------------------
(* Properties                                                              *)

(* Every view of an operation shows each response once, the first success  *)
(* as the response class (Operation, OperationView.render).                *)
ResponsesShownOnce == showing = "responses" => Rsp!ResponsesShownOnce

(* A signature describes every model it comes to exactly once              *)
(* (getMockSignature).                                                     *)
SignatureDescribesOnce == showing = "signature" => Sig!SignatureDescribesOnce

(* Each line of an XML answer is indented by its depth (formatXml).        *)
IndentIsDepth == showing = "layout" => Layout!IndentIsDepth
=============================================================================
