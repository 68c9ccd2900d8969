----------------------------- MODULE SwaggerCalls ----------------------------
(***************************************************************************)
(* "Try it out" of the API browser (api-doc/): OperationView submits the   *)
(* form of an operation, the client builds the request, one of two HTTP    *)
(* clients sends it - Shred over an XMLHttpRequest that streams, or        *)
(* jQuery - and the view shows what comes back.  A form with a file is     *)
(* sent by the view itself, through jQuery.                                *)
(*                                                                         *)
(* One thread runs everything; the events of the requests come in any      *)
(* order, the user submits while answers are out, adds credentials, and    *)
(* has the page made anew.                                                 *)
(***************************************************************************)
EXTENDS Integers, SequencesExt

CONSTANTS
    MaxSubmissions,  \* bound: submissions
    MaxPages,        \* bound: pages made
    MaxRedirects,    \* bound: redirects a server answers a request with
    Operations,      \* the operations of the page
    Clients,         \* subset of {"shred", "jquery"}
    Keys,            \* credentials the user may add
    QueryKeys,       \* those that are a query parameter
    Codes,           \* status codes a server answers with
    Length           \* parts an answer's body has

\* Parameters are records: where they go, whether they are required, and
\* whether their field is a select, which the form does not check.
OperationType(o) ==
    /\ o.version \in {"1.x", "2.0"} /\ o.security \subseteq STRING
    /\ \A p \in o.params : p.in \in {"path", "query", "header", "body", "form", "file"}
                           /\ p.required \in BOOLEAN /\ p.select \in BOOLEAN

Redirecting == 300

ASSUME CallsAssumption ==
    /\ MaxSubmissions \in Nat \ {0} /\ MaxPages \in Nat \ {0} /\ MaxRedirects \in Nat
    /\ \A o \in Operations : OperationType(o)
    /\ Clients \subseteq {"shred", "jquery"} /\ QueryKeys \subseteq Keys
    /\ Codes \subseteq 200..599 /\ Length \in Nat \ {0}

VARIABLES
    client,      \* the HTTP client of this browser
    authz,       \* SwaggerAuthorizations.authz
    page,        \* pages made so far; the earlier ones are detached
    views,       \* what the view of each operation holds and shows
    requests,    \* sent and not ended
    submitted,   \* submissions so far
    told,        \* history: submissions whose answer a view was given
    abandoned    \* history: those that ended before anything was sent

vars == <<client, authz, page, views, requests, submitted, told, abandoned>>

Submissions == 1..MaxSubmissions
NoUrl       == [id |-> 0, keys |-> {}, hops |-> 0]
NoAnswer    == [id |-> 0, code |-> 0, keys |-> {}, body |-> <<>>, lost |-> FALSE]

\* OperationView as its constructor leaves it; url and answer are what the
\* page shows.  `last` and `crossed` are history: the submission made last, and
\* whether one was made while another was out.
OperationView == [throbber |-> FALSE, invocationUrl |-> NoUrl,
                  url |-> NoUrl, answer |-> NoAnswer, last |-> 0, crossed |-> FALSE]

Init ==
    /\ client \in Clients /\ authz = {}
    /\ page = 1 /\ views = [o \in Operations |-> OperationView]
    /\ requests = {} /\ submitted = 0
    /\ told = {} /\ abandoned = {}

Pending(o) == \E r \in requests : r.op = o /\ r.page = page

-----------------------------------------------------------------------------
(* Credentials                                                             *)

\* SwaggerAuthorizations.apply: an operation that names no credential gets all.
Apply(security) == IF security = {} THEN authz ELSE authz \cap security

\* The field of index.html adds a key of the query and leaves the page.
AddKey ==
    /\ \E k \in QueryKeys \ authz : authz' = authz \cup {k}
    /\ UNCHANGED <<client, page, views, requests, submitted, told, abandoned>>

\* applyApiKey, and applyPassword alike: the description is loaded again, which
\* makes new views.  What is out still ends, in the views of the page before.
ApplyApiKey ==
    /\ page < MaxPages
    /\ \E k \in Keys : authz' = authz \cup {k}
    /\ page' = page + 1
    /\ views' = [o \in Operations |-> OperationView]
    /\ UNCHANGED <<client, requests, submitted, told, abandoned>>

-----------------------------------------------------------------------------
(* The request: what of the filled parameters is in it                     *)

Of(o, places) == {p \in o.params : p.in \in places}

\* A choice of type stands beside the text field of a body and nowhere else; it
\* offers JSON where the operation names no type.
TypesOffered(o) ==
    IF \A p \in Of(o, {"body"}) : p.select THEN {"none"}
    ELSE IF o.consumes = {} THEN {"json"} ELSE o.consumes

ChosenOr(default, chosen) == IF chosen = "none" THEN default ELSE chosen

\* Operation.setContentTypes: the choice holds for a form as well.
ContentType2(o, filled, chosen) ==
    IF Of(o, {"body"}) \cap filled # {} THEN ChosenOr("json", chosen)
    ELSE IF Of(o, {"form"}) # {} THEN ChosenOr("urlencoded", chosen) ELSE "none"

\* SwaggerRequest.setHeaders: the choice is for a body only.
ContentType1(o, filled, chosen) ==
    IF Of(o, {"body"}) \cap filled # {} THEN ChosenOr("json", chosen)
    ELSE IF Of(o, {"form"}) # {} THEN "urlencoded" ELSE "none"

\* Operation.getBody: a multipart form wants opts.useJQuery, which the view
\* never sets.
Body2(o, filled, type) ==
    IF type = "urlencoded" THEN Of(o, {"form"}) \cap filled
                           ELSE Of(o, {"body"}) \cap filled

\* SwaggerRequest.
Body1(o, filled, type) ==
    IF type \in {"urlencoded", "multipart"} THEN Of(o, {"form"}) \cap filled
    ELSE Of(o, {"body"}) \cap filled

\* Seeded fault: the header parameters stay behind.
UrlOnly(o, filled) == Of(o, {"path", "query"}) \cap filled

\* getHeaderParams, urlify.
UrlAndHeaders(o, filled) == Of(o, {"path", "query", "header"}) \cap filled

\* Operation.execute and SwaggerOperation.do: what is sent, as which type.
Built2(o, filled, chosen) ==
    LET type == ContentType2(o, filled, chosen)
    IN [type |-> type, sent |-> UrlAndHeaders(o, filled) \cup Body2(o, filled, type)]

Built1(o, filled, chosen) ==
    LET type == ContentType1(o, filled, chosen)
    IN [type |-> type, sent |-> UrlAndHeaders(o, filled) \cup Body1(o, filled, type)]

Built(o, filled, chosen) == IF o.version = "2.0" THEN Built2(o, filled, chosen)
                                                 ELSE Built1(o, filled, chosen)

\* The part that stands in for a file when none was chosen.
Fake == [in |-> "fake", required |-> FALSE, select |-> FALSE]

\* handleFileUpload: 1.x passes a header on whether filled or not.
Uploaded(o, filled) ==
    (Of(o, {"path", "query", "form", "file"}) \cap filled)
        \cup (Of(o, {"header"}) \cap (IF o.version = "2.0" THEN filled ELSE o.params))
        \cup (IF Of(o, {"file"}) \cap filled = {} THEN {Fake} ELSE {})

-----------------------------------------------------------------------------
(* OperationView.submitOperation                                           *)

IsFileUpload(o) == Of(o, {"file"}) # {}

\* The form checks inputs and textareas of the class "required", which the
\* template of a file gives in a second class attribute that nobody reads.
ErrorFree(o, filled) ==
    \A p \in o.params : p.required /\ ~p.select /\ p.in # "file" => p \in filled

\* Operation.execute returns on any missing parameter; a 2.0 upload does not
\* look.
MissingParams(o, filled) ==
    ~IsFileUpload(o) /\ \E p \in o.params \ filled : p.required

\* SwaggerOperation.urlify throws for a parameter of the URL.
UrlThrows(o, filled) ==
    \E p \in o.params \ filled : p.in = "path" \/ (p.in = "query" /\ p.required)

Refused(o, filled) == IF o.version = "2.0" THEN MissingParams(o, filled)
                                           ELSE UrlThrows(o, filled)

\* The request of submission i: the URL it is sent to and what is heard of it.
Sent(i, o, keys, filled, built) ==
    [id |-> i, op |-> o, page |-> page, upload |-> IsFileUpload(o),
     type |-> built.type, filled |-> filled, sent |-> built.sent,
     keys |-> keys \cap QueryKeys,
     url |-> [id |-> i, keys |-> keys \cap QueryKeys, hops |-> 0],
     status |-> 0, body |-> <<>>]

\* The throbber is shown first, whatever follows.
Submitting(o) ==
    [views[o] EXCEPT !.throbber = TRUE, !.last = submitted + 1,
                     !.crossed = Pending(o)]

SubmitRefused(o, filled) ==
    /\ Refused(o, filled)
    /\ views' = [views EXCEPT ![o] = Submitting(o)]
    /\ abandoned' = abandoned \cup {submitted + 1}
    /\ UNCHANGED requests

\* The model's do(), SwaggerHttp.execute.
Execute(o, filled, chosen) ==
    LET keys == Apply(o.security)
    IN /\ ~Refused(o, filled) /\ ~IsFileUpload(o)
       /\ views' = [views EXCEPT ![o] = Submitting(o)]
       /\ requests' = requests \cup
              {Sent(submitted + 1, o, keys, filled, Built(o, filled, chosen))}
       /\ UNCHANGED abandoned

\* invocationUrl belongs to the view and is shown at once; the keys are added
\* to the URL of the request afterwards, all of them.
HandleFileUpload(o, filled) ==
    LET keys == Apply({})
        url == [id |-> submitted + 1, keys |-> {}, hops |-> 0]
    IN /\ ~Refused(o, filled) /\ IsFileUpload(o)
       /\ views' = [views EXCEPT ![o] =
              [Submitting(o) EXCEPT !.invocationUrl = url, !.url = url]]
       /\ requests' = requests \cup
              {Sent(submitted + 1, o, keys, filled,
                   [type |-> "multipart", sent |-> Uploaded(o, filled)])}
       /\ UNCHANGED abandoned

SubmitOperation(o) ==
    /\ submitted < MaxSubmissions
    /\ submitted' = submitted + 1
    /\ \E filled \in SUBSET o.params :
          /\ ErrorFree(o, filled)
          /\ \/ SubmitRefused(o, filled)
             \/ \E chosen \in TypesOffered(o) : Execute(o, filled, chosen)
             \/ HandleFileUpload(o, filled)
    /\ UNCHANGED <<client, authz, page, told>>

-----------------------------------------------------------------------------
(* What comes back: showStatus, in a view that may be detached             *)

\* wrap() takes the URL the view was last sent to, the other clients that of
\* the request.
ShownUrl(r, view) == IF r.upload THEN view.invocationUrl ELSE r.url

\* Seeded fault: the throbber is left as it is.
ShowWaiting(r, code, body, lost) ==
    /\ IF r.page = page
       THEN views' = [views EXCEPT ![r.op] =
                [@ EXCEPT !.url = ShownUrl(r, views[r.op]),
                          !.answer = [id |-> r.id, code |-> code, keys |-> r.keys,
                                      body |-> body, lost |-> lost]]]
       ELSE UNCHANGED views
    /\ told' = told \cup {r.id}

\* Seeded fault: the view is the one the page now has for the operation.
ShowOnPage(r, code, body, lost) ==
    /\ views' = [views EXCEPT ![r.op] =
           [@ EXCEPT !.throbber = FALSE, !.url = ShownUrl(r, views[r.op]),
                     !.answer = [id |-> r.id, code |-> code, keys |-> r.keys,
                                 body |-> body, lost |-> lost]]]
    /\ told' = told \cup {r.id}

ShowStatus(r, code, body, lost) ==
    /\ IF r.page = page
       THEN views' = [views EXCEPT ![r.op] =
                [@ EXCEPT !.throbber = FALSE, !.url = ShownUrl(r, views[r.op]),
                          !.answer = [id |-> r.id, code |-> code, keys |-> r.keys,
                                      body |-> body, lost |-> lost]]]
       ELSE UNCHANGED views
    /\ told' = told \cup {r.id}

Whole == [k \in 1..Length |-> k]

-----------------------------------------------------------------------------
(* jQuery: one event ends the request                                      *)

ByJQuery(r) == r.upload \/ client = "jquery"

\* success, error and complete all end in showStatus; without an answer the
\* code is 0 and there is no text.
JQueryComplete(r) ==
    /\ ByJQuery(r)
    /\ \/ \E code \in Codes : ShowStatus(r, code, Whole, FALSE)
       \/ ShowStatus(r, 0, <<>>, TRUE)
    /\ requests' = requests \ {r}

-----------------------------------------------------------------------------
(* Shred: http-browserify hears every change of the XMLHttpRequest         *)

\* Seeded fault: the offset is forgotten.
ReceivedAgain(r, text) == r.body \o SubSeq(Whole, 1, text)

\* Response.write: the text grows, what is new goes to the listener of "data".
Received(r, text) == r.body \o SubSeq(Whole, Len(r.body) + 1, text)

\* readyState 2, then 3 as often as the browser likes.
HeadersReceived(r) ==
    /\ ~ByJQuery(r) /\ r.status = 0
    /\ \E code \in Codes \cup IF r.url.hops < MaxRedirects THEN {Redirecting} ELSE {} :
           requests' = (requests \ {r}) \cup {[r EXCEPT !.status = code]}
    /\ UNCHANGED <<views, told>>

Loading(r) ==
    /\ ~ByJQuery(r) /\ r.status # 0 /\ Len(r.body) < Length
    /\ \E text \in (Len(r.body) + 1)..Length :
           requests' = (requests \ {r}) \cup {[r EXCEPT !.body = Received(r, text)]}
    /\ UNCHANGED <<views, told>>

\* Seeded fault: only failures are listened to.
ErrorListeners == {"error", "request_error"}

\* What request.emitter listens to: obj.on, as ShredHttpClient replaced it.
Listeners == {"error", "request_error", "response"}

\* createRequest: the event of a status, and who hears it.
EventOf(code) == IF code = Redirecting THEN "redirect"
                 ELSE IF code = 0 \/ code > 399 THEN "error" ELSE "success"

Heard(code) ==
    LET event == EventOf(code)
    IN IF event \in Listeners THEN {event}
       ELSE IF event = "redirect" THEN {} ELSE {"response"} \cap Listeners

Emit(r, code, body, lost) ==
    IF Heard(code) # {} THEN ShowStatus(r, code, body, lost)
                        ELSE UNCHANGED <<views, told>>

\* createRequest once more, to the Location: no listener hears the redirect,
\* and nothing but the server bounds it.
Redirect(r) ==
    /\ Heard(Redirecting) = {}
    /\ requests' = (requests \ {r}) \cup
           {[r EXCEPT !.url = [id |-> r.id, keys |-> {}, hops |-> r.url.hops + 1],
                      !.status = 0, !.body = <<>>]}
    /\ UNCHANGED <<views, told>>

\* readyState 4 after the whole text.
Done(r) ==
    /\ ~ByJQuery(r) /\ r.status # 0
    /\ \/ r.status = Redirecting /\ Redirect(r)
       \/ /\ r.status # Redirecting
          /\ Emit(r, r.status, Received(r, Length), FALSE)
          /\ requests' = requests \ {r}

\* readyState 4 because the connection failed: the text is empty now, the
\* status keeps the value it had, and the end of the text is announced as ever.
Lost(r) ==
    /\ ~ByJQuery(r)
    /\ \/ /\ r.status # Redirecting
          /\ Emit(r, r.status, r.body, TRUE)
          /\ requests' = requests \ {r}
       \/ r.status = Redirecting /\ Redirect(r)

Event(r) == HeadersReceived(r) \/ Loading(r)
End(r)   == JQueryComplete(r) \/ Done(r) \/ Lost(r)

Answer(i, r) ==
    /\ r.id = i /\ (Event(r) \/ End(r))
    /\ UNCHANGED <<client, authz, page, submitted, abandoned>>

Quiet ==
    submitted = MaxSubmissions /\ requests = {} /\ UNCHANGED vars

Next ==
    \/ AddKey \/ ApplyApiKey
    \/ \E o \in Operations : SubmitOperation(o)
    \/ \E r \in requests : Answer(r.id, r)
    \/ Quiet

Spec == Init /\ [][Next]_vars

\* The browser goes on with every request until it has ended; nobody need
\* submit anything.
FairSpec ==
    Spec /\ \A i \in Submissions : WF_vars(\E r \in requests : Answer(i, r))

-----------------------------------------------------------------------------
(* Properties                                                              *)

\* In a view whose last submission was made while nothing was out, the throbber
\* is shown exactly while the answer is out - and for ever if the client
\* refused a submission that the form let pass (OperationView.submitOperation
\* shows it first; Operation.execute returns, SwaggerOperation throws).  Two
\* submissions at once are excused: the first answer hides it for both.
ThrobberTells ==
    \A o \in Operations :
        ~views[o].crossed =>
            (views[o].throbber <=> Pending(o) \/ views[o].last \in abandoned)

\* What a view shows belongs together: URL, code and body are those of one
\* request, the URL is the one it was sent to, keys of the query included, and
\* the body is its text, every part once and in order, and all of it unless the
\* connection failed.  Once nothing is out this is the answer of the last
\* submission sent, if none was made while another was out.  Uploads are
\* excused while one is out, after two were, and after a refused one, which
\* does not undo that: the URL shown is the view's own.
ShownTogether ==
    \A o \in Operations :
        LET view   == views[o]
            answer == view.answer
            upload == IsFileUpload(o)
            mixed  == Pending(o) \/ view.crossed \/ view.last \in abandoned
        IN answer.id # 0 /\ ~(upload /\ mixed) =>
              /\ view.url.id = answer.id
              /\ ~upload /\ view.url.hops = 0 => view.url.keys = answer.keys
              /\ \A k \in DOMAIN answer.body : answer.body[k] = k
              /\ ~answer.lost => Len(answer.body) = Length
              /\ ~Pending(o) /\ ~view.crossed /\ view.last \notin abandoned =>
                    answer.id = view.last

\* What a request cannot carry beside something else.  A form is lost under a
\* type that does not encode it, which only an operation with a body can have
\* (2.0 encodes as "urlencoded" alone, 1.x as "multipart" too).  A body is lost
\* under a type that encodes the form in its place, and in an upload.
Lossy(r, p) ==
    \/ /\ p.in = "form" /\ ~r.upload
       /\ IF r.op.version = "2.0"
          THEN r.type # "urlencoded" /\ Of(r.op, {"body"}) # {}
          ELSE /\ r.type \notin {"urlencoded", "multipart"}
               /\ Of(r.op, {"body"}) \cap r.filled # {}
    \/ /\ p.in = "body"
       /\ \/ r.upload \/ r.type = "urlencoded"
          \/ r.type = "multipart" /\ r.op.version = "1.x"

\* What a request carries without its having been filled in.
Extra(r, p) ==
    /\ r.upload
    /\ \/ p.in = "header" /\ r.op.version = "1.x"
       \/ p = Fake /\ Of(r.op, {"file"}) \cap r.filled = {}

AsFilled(r) ==
    /\ \A p \in r.filled : ~Lossy(r, p) => p \in r.sent
    /\ \A p \in r.sent \ r.filled : Extra(r, p)

\* What the form was filled with is in the request, and nothing else: a form
\* that has no body beside it is never lost, whatever types the operation
\* names.  Lost is, of a body and a form in one operation, what the type chosen
\* does not encode, and a body sent under a type of forms.  Added are, in an
\* upload, the headers of 1.x that were left empty and a stand-in for the file
\* that was not chosen - the form does not ask for it even if it is required.
RequestAsFilled == \A r \in requests : AsFilled(r)

\* Every submission ends: its answer, or that there is none, is given to the
\* view it was made in, unless the client refused it.
CallsSettle ==
    \A i \in Submissions :
        submitted >= i ~> i \in told \/ i \in abandoned
-----------------------------------------------------------------------------
(* The promise of CallPromise.tla, kept by the two HTTP clients.           *)

out == {[id |-> r.id, view |-> r.op, page |-> r.page] : r \in requests}

shown == [o \in Operations |-> views[o].answer.id]

Promise == INSTANCE CallPromise WITH
             Views <- Operations, submitted <- submitted, page <- page, out <- out,
             refused <- abandoned, answered <- told, shown <- shown

\* The calls implement CallPromise: through redirects, broken connections and
\* texts that stream in, a submission is refused or answered once, in its view.
PromiseSpec == Promise!Spec
=============================================================================
