------------------------ MODULE SwaggerCalls_proofs -------------------------
(***************************************************************************)
(* The safety invariants of SwaggerCalls, for any operations, credentials, *)
(* numbers of submissions, pages and redirects, and lengths of a body, and *)
(* that it keeps CallPromise; then those of what the view of an operation  *)
(* shows of data: SwaggerResponses, SwaggerSignature and SwaggerLayout.    *)
(***************************************************************************)
EXTENDS SwaggerCalls, SwaggerViews, SequenceTheorems, TLAPS

Params == UNION {o.params : o \in Operations}

Consumed == UNION {o.consumes : o \in Operations}

Types == Consumed \cup {"none", "json", "urlencoded", "multipart"}

UrlType == [id : Nat, keys : SUBSET Keys, hops : Nat]

AnswerType ==
    [id : Nat, code : Nat, keys : SUBSET Keys, body : Seq(Nat), lost : BOOLEAN]

ViewType ==
    [throbber : BOOLEAN, invocationUrl : UrlType, url : UrlType, answer : AnswerType,
     last : Nat, crossed : BOOLEAN]

RequestType ==
    [id : Nat, op : Operations, page : Nat, upload : BOOLEAN, type : Types,
     filled : SUBSET Params, sent : SUBSET (Params \cup {Fake}), keys : SUBSET Keys, url : UrlType,
     status : Nat, body : Seq(Nat)]

TypeOK ==
    /\ client \in {"shred", "jquery"} /\ authz \subseteq Keys
    /\ page \in Nat \ {0} /\ submitted \in Nat
    /\ views \in [Operations -> ViewType]
    /\ requests \subseteq RequestType
    /\ abandoned \subseteq 1..submitted

\* The text received so far: its parts from the first on, each once.
Ordered(body) == /\ body \in Seq(Nat) /\ Len(body) <= Length
                 /\ \A k \in 1..Len(body) : body[k] = k

\* A request knows its submission, its view, its URL and what it has received.
Request(r) ==
    /\ r.id \in (1..submitted) \ abandoned /\ r.page \in 1..page
    /\ r.upload = IsFileUpload(r.op)
    /\ r.url.id = r.id /\ (r.url.hops = 0 => r.url.keys = r.keys)
    /\ Ordered(r.body)
    /\ AsFilled(r)

Requests ==
    /\ \A r \in requests : Request(r)
    /\ \A r, s \in requests : r.id = s.id => r = s

\* What is out for a view that nothing crossed is its last submission.
Alone(o) ==
    ~views[o].crossed =>
        /\ \A r \in requests : r.op = o /\ r.page = page => r.id = views[o].last
        /\ views[o].throbber <=> Pending(o) \/ views[o].last \in abandoned
        /\ ~Pending(o) /\ views[o].last \notin abandoned => views[o].answer.id = views[o].last

\* What a view shows is of one request, and whole.
Shown(o) ==
    LET view == views[o]
        answer == view.answer
    IN /\ view.last \in 0..submitted
       /\ view.last = 0 => ~view.crossed /\ answer.id = 0
       /\ answer.id # 0 => Ordered(answer.body) /\ (~answer.lost => Len(answer.body) = Length)
       /\ answer.id # 0 /\ ~IsFileUpload(o) =>
             view.url.id = answer.id /\ (view.url.hops = 0 => view.url.keys = answer.keys)

\* An upload shows the URL the view has: that of the submission sent last.
UploadShown(o) ==
    LET view == views[o]
    IN IsFileUpload(o) /\ view.last \notin abandoned =>
          /\ view.last # 0 => view.invocationUrl.id = view.last
          /\ view.answer.id # 0 /\ ~Pending(o) /\ ~view.crossed =>
                view.url.id = view.answer.id

IInv == /\ TypeOK /\ Requests
        /\ \A o \in Operations : Alone(o) /\ Shown(o) /\ UploadShown(o)

-----------------------------------------------------------------------------
(* What a form becomes                                                     *)

LEMMA OperationFacts ==
    ASSUME NEW o \in Operations
    PROVE  /\ o.version \in {"1.x", "2.0"} /\ o.params \subseteq Params
           /\ \A p \in o.params : p.in \in {"path", "query", "header", "body", "form", "file"}
BY CallsAssumption DEF OperationType, Params

\* What is built of the parameters filled in carries them, but for what its
\* content type cannot.
Carries(o, filled, b) ==
    /\ b.type \in Types /\ b.sent \subseteq filled
    /\ \A p \in filled :
          \/ p \in b.sent
          \/ /\ p.in = "form"
             /\ IF o.version = "2.0"
                THEN b.type # "urlencoded" /\ Of(o, {"body"}) # {}
                ELSE /\ b.type \notin {"urlencoded", "multipart"}
                     /\ Of(o, {"body"}) \cap filled # {}
          \/ /\ p.in = "body"
             /\ \/ b.type = "urlencoded"
                \/ b.type = "multipart" /\ o.version = "1.x"

(* The type chosen is one of the operation, JSON or none; without a body there *)
(* is nothing to choose.                                                       *)
LEMMA OfferedFacts ==
    ASSUME NEW o \in Operations, NEW chosen \in TypesOffered(o)
    PROVE  /\ chosen \in Types
           /\ Of(o, {"body"}) = {} => chosen = "none"
<1>1. chosen \in {"none", "json"} \cup o.consumes
  BY DEF TypesOffered
<1>2. o.consumes \subseteq Consumed
  BY Zenon DEF Consumed
<1>3. Of(o, {"body"}) = {} => chosen = "none"
  BY DEF TypesOffered
<1> QED
  BY <1>1, <1>2, <1>3 DEF Types

(* Both clients build such a request. *)
LEMMA BuiltAsFilled ==
    ASSUME TypeOK, NEW o \in Operations, ~IsFileUpload(o), NEW filled \in SUBSET o.params,
           NEW chosen \in TypesOffered(o), NEW b, b = Built(o, filled, chosen)
    PROVE  Carries(o, filled, b)
<1>1. \A p \in filled : p.in \in {"path", "query", "header", "body", "form"}
  BY OperationFacts DEF IsFileUpload, Of
<1>2. chosen \in Types /\ {"none", "json", "urlencoded"} \subseteq Types
  BY OfferedFacts DEF Types
<1>3. CASE o.version = "2.0"
  <2>1. PICK type : type = ContentType2(o, filled, chosen)
    OBVIOUS
  <2>2. b.type = type /\ b.sent = UrlAndHeaders(o, filled) \cup Body2(o, filled, type)
    BY <1>3, <2>1 DEF Built, Built2
  <2>3. type \in Types
    BY <1>2, <2>1 DEF ContentType2, ChosenOr
  <2>4. b.sent \subseteq filled
    BY <2>2 DEF UrlAndHeaders, Body2
  <2>5. \A p \in filled : p.in \in {"path", "query", "header"} => p \in b.sent
    BY <2>2 DEF UrlAndHeaders, Of
  <2>6. ASSUME NEW p \in filled, p.in = "body", type # "urlencoded"
        PROVE  p \in b.sent
    BY <2>2, <2>6 DEF Body2, Of
  <2>7. ASSUME NEW p \in filled, p.in = "form", type = "urlencoded"
        PROVE  p \in b.sent
    BY <2>2, <2>7 DEF Body2, Of
  <2>8. ASSUME NEW p \in filled, p.in = "form", Of(o, {"body"}) = {}
        PROVE  type = "urlencoded"
    <3>1. chosen = "none" /\ p \in Of(o, {"form"})
      BY <2>8, OfferedFacts DEF Of
    <3> QED
      BY <2>1, <2>8, <3>1 DEF ContentType2, ChosenOr
  <2> QED
    BY <1>1, <1>3, <2>2, <2>3, <2>4, <2>5, <2>6, <2>7, <2>8 DEF Carries
<1>4. CASE o.version = "1.x"
  <2>1. PICK type : type = ContentType1(o, filled, chosen)
    OBVIOUS
  <2>2. b.type = type /\ b.sent = UrlAndHeaders(o, filled) \cup Body1(o, filled, type)
    BY <1>4, <2>1 DEF Built, Built1
  <2>3. type \in Types
    BY <1>2, <2>1 DEF ContentType1, ChosenOr
  <2>4. b.sent \subseteq filled
    BY <2>2 DEF UrlAndHeaders, Body1
  <2>5. \A p \in filled : p.in \in {"path", "query", "header"} => p \in b.sent
    BY <2>2 DEF UrlAndHeaders, Of
  <2>6. ASSUME NEW p \in filled, p.in = "body", type \notin {"urlencoded", "multipart"}
        PROVE  p \in b.sent
    BY <2>2, <2>6 DEF Body1, Of
  <2>7. ASSUME NEW p \in filled, p.in = "form" PROVE p \in Of(o, {"form"})
    BY <2>7 DEF Of
  <2>8. ASSUME NEW p \in filled, p.in = "form", type \in {"urlencoded", "multipart"}
        PROVE  p \in b.sent
    BY <2>2, <2>7, <2>8 DEF Body1
  <2>9. ASSUME NEW p \in filled, p.in = "form", Of(o, {"body"}) \cap filled = {}
        PROVE  type = "urlencoded"
    BY <2>1, <2>7, <2>9 DEF ContentType1
  <2> QED
    BY <1>1, <1>4, <2>2, <2>3, <2>4, <2>5, <2>6, <2>8, <2>9 DEF Carries
<1> QED
  BY <1>3, <1>4, OperationFacts

(* An upload sends the form and the files, or the stand-in for them, and for *)
(* 1.x every header.                                                         *)
LEMMA UploadAsFilled ==
    ASSUME NEW o \in Operations, IsFileUpload(o), NEW filled \in SUBSET o.params
    PROVE  /\ Uploaded(o, filled) \subseteq o.params \cup {Fake}
           /\ \A p \in filled : p \in Uploaded(o, filled) \/ p.in = "body"
           /\ \A p \in Uploaded(o, filled) \ filled :
                 \/ p.in = "header" /\ o.version = "1.x"
                 \/ p = Fake /\ Of(o, {"file"}) \cap filled = {}
BY OperationFacts DEF Uploaded, Of

-----------------------------------------------------------------------------
(* What is received                                                        *)

(* The parts of the text from one to another, in order. *)
LEMMA PartsInOrder ==
    \A from, to \in Nat : from <= to /\ to <= Length =>
        \E parts \in Seq(Nat) :
            /\ parts = SubSeq(Whole, from + 1, to) /\ Len(parts) = to - from
            /\ \A k \in 1..Len(parts) : parts[k] = k + from
<1> SUFFICES ASSUME NEW from \in Nat, NEW to \in Nat, from <= to, to <= Length
             PROVE  \E parts \in Seq(Nat) :
                      /\ parts = SubSeq(Whole, from + 1, to) /\ Len(parts) = to - from
                      /\ \A k \in 1..Len(parts) : parts[k] = k + from
  BY Zenon
<1>0. PICK parts : parts = SubSeq(Whole, from + 1, to)
  BY Zenon
<1>1. Length \in Nat
  BY CallsAssumption
<1>2. \A k \in (from + 1)..to : Whole[k] = k /\ Whole[k] \in Nat
  BY <1>1 DEF Whole
<1>3. PICK first \in Int : first = from + 1
  OBVIOUS
<1>4. to \in Int /\ \A k \in first..to : Whole[k] \in Nat
  BY <1>2, <1>3
<1>5. /\ SubSeq(Whole, first, to) \in Seq(Nat)
      /\ Len(SubSeq(Whole, first, to)) = IF first <= to THEN to - first + 1 ELSE 0
      /\ \A k \in 1..to - first + 1 : SubSeq(Whole, first, to)[k] = Whole[first + k - 1]
  BY <1>4, SubSeqProperties
<1>6. parts = SubSeq(Whole, first, to)
  BY <1>0, <1>3
<1>7. /\ parts \in Seq(Nat)
      /\ Len(parts) = IF first <= to THEN to - first + 1 ELSE 0
      /\ \A k \in 1..to - first + 1 : parts[k] = Whole[first + k - 1]
  BY <1>5, <1>6, Zenon
<1>8. Len(parts) = to - from
  BY <1>3, <1>7
<1>9. ASSUME NEW k \in 1..Len(parts) PROVE parts[k] = k + from
  <2>1. k \in 1..to - first + 1 /\ first + k - 1 \in (from + 1)..to /\ first + k - 1 = k + from
    BY <1>3, <1>8
  <2> QED
    BY <1>2, <1>7, <2>1
<1> QED
  BY <1>0, <1>7, <1>8, <1>9, Zenon

(* A response grows in order, whatever the text has come to. *)
LEMMA ReceivedInOrder ==
    ASSUME NEW r, Ordered(r.body), NEW text \in Nat,
           Len(r.body) <= text, text <= Length
    PROVE  Ordered(Received(r, text)) /\ Len(Received(r, text)) = text
<1>1. PICK body \in Seq(Nat), from \in Nat : body = r.body /\ from = Len(body)
  BY DEF Ordered
<1>2. from <= text /\ \A k \in 1..from : body[k] = k
  BY <1>1 DEF Ordered
<1>3. PICK parts \in Seq(Nat) :
            /\ parts = SubSeq(Whole, from + 1, text) /\ Len(parts) = text - from
            /\ \A k \in 1..Len(parts) : parts[k] = k + from
  BY <1>1, <1>2, PartsInOrder, Zenon
<1>4. PICK whole \in Seq(Nat) :
            /\ whole = body \o parts /\ Len(whole) = Len(body) + Len(parts)
            /\ \A k \in 1..Len(body) + Len(parts) :
                  whole[k] = IF k <= Len(body) THEN body[k] ELSE parts[k - Len(body)]
  <2>1. body \in Seq(Nat) /\ parts \in Seq(Nat)
    BY <1>1, <1>3, Zenon
  <2>2. /\ body \o parts \in Seq(Nat) /\ Len(body \o parts) = Len(body) + Len(parts)
        /\ \A k \in 1..Len(body) + Len(parts) : (body \o parts)[k] =
              IF k <= Len(body) THEN body[k] ELSE parts[k - Len(body)]
    BY <2>1, ConcatProperties
  <2> QED
    BY <2>2, Zenon
<1>5. Len(whole) = text
  <2>1. Len(whole) = from + (text - from) /\ from \in Nat
    BY <1>1, <1>3, <1>4, Zenon
  <2> QED
    BY <2>1
<1>6. ASSUME NEW k \in 1..text PROVE whole[k] = k
  <2>1. k \in 1..Len(body) + Len(parts)
    BY <1>4, <1>5
  <2>2. whole[k] = IF k <= from THEN body[k] ELSE parts[k - from]
    BY <1>1, <1>4, <2>1, Zenon
  <2>3. CASE k <= from
    BY <1>2, <2>2, <2>3
  <2>4. CASE k > from
    <3>1. k - from \in 1..Len(parts)
      BY <1>3, <2>4
    <3>2. parts[k - from] = (k - from) + from
      BY <1>3, <3>1, Zenon
    <3>3. whole[k] = parts[k - from] /\ (k - from) + from = k
      BY <1>1, <2>2, <2>4
    <3> QED
      BY <3>2, <3>3
  <2> QED
    BY <2>3, <2>4
<1>7. Received(r, text) = whole
  BY <1>1, <1>3, <1>4 DEF Received
<1> QED
  BY <1>4, <1>5, <1>6, <1>7 DEF Ordered

(* Whatever ends a request but a redirect is heard. *)
LEMMA EveryEndHeard ==
    /\ \A code \in Nat : code # Redirecting => Heard(code) # {}
    /\ Heard(Redirecting) = {}
<1>1. Heard(Redirecting) = {}
  BY DEF Heard, EventOf, Redirecting, Listeners
<1>2. ASSUME NEW code \in Nat, code # Redirecting PROVE Heard(code) # {}
  <2>1. EventOf(code) \in {"error", "success"}
    BY <1>2 DEF EventOf
  <2>2. CASE EventOf(code) = "error"
    BY <2>2 DEF Heard, Listeners
  <2>3. CASE EventOf(code) = "success"
    BY <2>3 DEF Heard, Listeners
  <2> QED
    BY <2>1, <2>2, <2>3
<1> QED
  BY <1>1, <1>2

-----------------------------------------------------------------------------
(* The invariant                                                           *)

LEMMA InitIInv == Init => IInv
<1> SUFFICES ASSUME Init PROVE IInv
  OBVIOUS
<1>1. NoUrl \in UrlType /\ NoAnswer \in AnswerType
  BY DEF NoUrl, NoAnswer, UrlType, AnswerType
<1>2. OperationView \in ViewType
  BY <1>1 DEF OperationView, ViewType
<1>3. TypeOK
  BY <1>2, CallsAssumption DEF Init, TypeOK
<1>4. \A o \in Operations : views[o] = OperationView
  BY DEF Init
<1>5. ASSUME NEW o \in Operations PROVE Alone(o) /\ Shown(o) /\ UploadShown(o)
  <2>1. ~Pending(o) /\ abandoned = {} /\ requests = {} /\ submitted = 0
    BY DEF Init, Pending
  <2>2. /\ views[o].last = 0 /\ ~views[o].crossed /\ ~views[o].throbber
        /\ views[o].answer.id = 0
    BY <1>4 DEF OperationView, NoAnswer
  <2> QED
    BY <2>1, <2>2 DEF Alone, Shown, UploadShown
<1> QED
  BY <1>3, <1>5 DEF IInv, Requests, Init

(* A credential is in no view and no request. *)
LEMMA AddKeyKeeps == IInv /\ AddKey => IInv'
<1> SUFFICES ASSUME IInv, AddKey PROVE IInv'
  OBVIOUS
<1>1. TypeOK'
  BY CallsAssumption DEF IInv, TypeOK, AddKey
<1>2. Requests'
  BY DEF IInv, Requests, Request, AddKey, AsFilled, Lossy, Extra
<1>3. ASSUME NEW o \in Operations PROVE (Alone(o) /\ Shown(o) /\ UploadShown(o))'
  BY DEF IInv, Alone, Shown, UploadShown, Pending, AddKey
<1> QED
  BY <1>1, <1>2, <1>3 DEF IInv

(* What is out belongs to a page before the one made now. *)
LEMMA ApplyApiKeyKeeps == IInv /\ ApplyApiKey => IInv'
<1> SUFFICES ASSUME IInv, ApplyApiKey PROVE IInv'
  OBVIOUS
<1>1. NoUrl \in UrlType /\ NoAnswer \in AnswerType
  BY DEF NoUrl, NoAnswer, UrlType, AnswerType
<1>2. OperationView \in ViewType
  BY <1>1 DEF OperationView, ViewType
<1>3. TypeOK'
  BY <1>2 DEF IInv, TypeOK, ApplyApiKey
<1>4. Requests'
  <2>1. page \in Nat /\ page' = page + 1
    BY DEF IInv, TypeOK, ApplyApiKey
  <2>2. ASSUME NEW r \in requests PROVE Request(r)'
    <3>1. Request(r)
      BY DEF IInv, Requests
    <3>2. (r.page \in 1..page)'
      BY <2>1, <3>1 DEF Request
    <3> QED
      BY <3>1, <3>2 DEF ApplyApiKey, Request, AsFilled, Lossy, Extra
  <2> QED
    BY <2>2 DEF IInv, Requests, ApplyApiKey
<1>5. ASSUME NEW o \in Operations PROVE (Alone(o) /\ Shown(o) /\ UploadShown(o))'
  <2>1. \A r \in requests : r.page \in 1..page
    BY DEF IInv, Requests, Request
  <2>2. page \in Nat /\ page' = page + 1 /\ requests' = requests
    BY DEF IInv, TypeOK, ApplyApiKey
  <2>3. ~Pending(o)' /\ \A r \in requests' : r.page # page'
    BY <2>1, <2>2 DEF Pending
  <2>4. views'[o] = OperationView /\ abandoned' = abandoned /\ submitted' = submitted
    BY DEF ApplyApiKey
  <2>5. /\ views'[o].last = 0 /\ ~views'[o].crossed /\ ~views'[o].throbber
        /\ views'[o].answer.id = 0
    BY <2>4 DEF OperationView, NoAnswer
  <2>6. 0 \notin abandoned' /\ submitted' \in Nat
    BY <2>4 DEF IInv, TypeOK
  <2> QED
    BY <2>3, <2>5, <2>6 DEF Alone, Shown, UploadShown
<1> QED
  BY <1>3, <1>4, <1>5 DEF IInv

(* What a submission leaves alone: the views of the other operations, and the *)
(* requests that are out.                                                      *)
LEMMA OthersKept ==
    ASSUME IInv, NEW o \in Operations, page' = page, submitted' = submitted + 1,
           \A q \in Operations \ {o} : views'[q] = views[q],
           \A i \in 0..submitted : i \in abandoned' <=> i \in abandoned,
           \A r : r.op # o => (r \in requests' <=> r \in requests)
    PROVE  \A q \in Operations \ {o} : (Alone(q) /\ Shown(q) /\ UploadShown(q))'
<1> SUFFICES ASSUME NEW q \in Operations \ {o} PROVE (Alone(q) /\ Shown(q) /\ UploadShown(q))'
  BY Zenon
<1>1. Alone(q) /\ Shown(q) /\ UploadShown(q)
  BY DEF IInv
<1>2. submitted \in Nat
  BY DEF IInv, TypeOK
<1>3. views[q].last \in 0..submitted
  BY <1>1 DEF Shown
<1>4. views'[q].last \in abandoned' <=> views[q].last \in abandoned
  BY <1>3
<1>5. Pending(q)' <=> Pending(q)
  BY DEF Pending
<1>6. Shown(q)'
  BY <1>1, <1>2, <1>3 DEF Shown
<1>7. UploadShown(q)'
  BY <1>1, <1>4, <1>5 DEF UploadShown
<1>8. Alone(q)'
  BY <1>1, <1>4, <1>5 DEF Alone
<1> QED
  BY <1>6, <1>7, <1>8

LEMMA RequestsKept ==
    ASSUME IInv, UNCHANGED <<client, page>>, submitted' = submitted + 1,
           \A i \in 0..submitted : i \in abandoned' <=> i \in abandoned
    PROVE  \A r \in requests : Request(r)'
<1> SUFFICES ASSUME NEW r \in requests PROVE Request(r)'
  BY Zenon
<1>1. Request(r) /\ submitted \in Nat
  BY DEF IInv, Requests, TypeOK
<1>2. (r.id \in (1..submitted) \ abandoned)'
  BY <1>1 DEF Request
<1>3. AsFilled(r)'
  BY <1>1 DEF Request, AsFilled, Lossy, Extra
<1> QED
  BY <1>1, <1>2, <1>3 DEF Request

(* A view that submits shows what it showed. *)
LEMMA SubmittingFacts ==
    ASSUME IInv, NEW o \in Operations
    PROVE  /\ Submitting(o) \in ViewType
           /\ Submitting(o).throbber /\ Submitting(o).last = submitted + 1
           /\ Submitting(o).crossed = Pending(o)
           /\ Submitting(o).answer = views[o].answer /\ Submitting(o).url = views[o].url
<1>1. views[o] \in ViewType /\ submitted \in Nat
  BY DEF IInv, TypeOK
<1>2. PICK v \in ViewType : v = views[o]
  BY <1>1
<1>3. Pending(o) \in BOOLEAN
  BY DEF Pending
<1>4. Submitting(o) = [v EXCEPT !.throbber = TRUE, !.last = submitted + 1,
                                !.crossed = Pending(o)]
  BY <1>2, Zenon DEF Submitting
<1>5. PICK n \in Nat, c \in BOOLEAN : n = submitted + 1 /\ c = Pending(o)
  BY <1>1, <1>3
<1>6. PICK w : w = [v EXCEPT !.throbber = TRUE, !.last = n, !.crossed = c]
  OBVIOUS
<1>7. /\ w \in ViewType /\ w.throbber /\ w.last = n /\ w.crossed = c
      /\ w.answer = v.answer /\ w.url = v.url
  BY <1>2, <1>5, <1>6 DEF ViewType
<1>8. w = Submitting(o)
  BY <1>4, <1>5, <1>6, Zenon
<1> QED
  BY <1>2, <1>5, <1>7, <1>8, Zenon

LEMMA SentFacts ==
    ASSUME IInv, NEW o \in Operations, NEW keys \in SUBSET Keys,
           NEW filled \in SUBSET o.params, NEW built, built.type \in Types,
           built.sent \subseteq o.params \cup {Fake},
           NEW s, s = Sent(submitted + 1, o, keys, filled, built)
    PROVE  /\ s \in RequestType /\ s.id = submitted + 1 /\ s.op = o /\ s.page = page
           /\ s.upload = IsFileUpload(o) /\ s.type = built.type
           /\ s.filled = filled /\ s.sent = built.sent
           /\ s.url.id = s.id /\ s.url.keys = s.keys /\ Ordered(s.body)
<1>1. /\ submitted + 1 \in Nat /\ page \in Nat /\ IsFileUpload(o) \in BOOLEAN
      /\ filled \subseteq Params /\ built.sent \subseteq Params \cup {Fake}
      /\ keys \cap QueryKeys \subseteq Keys
  BY OperationFacts, CallsAssumption DEF IInv, TypeOK, IsFileUpload
<1>2. PICK n \in Nat, p \in Nat, u \in BOOLEAN, inUrl \in SUBSET Keys :
          /\ n = submitted + 1 /\ p = page /\ u = IsFileUpload(o)
          /\ inUrl = keys \cap QueryKeys
  BY <1>1
<1>3. PICK url \in UrlType : url = [id |-> n, keys |-> inUrl, hops |-> 0]
  BY <1>2 DEF UrlType
<1>4. PICK type \in Types, sent \in SUBSET (Params \cup {Fake}) : type = built.type /\ sent = built.sent
  BY <1>1
<1>5. s = [id |-> n, op |-> o, page |-> p, upload |-> u, type |-> type, filled |-> filled,
           sent |-> sent, keys |-> inUrl, url |-> url, status |-> 0, body |-> <<>>]
  BY <1>2, <1>3, <1>4, Zenon DEF Sent
<1>6. /\ s.id = n /\ s.op = o /\ s.page = p /\ s.upload = u /\ s.type = type
      /\ s.filled = filled /\ s.sent = sent /\ s.keys = inUrl /\ s.url = url
      /\ s.body = <<>>
  BY <1>5
<1>7. s \in RequestType
  <2>1. /\ n \in Nat /\ p \in Nat /\ u \in BOOLEAN /\ inUrl \in SUBSET Keys
        /\ url \in UrlType /\ type \in Types /\ sent \in SUBSET (Params \cup {Fake})
    BY <1>2, <1>3, <1>4, Zenon
  <2>2. filled \in SUBSET Params /\ 0 \in Nat /\ <<>> \in Seq(Nat)
    BY <1>1
  <2>3. [id |-> n, op |-> o, page |-> p, upload |-> u, type |-> type, filled |-> filled,
         sent |-> sent, keys |-> inUrl, url |-> url, status |-> 0, body |-> <<>>]
            \in RequestType
    BY <2>1, <2>2 DEF RequestType
  <2> QED
    BY <1>5, <2>3, Zenon
<1>8. url.id = n /\ url.keys = inUrl
  BY <1>3
<1>9. Ordered(<<>>)
  BY CallsAssumption DEF Ordered
<1> QED
  BY <1>2, <1>4, <1>6, <1>7, <1>8, <1>9, Zenon

(* A submission that is refused leaves the throbber, and is abandoned. *)
LEMMA SubmitRefusedKeeps ==
    ASSUME IInv, NEW o \in Operations, NEW filled, SubmitRefused(o, filled),
           submitted' = submitted + 1, UNCHANGED <<client, authz, page, told>>
    PROVE  IInv'
<1>1. /\ views' = [views EXCEPT ![o] = Submitting(o)]
      /\ abandoned' = abandoned \cup {submitted + 1} /\ requests' = requests
  BY DEF SubmitRefused
<1>2. submitted \in Nat /\ views \in [Operations -> ViewType]
  BY DEF IInv, TypeOK
<1>3. views'[o] = Submitting(o) /\ \A q \in Operations \ {o} : views'[q] = views[q]
  BY <1>1, <1>2
<1>4. TypeOK'
  <2>1. views' \in [Operations -> ViewType]
    BY <1>1, <1>2, SubmittingFacts
  <2>2. abandoned' \subseteq 1..submitted'
    BY <1>1, <1>2 DEF IInv, TypeOK
  <2> QED
    BY <1>1, <1>2, <2>1, <2>2 DEF IInv, TypeOK
<1>5. \A i \in 0..submitted : i \in abandoned' <=> i \in abandoned
  BY <1>1, <1>2
<1>6. Requests'
  BY <1>1, <1>5, RequestsKept DEF IInv, Requests
<1>7. \A q \in Operations \ {o} : (Alone(q) /\ Shown(q) /\ UploadShown(q))'
  BY <1>1, <1>3, <1>5, OthersKept
<1>8. (Alone(o) /\ Shown(o) /\ UploadShown(o))'
  <2>1. Alone(o) /\ Shown(o) /\ Pending(o)' = Pending(o)
    BY <1>1 DEF IInv, Pending
  <2>2. PICK v : v = Submitting(o)
    OBVIOUS
  <2>3. /\ views'[o] = v /\ v.throbber /\ v.last = submitted + 1 /\ v.crossed = Pending(o)
        /\ v.answer = views[o].answer /\ v.url = views[o].url
    BY <1>3, <2>2, SubmittingFacts
  <2>4. v.last \in abandoned' /\ v.last \in 0..submitted' /\ v.last # 0
    BY <1>1, <1>2, <2>3
  <2>5. Alone(o)'
    BY <1>1, <2>1, <2>3, <2>4 DEF Alone, Pending
  <2>6. Shown(o)'
    BY <2>1, <2>3, <2>4 DEF Shown
  <2>7. UploadShown(o)'
    BY <2>3, <2>4 DEF UploadShown
  <2> QED
    BY <2>5, <2>6, <2>7
<1> QED
  BY <1>4, <1>6, <1>7, <1>8 DEF IInv

(* A submission that is sent is the last of its view, and the only one that is *)
(* out for it unless the view is crossed.                                       *)
LEMMA SentKeeps ==
    ASSUME IInv, NEW o \in Operations, NEW s \in RequestType, NEW v \in ViewType,
           UNCHANGED <<client, authz, page, abandoned>>, submitted' = submitted + 1,
           requests' = requests \cup {s}, views' = [views EXCEPT ![o] = v],
           s.id = submitted + 1, s.op = o, s.page = page,
           s.upload = IsFileUpload(o), s.url.id = s.id, s.url.keys = s.keys,
           Ordered(s.body), AsFilled(s),
           v.throbber, v.last = submitted + 1, v.crossed = Pending(o),
           v.answer = views[o].answer,
           IF IsFileUpload(o) THEN v.invocationUrl.id = s.id ELSE v.url = views[o].url
    PROVE  IInv'
<1>1. /\ submitted \in Nat /\ page \in Nat \ {0} /\ views \in [Operations -> ViewType]
      /\ abandoned \subseteq 1..submitted
  BY DEF IInv, TypeOK
<1>2. views'[o] = v /\ \A q \in Operations \ {o} : views'[q] = views[q]
  BY <1>1
<1>3. TypeOK'
  <2>1. views' \in [Operations -> ViewType] /\ requests' \subseteq RequestType
    BY <1>1 DEF IInv, TypeOK
  <2>2. abandoned' \subseteq 1..submitted' /\ submitted' \in Nat
    BY <1>1
  <2> QED
    BY <2>1, <2>2 DEF IInv, TypeOK
<1>4. Requests'
  <2>1. \A r \in requests : Request(r)'
    BY RequestsKept
  <2>2. Request(s)'
    <3>1. (s.id \in (1..submitted) \ abandoned)' /\ (s.page \in 1..page)'
      BY <1>1
    <3>2. AsFilled(s)'
      BY DEF AsFilled, Lossy, Extra
    <3> QED
      BY <3>1, <3>2 DEF Request
  <2>3. \A r \in requests : r.id # s.id
    BY <1>1 DEF IInv, Requests, Request
  <2> QED
    BY <2>1, <2>2, <2>3 DEF IInv, Requests
<1>5. \A q \in Operations \ {o} : (Alone(q) /\ Shown(q) /\ UploadShown(q))'
  <2>1. \A i \in 0..submitted : i \in abandoned' <=> i \in abandoned
    OBVIOUS
  <2>2. \A r : r.op # o => (r \in requests' <=> r \in requests)
    OBVIOUS
  <2> QED
    BY <1>2, <2>1, <2>2, OthersKept
<1>6. (Alone(o) /\ Shown(o) /\ UploadShown(o))'
  <2>1. Alone(o) /\ Shown(o)
    BY DEF IInv
  <2>2. Pending(o)'
    BY DEF Pending
  <2>3. v.last \in 0..submitted' /\ v.last # 0
    BY <1>1
  <2>4. Alone(o)'
    BY <1>2, <2>1, <2>2 DEF Alone, Pending
  <2>5. Shown(o)'
    BY <1>2, <2>1, <2>3 DEF Shown
  <2>6. UploadShown(o)'
    BY <1>2, <2>2 DEF UploadShown
  <2> QED
    BY <2>4, <2>5, <2>6
<1> QED
  BY <1>3, <1>4, <1>5, <1>6 DEF IInv

LEMMA ExecuteKeeps ==
    ASSUME IInv, NEW o \in Operations, NEW filled \in SUBSET o.params,
           NEW chosen \in TypesOffered(o), Execute(o, filled, chosen),
           submitted' = submitted + 1, UNCHANGED <<client, authz, page, told>>
    PROVE  IInv'
<1>1. PICK b : b = Built(o, filled, chosen)
  OBVIOUS
<1>2. TypeOK /\ ~IsFileUpload(o)
  BY DEF IInv, Execute
<1>3. Carries(o, filled, b)
  BY <1>1, <1>2, BuiltAsFilled
<1>4. PICK keys \in SUBSET Keys : keys = Apply(o.security)
  BY <1>2 DEF TypeOK, Apply
<1>5. PICK s : s = Sent(submitted + 1, o, keys, filled, b)
  OBVIOUS
<1>6. /\ s \in RequestType /\ s.id = submitted + 1 /\ s.op = o /\ s.page = page
      /\ s.upload = IsFileUpload(o) /\ s.type = b.type
      /\ s.filled = filled /\ s.sent = b.sent
      /\ s.url.id = s.id /\ s.url.keys = s.keys /\ Ordered(s.body)
  <2>1. b.type \in Types /\ b.sent \subseteq o.params \cup {Fake}
    BY <1>3 DEF Carries
  <2> QED
    BY <1>4, <1>5, <2>1, SentFacts
<1>7. AsFilled(s)
  BY <1>2, <1>3, <1>6 DEF Carries, AsFilled, Lossy, Extra
<1>8. PICK v \in ViewType : v = Submitting(o)
  BY SubmittingFacts
<1>9. /\ v.throbber /\ v.last = submitted + 1 /\ v.crossed = Pending(o)
      /\ v.answer = views[o].answer /\ v.url = views[o].url
  BY <1>8, SubmittingFacts
<1>10. /\ requests' = requests \cup {s} /\ views' = [views EXCEPT ![o] = v]
       /\ abandoned' = abandoned
  BY <1>1, <1>4, <1>5, <1>8, Zenon DEF Execute
<1> QED
  BY <1>2, <1>6, <1>7, <1>9, <1>10, SentKeeps

LEMMA HandleFileUploadKeeps ==
    ASSUME IInv, NEW o \in Operations, NEW filled \in SUBSET o.params,
           HandleFileUpload(o, filled),
           submitted' = submitted + 1, UNCHANGED <<client, authz, page, told>>
    PROVE  IInv'
<1>1. IsFileUpload(o) /\ TypeOK
  BY DEF IInv, HandleFileUpload
<1>2. PICK keys \in SUBSET Keys : keys = Apply({})
  BY <1>1 DEF TypeOK, Apply
<1>3. PICK b : b = [type |-> "multipart", sent |-> Uploaded(o, filled)]
  OBVIOUS
<1>4. b.type = "multipart" /\ b.sent = Uploaded(o, filled)
  BY <1>3
<1>5. b.type \in Types /\ b.sent \subseteq o.params \cup {Fake}
  BY <1>1, <1>4, UploadAsFilled DEF Types
<1>6. PICK s : s = Sent(submitted + 1, o, keys, filled, b)
  OBVIOUS
<1>7. /\ s \in RequestType /\ s.id = submitted + 1 /\ s.op = o /\ s.page = page
      /\ s.upload = IsFileUpload(o) /\ s.type = b.type
      /\ s.filled = filled /\ s.sent = b.sent
      /\ s.url.id = s.id /\ s.url.keys = s.keys /\ Ordered(s.body)
  BY <1>2, <1>5, <1>6, SentFacts
<1>8. AsFilled(s)
  BY <1>1, <1>4, <1>7, UploadAsFilled DEF AsFilled, Lossy, Extra
<1>9. PICK w \in ViewType : w = Submitting(o)
  BY SubmittingFacts
<1>10. /\ w.throbber /\ w.last = submitted + 1 /\ w.crossed = Pending(o)
       /\ w.answer = views[o].answer
  BY <1>9, SubmittingFacts, Zenon
<1>11. PICK url \in UrlType : url = [id |-> submitted + 1, keys |-> {}, hops |-> 0]
  <2>1. submitted + 1 \in Nat
    BY <1>1 DEF TypeOK
  <2> QED
    BY <2>1 DEF UrlType
<1>12. PICK v : v = [w EXCEPT !.invocationUrl = url, !.url = url]
  OBVIOUS
<1>13. /\ v \in ViewType /\ v.invocationUrl = url /\ v.throbber = w.throbber
       /\ v.last = w.last /\ v.crossed = w.crossed /\ v.answer = w.answer
  BY <1>9, <1>11, <1>12 DEF ViewType
<1>14. v.invocationUrl.id = s.id
  BY <1>7, <1>11, <1>13
<1>15. /\ requests' = requests \cup {s} /\ views' = [views EXCEPT ![o] = v]
       /\ abandoned' = abandoned
  BY <1>2, <1>3, <1>6, <1>9, <1>11, <1>12, Zenon DEF HandleFileUpload
<1> QED
  BY <1>1, <1>7, <1>8, <1>10, <1>13, <1>14, <1>15, SentKeeps

LEMMA SubmitOperationKeeps ==
    ASSUME IInv, NEW o \in Operations, SubmitOperation(o)
    PROVE  IInv'
<1>1. PICK filled \in SUBSET o.params :
          \/ SubmitRefused(o, filled)
          \/ \E chosen \in TypesOffered(o) : Execute(o, filled, chosen)
          \/ HandleFileUpload(o, filled)
  BY Zenon DEF SubmitOperation
<1>2. submitted' = submitted + 1 /\ UNCHANGED <<client, authz, page, told>>
  BY Zenon DEF SubmitOperation
<1> QED
  BY <1>1, <1>2, SubmitRefusedKeeps, ExecuteKeeps, HandleFileUploadKeeps, Zenon

(* A request that goes on is the same request. *)
LEMMA ContinuesKeeps ==
    ASSUME IInv, NEW r \in requests, NEW s \in RequestType,
           UNCHANGED <<client, authz, page, views, submitted, abandoned>>,
           requests' = (requests \ {r}) \cup {s},
           s.id = r.id, s.op = r.op, s.page = r.page, s.upload = r.upload,
           s.type = r.type, s.filled = r.filled, s.sent = r.sent,
           s.url.id = s.id, s.url.hops = 0 => s.url.keys = s.keys, Ordered(s.body)
    PROVE  IInv'
<1>1. TypeOK'
  BY DEF IInv, TypeOK
<1>2. Requests'
  <2>1. Request(r)
    BY DEF IInv, Requests
  <2>2. \A q \in requests : Request(q)'
    BY DEF IInv, Requests, Request, AsFilled, Lossy, Extra
  <2>3. Request(s)'
    <3>1. AsFilled(s)'
      BY <2>1 DEF Request, AsFilled, Lossy, Extra
    <3> QED
      BY <2>1, <3>1 DEF Request
  <2>4. \A q \in requests \ {r} : q.id # s.id
    BY DEF IInv, Requests
  <2> QED
    BY <2>2, <2>3, <2>4 DEF IInv, Requests
<1>3. ASSUME NEW o \in Operations PROVE (Alone(o) /\ Shown(o) /\ UploadShown(o))'
  <2>1. Alone(o) /\ Shown(o) /\ UploadShown(o)
    BY DEF IInv
  <2>2. Pending(o)' <=> Pending(o)
    BY DEF Pending
  <2>3. Alone(o)'
    BY <2>1, <2>2 DEF Alone
  <2>4. Shown(o)' /\ UploadShown(o)'
    BY <2>1, <2>2 DEF Shown, UploadShown
  <2> QED
    BY <2>3, <2>4
<1> QED
  BY <1>1, <1>2, <1>3 DEF IInv

(* A request that ends does so in its own view, whole or lost. *)
LEMMA EndsKeeps ==
    ASSUME IInv, NEW r \in requests, NEW code \in Nat, NEW body, NEW lost \in BOOLEAN,
           Ordered(body), ~lost => Len(body) = Length, ShowStatus(r, code, body, lost),
           requests' = requests \ {r},
           UNCHANGED <<client, authz, page, submitted, abandoned>>
    PROVE  IInv'
<1>1. /\ r \in RequestType /\ Request(r) /\ views \in [Operations -> ViewType]
      /\ body \in Seq(Nat)
  BY DEF IInv, TypeOK, Requests, Ordered
<1>2. PICK o \in Operations : o = r.op
  BY <1>1 DEF RequestType
<1>3. PICK view \in ViewType : view = views[o]
  BY <1>1
<1>4. Alone(o) /\ Shown(o) /\ UploadShown(o)
  BY DEF IInv
<1>5. Requests'
  BY DEF IInv, Requests, Request, AsFilled, Lossy, Extra
<1>6. CASE r.page # page
  <2>1. views' = views
    BY <1>6 DEF ShowStatus
  <2>2. TypeOK'
    BY <2>1 DEF IInv, TypeOK
  <2>3. ASSUME NEW q \in Operations PROVE (Alone(q) /\ Shown(q) /\ UploadShown(q))'
    <3>1. Alone(q) /\ Shown(q) /\ UploadShown(q)
      BY DEF IInv
    <3>2. Pending(q)' <=> Pending(q)
      BY <1>6 DEF Pending
    <3>3. Alone(q)'
      BY <2>1, <3>1, <3>2 DEF Alone
    <3>4. Shown(q)' /\ UploadShown(q)'
      BY <2>1, <3>1, <3>2 DEF Shown, UploadShown
    <3> QED
      BY <3>3, <3>4
  <2> QED
    BY <1>5, <2>2, <2>3 DEF IInv
<1>7. CASE r.page = page
  <2>1. PICK answer \in AnswerType :
            answer = [id |-> r.id, code |-> code, keys |-> r.keys, body |-> body, lost |-> lost]
    <3>1. r.id \in Nat /\ r.keys \in SUBSET Keys
      BY <1>1 DEF RequestType
    <3> QED
      BY <1>1, <3>1 DEF AnswerType
  <2>2. PICK url \in UrlType : url = ShownUrl(r, view)
    <3>1. r.url \in UrlType /\ view.invocationUrl \in UrlType
      BY <1>1 DEF RequestType, ViewType
    <3> QED
      BY <3>1 DEF ShownUrl
  <2>3. PICK v : v = [view EXCEPT !.throbber = FALSE, !.url = url, !.answer = answer]
    OBVIOUS
  <2>4. /\ v \in ViewType /\ ~v.throbber /\ v.url = url /\ v.answer = answer
        /\ v.invocationUrl = view.invocationUrl /\ v.last = view.last
        /\ v.crossed = view.crossed
    BY <2>3 DEF ViewType
  <2>5. views' = [views EXCEPT ![o] = v]
    <3>1. views' = [views EXCEPT ![r.op] =
                      [@ EXCEPT !.throbber = FALSE, !.url = ShownUrl(r, views[r.op]),
                          !.answer = [id |-> r.id, code |-> code, keys |-> r.keys,
                                      body |-> body, lost |-> lost]]]
      BY <1>7, Zenon DEF ShowStatus
    <3> QED
      BY <1>2, <1>3, <2>1, <2>2, <2>3, <3>1, Zenon
  <2>6. views'[o] = v /\ \A q \in Operations \ {o} : views'[q] = views[q]
    BY <1>1, <2>5
  <2>7. TypeOK'
    BY <1>1, <2>4, <2>5 DEF IInv, TypeOK
  <2>8. ASSUME NEW q \in Operations \ {o} PROVE (Alone(q) /\ Shown(q) /\ UploadShown(q))'
    <3>1. Alone(q) /\ Shown(q) /\ UploadShown(q)
      BY DEF IInv
    <3>2. Pending(q)' <=> Pending(q)
      BY <1>2 DEF Pending
    <3>3. Alone(q)'
      BY <2>6, <3>1, <3>2 DEF Alone
    <3>4. Shown(q)' /\ UploadShown(q)'
      BY <2>6, <3>1, <3>2 DEF Shown, UploadShown
    <3> QED
      BY <3>3, <3>4
  <2>9. (Alone(o) /\ Shown(o) /\ UploadShown(o))'
    <3>1. /\ r.id \notin abandoned /\ r.id # 0 /\ r.upload = IsFileUpload(o)
          /\ r.url.id = r.id /\ (r.url.hops = 0 => r.url.keys = r.keys)
      BY <1>1, <1>2 DEF Request
    <3>2. answer.id = r.id /\ answer.keys = r.keys /\ answer.body = body /\ answer.lost = lost
      BY <2>1
    <3>3. ASSUME ~view.crossed PROVE r.id = view.last /\ ~Pending(o)'
      <4>1. \A q \in requests : q.op = o /\ q.page = page => q.id = view.last
        BY <1>3, <1>4, <3>3 DEF Alone
      <4>2. r.id = view.last
        BY <1>2, <1>7, <4>1
      <4> QED
        BY <4>1, <4>2 DEF IInv, Requests, Pending
    <3>4. Alone(o)'
      BY <2>4, <2>6, <3>1, <3>2, <3>3 DEF Alone, Pending
    <3>5. Shown(o)'
      <4>1. view.last \in 0..submitted /\ (view.last = 0 => ~view.crossed)
        BY <1>3, <1>4 DEF Shown
      <4>2. view.last # 0
        BY <3>1, <3>3, <4>1
      <4>3. ~IsFileUpload(o) => url = r.url
        BY <2>2, <3>1 DEF ShownUrl
      <4> QED
        BY <2>4, <2>6, <3>1, <3>2, <4>1, <4>2, <4>3 DEF Shown
    <3>6. UploadShown(o)'
      <4>1. IsFileUpload(o) => url = view.invocationUrl
        BY <2>2, <3>1 DEF ShownUrl
      <4> QED
        BY <1>3, <1>4, <2>4, <2>6, <3>1, <3>2, <3>3, <4>1 DEF UploadShown
    <3> QED
      BY <3>4, <3>5, <3>6
  <2> QED
    BY <1>5, <2>7, <2>8, <2>9 DEF IInv
<1> QED
  BY <1>6, <1>7

(* One event of a request that is out. *)
LEMMA AnswerKeeps ==
    ASSUME IInv, NEW r \in requests, Answer(r.id, r)
    PROVE  IInv'
<1>1. r \in RequestType /\ Request(r) /\ Codes \subseteq Nat /\ Length \in Nat
  BY CallsAssumption DEF IInv, TypeOK, Requests
<1>2. r.url \in UrlType /\ r.status \in Nat /\ r.id \in Nat
  BY <1>1 DEF RequestType
<1>3. UNCHANGED <<client, authz, page, submitted, abandoned>>
  BY Zenon DEF Answer
<1>4. Ordered(r.body) /\ r.body \in Seq(Nat) /\ Len(r.body) \in Nat /\ Len(r.body) <= Length
  BY <1>1 DEF Request, Ordered
<1>5. CASE HeadersReceived(r)
  <2>1. PICK code \in Nat : requests' = (requests \ {r}) \cup {[r EXCEPT !.status = code]}
    BY <1>1, <1>5 DEF HeadersReceived, Redirecting
  <2>2. PICK s : s = [r EXCEPT !.status = code]
    OBVIOUS
  <2>3. /\ s \in RequestType /\ s.id = r.id /\ s.op = r.op /\ s.page = r.page
        /\ s.upload = r.upload /\ s.type = r.type /\ s.filled = r.filled /\ s.sent = r.sent
        /\ s.url = r.url /\ s.keys = r.keys /\ s.body = r.body
    BY <1>1, <2>2 DEF RequestType
  <2>4. s.url.id = s.id /\ (s.url.hops = 0 => s.url.keys = s.keys) /\ Ordered(s.body)
    BY <1>1, <2>3 DEF Request
  <2>5. requests' = (requests \ {r}) \cup {s} /\ views' = views
    BY <1>5, <2>1, <2>2, Zenon DEF HeadersReceived
  <2> QED
    BY <1>3, <2>3, <2>4, <2>5, ContinuesKeeps
<1>6. CASE Loading(r)
  <2>1. PICK text \in (Len(r.body) + 1)..Length :
            requests' = (requests \ {r}) \cup {[r EXCEPT !.body = Received(r, text)]}
    BY <1>6, Zenon DEF Loading
  <2>2. PICK body : body = Received(r, text)
    OBVIOUS
  <2>3. text \in Nat /\ Len(r.body) <= text /\ text <= Length
    BY <1>1, <1>4, <2>1
  <2>4. Ordered(body)
    BY <1>4, <2>2, <2>3, ReceivedInOrder
  <2>5. PICK s : s = [r EXCEPT !.body = body]
    OBVIOUS
  <2>6. body \in Seq(Nat)
    BY <2>4 DEF Ordered
  <2>7. /\ s \in RequestType /\ s.id = r.id /\ s.op = r.op /\ s.page = r.page
        /\ s.upload = r.upload /\ s.type = r.type /\ s.filled = r.filled /\ s.sent = r.sent
        /\ s.url = r.url /\ s.keys = r.keys /\ s.body = body
    BY <1>1, <2>5, <2>6 DEF RequestType
  <2>8. s.url.id = s.id /\ (s.url.hops = 0 => s.url.keys = s.keys) /\ Ordered(s.body)
    BY <1>1, <2>4, <2>7 DEF Request
  <2>9. requests' = (requests \ {r}) \cup {s} /\ views' = views
    BY <1>6, <2>1, <2>2, <2>5, Zenon DEF Loading
  <2> QED
    BY <1>3, <2>7, <2>8, <2>9, ContinuesKeeps
<1>7. CASE Redirect(r)
  <2>1. PICK url : url = [id |-> r.id, keys |-> {}, hops |-> r.url.hops + 1]
    OBVIOUS
  <2>2. r.url.hops \in Nat
    BY <1>2 DEF UrlType
  <2>3. url \in UrlType /\ url.id = r.id /\ url.hops # 0
    BY <1>2, <2>1, <2>2 DEF UrlType
  <2>4. PICK s : s = [r EXCEPT !.url = url, !.status = 0, !.body = <<>>]
    OBVIOUS
  <2>5. /\ s \in RequestType /\ s.id = r.id /\ s.op = r.op /\ s.page = r.page
        /\ s.upload = r.upload /\ s.type = r.type /\ s.filled = r.filled /\ s.sent = r.sent
        /\ s.url = url /\ s.keys = r.keys /\ s.body = <<>>
    <3>1. r \in RequestType /\ url \in UrlType /\ 0 \in Nat /\ <<>> \in Seq(Nat)
      BY <1>1, <2>3
    <3> QED
      BY <2>4, <3>1 DEF RequestType
  <2>6. Ordered(<<>>)
    BY <1>1 DEF Ordered
  <2>7. s.url.id = s.id /\ (s.url.hops = 0 => s.url.keys = s.keys) /\ Ordered(s.body)
    BY <2>3, <2>5, <2>6
  <2>8. requests' = (requests \ {r}) \cup {s} /\ views' = views
    BY <1>7, <2>1, <2>4, Zenon DEF Redirect
  <2> QED
    BY <1>3, <2>5, <2>7, <2>8, ContinuesKeeps
<1>8. ASSUME NEW code \in Nat, NEW body, NEW lost \in BOOLEAN,
             Ordered(body), ~lost => Len(body) = Length, ShowStatus(r, code, body, lost),
             requests' = requests \ {r}
      PROVE  IInv'
  BY <1>3, <1>8, EndsKeeps
<1>9. Ordered(Whole) /\ Len(Whole) = Length /\ Ordered(<<>>)
  BY <1>1 DEF Whole, Ordered
<1>10. CASE JQueryComplete(r)
  <2>1. requests' = requests \ {r}
    BY <1>10, Zenon DEF JQueryComplete
  <2>2. CASE \E code \in Codes : ShowStatus(r, code, Whole, FALSE)
    <3>1. PICK code \in Nat : ShowStatus(r, code, Whole, FALSE)
      BY <1>1, <2>2
    <3> QED
      BY <1>8, <1>9, <2>1, <3>1, Zenon
  <2>3. CASE ShowStatus(r, 0, <<>>, TRUE)
    <3>1. 0 \in Nat
      OBVIOUS
    <3> QED
      BY <1>8, <1>9, <2>1, <2>3, <3>1, Zenon
  <2> QED
    BY <1>10, <2>2, <2>3, Zenon DEF JQueryComplete
<1>11. ASSUME NEW body, NEW lost \in BOOLEAN, Ordered(body), ~lost => Len(body) = Length,
              r.status # Redirecting, Emit(r, r.status, body, lost),
              requests' = requests \ {r}
       PROVE  IInv'
  <2>1. ShowStatus(r, r.status, body, lost)
    BY <1>2, <1>11, EveryEndHeard, Zenon DEF Emit
  <2> QED
    BY <1>2, <1>8, <1>11, <2>1, Zenon
<1>12. CASE Done(r)
  <2>1. Ordered(Received(r, Length)) /\ Len(Received(r, Length)) = Length
    <3>1. Length <= Length
      BY <1>1
    <3> QED
      BY <1>1, <1>4, <3>1, ReceivedInOrder, Zenon
  <2> QED
    BY <1>7, <1>11, <1>12, <2>1, Zenon DEF Done
<1>13. CASE Lost(r)
  BY <1>4, <1>7, <1>11, <1>13, Zenon DEF Lost
<1> QED
  BY <1>5, <1>6, <1>10, <1>12, <1>13, Zenon DEF Answer, Event, End

(* Every step keeps the invariant. *)
LEMMA NextIInv == IInv /\ [Next]_vars => IInv'
<1> SUFFICES ASSUME IInv, [Next]_vars PROVE IInv'
  OBVIOUS
<1>1. CASE AddKey
  BY <1>1, AddKeyKeeps
<1>2. CASE ApplyApiKey
  BY <1>2, ApplyApiKeyKeeps
<1>3. CASE \E o \in Operations : SubmitOperation(o)
  BY <1>3, SubmitOperationKeeps
<1>4. CASE \E r \in requests : Answer(r.id, r)
  BY <1>4, AnswerKeeps
<1>5. CASE UNCHANGED vars
  <2>1. UNCHANGED <<client, authz, page, views, requests, submitted, told, abandoned>>
    BY <1>5 DEF vars
  <2>2. TypeOK'
    BY <2>1 DEF IInv, TypeOK
  <2>3. Requests'
    BY <2>1 DEF IInv, Requests, Request, AsFilled, Lossy, Extra
  <2>4. ASSUME NEW o \in Operations PROVE (Alone(o) /\ Shown(o) /\ UploadShown(o))'
    <3>1. Alone(o) /\ Shown(o) /\ UploadShown(o) /\ (Pending(o)' <=> Pending(o))
      BY <2>1 DEF IInv, Pending
    <3>2. Alone(o)'
      BY <2>1, <3>1 DEF Alone
    <3> QED
      BY <2>1, <3>1, <3>2 DEF Shown, UploadShown
  <2> QED
    BY <2>2, <2>3, <2>4 DEF IInv
<1> QED
  BY <1>1, <1>2, <1>3, <1>4, <1>5, Zenon DEF Next, Quiet

-----------------------------------------------------------------------------
(* The theorems                                                            *)

(* The invariant holds of every behaviour: requests are told apart, each    *)
(* belongs to a view of its page, and views show one request at a time.     *)
THEOREM Inductive == Spec => []IInv
BY InitIInv, NextIInv, PTL DEF Spec

(* OperationView.submitOperation shows the throbber and showStatus hides it: *)
(* it tells whether an answer is out, or was refused, in every view that no  *)
(* second submission crossed.                                                *)
THEOREM ThrobberTellsTheorem == Spec => []ThrobberTells
<1>1. IInv => ThrobberTells
  BY DEF IInv, Alone, ThrobberTells
<1> QED
  BY <1>1, Inductive, PTL

(* OperationView.showStatus shows URL, code and body of one request, however *)
(* the text of the answer came in and however often it was redirected.       *)
THEOREM ShownTogetherTheorem == Spec => []ShownTogether
<1>1. ASSUME IInv, NEW o \in Operations PROVE
          LET view   == views[o]
              answer == view.answer
              upload == IsFileUpload(o)
              mixed  == Pending(o) \/ view.crossed \/ view.last \in abandoned
          IN answer.id # 0 /\ ~(upload /\ mixed) =>
                /\ view.url.id = answer.id
                /\ ~upload /\ view.url.hops = 0 => view.url.keys = answer.keys
                /\ \A k \in DOMAIN answer.body : answer.body[k] = k
                /\ ~answer.lost => Len(answer.body) = Length
                /\ ~Pending(o) /\ ~view.crossed /\ view.last \notin abandoned =>
                      answer.id = view.last
  <2>1. Alone(o) /\ Shown(o) /\ UploadShown(o)
    BY <1>1 DEF IInv
  <2>2. views[o].answer.id # 0 => DOMAIN views[o].answer.body = 1..Len(views[o].answer.body)
    BY <2>1 DEF Shown, Ordered
  <2> QED
    BY <2>1, <2>2 DEF Alone, Shown, UploadShown, Ordered
<1>2. IInv => ShownTogether
  BY <1>1, Zenon DEF ShownTogether
<1> QED
  BY <1>2, Inductive, PTL

(* Operation.execute, SwaggerOperation.do and handleFileUpload put into the *)
(* request what the form was filled with, for all operations and parameters. *)
THEOREM RequestAsFilledTheorem == Spec => []RequestAsFilled
<1>1. IInv => RequestAsFilled
  BY DEF IInv, Requests, Request, RequestAsFilled
<1> QED
  BY <1>1, Inductive, PTL

-----------------------------------------------------------------------------
(* The promise of CallPromise.tla                                          *)

\* A request as CallPromise has it.
Seen(r) == [id |-> r.id, view |-> r.op, page |-> r.page]

LEMMA OutSeen == out = {Seen(r) : r \in requests}
BY DEF out, Seen

(* A submission is sent or refused, and no answer is shown by it. *)
LEMMA SubmitPromised ==
    ASSUME IInv, NEW o \in Operations, SubmitOperation(o)
    PROVE  Promise!Submit(o) \/ Promise!Refuse
<1>1. submitted' = submitted + 1 /\ UNCHANGED <<page, told>>
  BY Zenon DEF SubmitOperation
<1>2. PICK filled \in SUBSET o.params :
          \/ SubmitRefused(o, filled)
          \/ \E chosen \in TypesOffered(o) : Execute(o, filled, chosen)
          \/ HandleFileUpload(o, filled)
  BY Zenon DEF SubmitOperation
<1>3. ASSUME NEW v, v.answer = views[o].answer, views' = [views EXCEPT ![o] = v]
      PROVE  shown' = shown
  BY <1>3 DEF IInv, TypeOK, shown
<1>4. Submitting(o).answer = views[o].answer
  BY DEF IInv, TypeOK, ViewType, Submitting
<1>5. ASSUME NEW keys, NEW built,
             requests' = requests \cup {Sent(submitted + 1, o, keys, filled, built)}
      PROVE  out' = out \cup {[id |-> submitted', view |-> o, page |-> page]}
  <2>1. PICK s : s = Sent(submitted + 1, o, keys, filled, built)
    OBVIOUS
  <2>2. Seen(s) = [id |-> submitted', view |-> o, page |-> page]
    BY <1>1, <2>1 DEF Sent, Seen
  <2>3. requests' = requests \cup {s}
    BY <1>5, <2>1
  <2>4. out' = {Seen(r) : r \in requests'}
    BY DEF out, Seen
  <2> QED
    BY <2>2, <2>3, <2>4, OutSeen
<1>6. CASE SubmitRefused(o, filled)
  <2>1. shown' = shown
    BY <1>3, <1>4, <1>6, Zenon DEF SubmitRefused
  <2>2. out' = out /\ abandoned' = abandoned \cup {submitted'}
    BY <1>1, <1>6 DEF SubmitRefused, out
  <2> QED
    BY <1>1, <2>1, <2>2 DEF Promise!Refuse
<1>7. CASE \E chosen \in TypesOffered(o) : Execute(o, filled, chosen)
  <2>1. shown' = shown
    BY <1>3, <1>4, <1>7, Zenon DEF Execute
  <2>2. abandoned' = abandoned
    BY <1>7, Zenon DEF Execute
  <2>3. out' = out \cup {[id |-> submitted', view |-> o, page |-> page]}
    BY <1>5, <1>7, Zenon DEF Execute
  <2> QED
    BY <1>1, <2>1, <2>2, <2>3 DEF Promise!Submit
<1>8. CASE HandleFileUpload(o, filled)
  <2>1. PICK url : /\ views' = [views EXCEPT ![o] =
                         [Submitting(o) EXCEPT !.invocationUrl = url, !.url = url]]
    BY <1>8, Zenon DEF HandleFileUpload
  <2>2. PICK v : v = [Submitting(o) EXCEPT !.invocationUrl = url, !.url = url]
    OBVIOUS
  <2>3. v.answer = views[o].answer
    BY <2>2 DEF IInv, TypeOK, ViewType, Submitting
  <2>4. shown' = shown
    BY <1>3, <2>1, <2>2, <2>3, Zenon
  <2>5. abandoned' = abandoned
    BY <1>8, Zenon DEF HandleFileUpload
  <2>6. out' = out \cup {[id |-> submitted', view |-> o, page |-> page]}
    BY <1>5, <1>8, Zenon DEF HandleFileUpload
  <2> QED
    BY <1>1, <2>4, <2>5, <2>6 DEF Promise!Submit
<1> QED
  BY <1>2, <1>6, <1>7, <1>8, Zenon

(* A request that goes on is the same submission. *)
LEMMA ContinuesPromised ==
    ASSUME NEW r \in requests, NEW s, requests' = (requests \ {r}) \cup {s},
           s.id = r.id, s.op = r.op, s.page = r.page,
           UNCHANGED <<page, views, told, submitted, abandoned>>
    PROVE  UNCHANGED Promise!vars
<1>1. Seen(s) = Seen(r)
  BY DEF Seen
<1>2. out' = {Seen(q) : q \in requests'}
  BY DEF out, Seen
<1>3. out' = out
  BY <1>1, <1>2, OutSeen
<1> QED
  BY <1>3 DEF Promise!vars, shown

(* No other request is of the same submission. *)
LEMMA EndsPromised ==
    ASSUME IInv, NEW r \in requests, NEW code, NEW body, NEW lost,
           ShowStatus(r, code, body, lost), requests' = requests \ {r},
           UNCHANGED <<page, submitted, abandoned>>
    PROVE  Promise!Answer(Seen(r)) /\ Seen(r) \in out
<1>1. r \in RequestType /\ views \in [Operations -> ViewType]
      /\ \A q \in requests : q.id = r.id => q = r
  BY DEF IInv, TypeOK, Requests
<1>2. PICK o \in Operations : o = r.op
  BY <1>1 DEF RequestType
<1>3. PICK s : s = Seen(r)
  OBVIOUS
<1>4. s.id = r.id /\ s.view = o /\ s.page = r.page
  BY <1>2, <1>3 DEF Seen
<1>5. out' = out \ {s}
  <2>1. out' = {Seen(q) : q \in requests'}
    BY DEF out, Seen
  <2>2. \A q \in requests : Seen(q) = s => q = r
    BY <1>1, <1>4 DEF Seen
  <2> QED
    BY <1>3, <2>1, <2>2, OutSeen
<1>6. shown' = IF r.page = page THEN [shown EXCEPT ![o] = r.id] ELSE shown
  <2>1. CASE r.page = page
    <3>1. PICK url, answer :
            /\ answer.id = r.id
            /\ views' = [views EXCEPT ![o] =
                            [@ EXCEPT !.throbber = FALSE, !.url = url, !.answer = answer]]
      <4>1. PICK answer : answer = [id |-> r.id, code |-> code, keys |-> r.keys,
                                    body |-> body, lost |-> lost]
        OBVIOUS
      <4>2. answer.id = r.id
        BY <4>1
      <4>3. views' = [views EXCEPT ![r.op] =
                        [@ EXCEPT !.throbber = FALSE, !.url = ShownUrl(r, views[r.op]),
                            !.answer = [id |-> r.id, code |-> code, keys |-> r.keys,
                                        body |-> body, lost |-> lost]]]
        BY <2>1, Zenon DEF ShowStatus
      <4> QED
        BY <1>2, <4>1, <4>2, <4>3, Zenon
    <3>2. PICK view \in ViewType : view = views[o]
      BY <1>1
    <3>3. PICK v : v = [view EXCEPT !.throbber = FALSE, !.url = url, !.answer = answer]
      OBVIOUS
    <3>4. v.answer = answer
      BY <3>3 DEF ViewType
    <3>5. views' = [views EXCEPT ![o] = v]
      BY <3>1, <3>2, <3>3, Zenon
    <3>6. \A q \in Operations : views'[q].answer.id = IF q = o THEN r.id ELSE views[q].answer.id
      BY <1>1, <3>1, <3>4, <3>5
    <3>7. shown' = [shown EXCEPT ![o] = r.id]
      BY <3>6 DEF shown
    <3> QED
      BY <2>1, <3>7
  <2>2. CASE r.page # page
    BY <2>2 DEF ShowStatus, shown
  <2> QED
    BY <2>1, <2>2
<1>7. told' = told \cup {s.id}
  BY <1>4 DEF ShowStatus
<1>8. Promise!Answer(s)
  BY <1>4, <1>5, <1>6, <1>7 DEF Promise!Answer
<1>9. s \in out
  BY <1>3, OutSeen
<1> QED
  BY <1>3, <1>8, <1>9

LEMMA AnswerPromised ==
    ASSUME IInv, NEW r \in requests, Answer(r.id, r)
    PROVE  (\E s \in out : Promise!Answer(s)) \/ UNCHANGED Promise!vars
<1>1. r \in RequestType /\ r.status \in Nat
  BY DEF IInv, TypeOK, RequestType
<1>2. UNCHANGED <<page, submitted, abandoned>>
  BY Zenon DEF Answer
<1>3. ASSUME NEW s, requests' = (requests \ {r}) \cup {s},
             s.id = r.id, s.op = r.op, s.page = r.page, UNCHANGED <<views, told>>
      PROVE  UNCHANGED Promise!vars
  BY <1>2, <1>3, ContinuesPromised
<1>4. ASSUME NEW code, NEW body, NEW lost,
             ShowStatus(r, code, body, lost), requests' = requests \ {r}
      PROVE  \E s \in out : Promise!Answer(s)
  BY <1>2, <1>4, EndsPromised
<1>5. CASE HeadersReceived(r)
  <2>1. PICK code : requests' = (requests \ {r}) \cup {[r EXCEPT !.status = code]}
    BY <1>5, Zenon DEF HeadersReceived
  <2>2. PICK s : s = [r EXCEPT !.status = code]
    OBVIOUS
  <2>3. s.id = r.id /\ s.op = r.op /\ s.page = r.page
    BY <1>1, <2>2 DEF RequestType
  <2>4. requests' = (requests \ {r}) \cup {s} /\ UNCHANGED <<views, told>>
    BY <1>5, <2>1, <2>2, Zenon DEF HeadersReceived
  <2> QED
    BY <1>3, <2>3, <2>4
<1>6. CASE Loading(r)
  <2>1. PICK text : requests' = (requests \ {r}) \cup {[r EXCEPT !.body = Received(r, text)]}
    BY <1>6, Zenon DEF Loading
  <2>2. PICK body : body = Received(r, text)
    OBVIOUS
  <2>3. PICK s : s = [r EXCEPT !.body = body]
    OBVIOUS
  <2>4. s.id = r.id /\ s.op = r.op /\ s.page = r.page
    BY <1>1, <2>3 DEF RequestType
  <2>5. requests' = (requests \ {r}) \cup {s} /\ UNCHANGED <<views, told>>
    BY <1>6, <2>1, <2>2, <2>3, Zenon DEF Loading
  <2> QED
    BY <1>3, <2>4, <2>5
<1>7. CASE Redirect(r)
  <2>1. PICK url : url = [id |-> r.id, keys |-> {}, hops |-> r.url.hops + 1]
    OBVIOUS
  <2>2. PICK s : s = [r EXCEPT !.url = url, !.status = 0, !.body = <<>>]
    OBVIOUS
  <2>3. s.id = r.id /\ s.op = r.op /\ s.page = r.page
    BY <1>1, <2>2 DEF RequestType
  <2>4. requests' = (requests \ {r}) \cup {s} /\ UNCHANGED <<views, told>>
    BY <1>7, <2>1, <2>2, Zenon DEF Redirect
  <2> QED
    BY <1>3, <2>3, <2>4
<1>8. CASE JQueryComplete(r)
  BY <1>4, <1>8, Zenon DEF JQueryComplete
<1>9. ASSUME NEW body, NEW lost, r.status # Redirecting, Emit(r, r.status, body, lost),
             requests' = requests \ {r}
      PROVE  \E s \in out : Promise!Answer(s)
  <2>1. ShowStatus(r, r.status, body, lost)
    BY <1>1, <1>9, EveryEndHeard, Zenon DEF Emit
  <2> QED
    BY <1>4, <1>9, <2>1
<1>10. CASE Done(r)
  BY <1>7, <1>9, <1>10, Zenon DEF Done
<1>11. CASE Lost(r)
  BY <1>7, <1>9, <1>11, Zenon DEF Lost
<1> QED
  BY <1>5, <1>6, <1>8, <1>10, <1>11, Zenon DEF Answer, Event, End

(* The calls implement CallPromise: a submission is refused or answered    *)
(* once, in the view it was made in, whatever the connection does: the     *)
(* listeners of the two HTTP clients and OperationView.showStatus.         *)
THEOREM PromiseKept == Spec => PromiseSpec
<1>1. Init => Promise!Init
  BY DEF Init, OperationView, NoAnswer, Promise!Init, out, shown
<1>2. IInv /\ [Next]_vars => [Promise!Next]_(Promise!vars)
  <2> SUFFICES ASSUME IInv, [Next]_vars
               PROVE  Promise!Next \/ UNCHANGED Promise!vars
    OBVIOUS
  <2>1. CASE AddKey \/ UNCHANGED vars
    BY <2>1 DEF AddKey, vars, Promise!vars, out, shown
  <2>2. CASE ApplyApiKey
    <3>1. shown' = [o \in Operations |-> 0]
      BY <2>2 DEF ApplyApiKey, OperationView, NoAnswer, shown
    <3>2. Promise!NewPage
      BY <2>2, <3>1 DEF ApplyApiKey, Promise!NewPage, out
    <3> QED
      BY <3>2, Zenon DEF Promise!Next
  <2>3. ASSUME NEW o \in Operations, SubmitOperation(o) PROVE Promise!Next
    BY <2>3, SubmitPromised, Zenon DEF Promise!Next
  <2>4. ASSUME NEW r \in requests, Answer(r.id, r)
        PROVE  Promise!Next \/ UNCHANGED Promise!vars
    BY <2>4, AnswerPromised, Zenon DEF Promise!Next
  <2> QED
    BY <2>1, <2>2, <2>3, <2>4, Zenon DEF Next, Quiet
<1> QED
  BY <1>1, <1>2, Inductive, PTL DEF Spec, PromiseSpec, Promise!Spec

-----------------------------------------------------------------------------
(* What the view of an operation shows of data: SwaggerViews, which has no *)
(* state in common with the calls.  An invariant of each of its parts.     *)

-----------------------------------------------------------------------------
(* The responses of an operation: SwaggerResponses                         *)

\* The response that is the class.
Class(code) == Rsp!DefaultResponse(code) /\ Rsp!HasSchema(described[code])

\* The constructor has run and taken the class out, or left all.
Constructed ==
    \/ /\ success = <<>> /\ responses = described
       /\ \A code \in DOMAIN described : ~Class(code)
    \/ \E code \in DOMAIN described :
          /\ Class(code)
          /\ success = <<code, Rsp!ResolveModel(described[code])>>
          /\ responses = [c \in DOMAIN described \ {code} |-> described[c]]

\* What a view made now shows.
ViewNow ==
    IF Rsp!RenderThrows THEN Rsp!NoView
    ELSE [throws |-> FALSE, class |-> success,
          messages |-> [c \in DOMAIN responses |-> Rsp!StatusCode(responses[c])]]

ResponsesInv ==
    /\ described \in [DOMAIN described -> Rsp!Schemas]
    /\ IF success = Rsp!Unbuilt THEN responses = described /\ rendered = <<>>
       ELSE /\ Constructed /\ rendered \in Seq({ViewNow})
            /\ ViewNow.throws => Len(rendered) <= 1

\* The sample of a response cannot be made.
NoSample(code) ==
    \/ described[code] \in [kind : {"reference"}, of : Throwing]
    \/ /\ Class(code)
       /\ described[code] \in [kind : {"array"}, of : Throwing \cup Undefined]

(* At most one response is the class. *)
LEMMA OneClass ==
    ASSUME NEW c, NEW e, Rsp!DefaultResponse(c), Rsp!DefaultResponse(e)
    PROVE  c = e
<1>1. DOMAIN Rsp!SuccessCodes = 1..8
  BY DEF Rsp!SuccessCodes
<1>2. PICK j \in 1..8 : /\ c = Rsp!SuccessCodes[j] /\ c \in DOMAIN described
                        /\ \A i \in 1..j - 1 : Rsp!SuccessCodes[i] \notin DOMAIN described
  BY <1>1 DEF Rsp!DefaultResponse
<1>3. PICK k \in 1..8 : /\ e = Rsp!SuccessCodes[k] /\ e \in DOMAIN described
                        /\ \A i \in 1..k - 1 : Rsp!SuccessCodes[i] \notin DOMAIN described
  BY <1>1 DEF Rsp!DefaultResponse
<1>4. ~(j < k) /\ ~(k < j)
  <2>1. j < k => j \in 1..k - 1
    OBVIOUS
  <2>2. k < j => k \in 1..j - 1
    OBVIOUS
  <2> QED
    BY <1>2, <1>3, <2>1, <2>2
<1>5. j = k
  BY <1>4
<1> QED
  BY <1>2, <1>3, <1>5

LEMMA ResponsesStep ==
    ASSUME ResponsesInv, [Rsp!Next]_(Rsp!rspvars)
    PROVE  ResponsesInv'
<1>1. described' = described
  BY DEF Rsp!Next, Rsp!Operation, Rsp!AddOperation, Rsp!rspvars
<1>2. CASE Rsp!Operation
  <2>1. success = Rsp!Unbuilt /\ responses = described /\ rendered = <<>> /\ rendered' = <<>>
    BY <1>2 DEF ResponsesInv, Rsp!Operation
  <2>2. Constructed' /\ success' # Rsp!Unbuilt
    <3>1. CASE \E code \in DOMAIN described :
                  /\ Rsp!DefaultResponse(code) /\ Rsp!HasSchema(described[code])
                  /\ success' = <<code, Rsp!ResolveModel(described[code])>>
                  /\ responses' = Rsp!Deleted(code)
      <4>1. PICK code \in DOMAIN described :
               /\ Class(code)
               /\ success' = <<code, Rsp!ResolveModel(described[code])>>
               /\ responses' = [c \in DOMAIN described \ {code} |-> described[c]]
        BY <2>1, <3>1 DEF Class, Rsp!Deleted
      <4>2. Class(code)'
        BY <1>1, <4>1 DEF Class, Rsp!DefaultResponse
      <4>3. success' # Rsp!Unbuilt
        BY <4>1 DEF Rsp!Unbuilt
      <4> QED
        BY <1>1, <4>1, <4>2, <4>3 DEF Constructed
    <3>2. CASE /\ \A code \in DOMAIN described :
                     Rsp!DefaultResponse(code) => ~Rsp!HasSchema(described[code])
               /\ success' = <<>> /\ responses' = responses
      <4>1. \A code \in DOMAIN described : ~Class(code)'
        BY <1>1, <3>2 DEF Class, Rsp!DefaultResponse
      <4>2. success' = <<>> /\ responses' = described' /\ success' # Rsp!Unbuilt
        BY <1>1, <2>1, <3>2 DEF Rsp!Unbuilt
      <4> QED
        BY <1>1, <4>1, <4>2 DEF Constructed
    <3> QED
      BY <1>2, <3>1, <3>2 DEF Rsp!Operation
  <2>3. rendered' \in Seq({ViewNow'}) /\ Len(rendered') = 0
    BY <2>1
  <2> QED
    BY <1>1, <2>2, <2>3 DEF ResponsesInv
<1>3. CASE Rsp!AddOperation
  <2>1. /\ success # Rsp!Unbuilt /\ success' = success /\ responses' = responses
        /\ rendered' = Append(rendered, ViewNow)
        /\ \A k \in DOMAIN rendered : ~rendered[k].throws
    BY <1>3 DEF Rsp!AddOperation, ViewNow
  <2>2. Constructed /\ rendered \in Seq({ViewNow})
    BY <2>1 DEF ResponsesInv
  <2>3. ViewNow' = ViewNow
    BY <2>1 DEF ViewNow, Rsp!RenderThrows, Rsp!ClassThrows, Rsp!RowThrows
  <2>4. rendered' \in Seq({ViewNow'}) /\ (ViewNow.throws => Len(rendered') <= 1)
    <3>1. \A k \in 1..Len(rendered) : rendered[k] = ViewNow
      BY <2>2
    <3>2. ViewNow.throws => Len(rendered) = 0
      BY <2>1, <2>2, <3>1
    <3> QED
      BY <2>1, <2>2, <2>3, <3>2
  <2>5. Constructed'
    <3>1. success' = success /\ responses' = responses
      BY <2>1
    <3>2. Constructed' = Constructed
      BY <1>1, <3>1 DEF Constructed, Class, Rsp!DefaultResponse
    <3> QED
      BY <2>2, <3>2
  <2> QED
    BY <1>1, <2>1, <2>3, <2>4, <2>5 DEF ResponsesInv
<1>4. CASE UNCHANGED Rsp!rspvars
  <2>1. responses' = responses /\ success' = success /\ rendered' = rendered
    BY <1>4 DEF Rsp!rspvars
  <2>2. ViewNow' = ViewNow
    BY <2>1 DEF ViewNow, Rsp!RenderThrows, Rsp!ClassThrows, Rsp!RowThrows
  <2>3. Constructed' = Constructed
    BY <1>1, <2>1 DEF Constructed, Class, Rsp!DefaultResponse
  <2> QED
    BY <1>1, <2>1, <2>2, <2>3 DEF ResponsesInv
<1> QED
  BY <1>2, <1>3, <1>4 DEF Rsp!Next

(* Every view shows each response of the description once: the first       *)
(* success as the response class, the others by their codes, although the  *)
(* constructor takes the class out of the description all views read; and  *)
(* the operation is missing exactly if one of these samples cannot be made *)
(* - for any responses, models and number of views (Operation,             *)
(* OperationView.render, StatusCodeView.render).                           *)
THEOREM ResponsesShownOnceTheorem == ViewsSpec => []ResponsesShownOnce
<1> DEFINE Inv == showing = "responses" => ResponsesInv
<1>1. ResponsesInv => Rsp!ResponsesShownOnce
  <2> SUFFICES ASSUME ResponsesInv, NEW k \in DOMAIN rendered
               PROVE
        /\ rendered[k].throws <=> \E code \in DOMAIN described : NoSample(code)
        /\ rendered[k].throws => Len(rendered) = 1
        /\ ~rendered[k].throws =>
             /\ DOMAIN rendered[k].messages \subseteq DOMAIN described
             /\ rendered[k].class # <<>> => rendered[k].class[1] \in DOMAIN described
             /\ \A code \in DOMAIN described :
                   IF Class(code)
                   THEN /\ rendered[k].class # <<>> /\ rendered[k].class[1] = code
                        /\ code \notin DOMAIN rendered[k].messages
                        /\ described[code] \in [kind : {"reference"}, of : ResponseModels] =>
                              rendered[k].class[2] = Rsp!Signature(described[code].of)
                   ELSE /\ rendered[k].class # <<>> => rendered[k].class[1] # code
                        /\ code \in DOMAIN rendered[k].messages
                        /\ described[code] \in [kind : {"reference"}, of : ResponseModels] =>
                              rendered[k].messages[code] = Rsp!Signature(described[code].of)
    BY DEF Rsp!ResponsesShownOnce, Class, NoSample
  <2>1. success # Rsp!Unbuilt
    BY DEF ResponsesInv
  <2>2. /\ Constructed /\ rendered \in Seq({ViewNow})
        /\ ViewNow.throws => Len(rendered) <= 1
    BY <2>1 DEF ResponsesInv
  <2>3. rendered[k] = ViewNow /\ (ViewNow.throws => Len(rendered) = 1)
    <3>1. Len(rendered) \in Nat /\ k \in 1..Len(rendered) /\ rendered[k] = ViewNow
      BY <2>2
    <3> QED
      BY <2>2, <3>1
  <2>4. \A code \in DOMAIN described : described[code] \in Rsp!Schemas
    BY DEF ResponsesInv
  <2>5. \A s : s \in [kind : {"reference"}, of : ResponseModels] =>
            /\ Rsp!ResolveModel(s) = Rsp!Signature(s.of)
            /\ Rsp!StatusCode(s) = Rsp!Signature(s.of)
    BY DEF Rsp!ResolveModel, Rsp!StatusCode
  <2>6. \A s \in Rsp!Schemas :
            Rsp!RowThrows(s) <=> s \in [kind : {"reference"}, of : Throwing]
    BY DEF Rsp!RowThrows, Rsp!Schemas
  <2>7. CASE success = <<>>
    <3>1. responses = described /\ \A code \in DOMAIN described : ~Class(code)
      BY <2>2, <2>7 DEF Constructed
    <3>2. ~Rsp!ClassThrows
      BY <2>7 DEF Rsp!ClassThrows
    <3>3. Rsp!RenderThrows <=> \E c \in DOMAIN described : NoSample(c)
      BY <2>4, <2>6, <3>1, <3>2 DEF Rsp!RenderThrows, NoSample
    <3>4. CASE Rsp!RenderThrows
      <4>1. rendered[k].throws = TRUE /\ ViewNow.throws = TRUE
        BY <2>3, <3>4 DEF ViewNow, Rsp!NoView
      <4> QED
        BY <2>3, <3>3, <3>4, <4>1
    <3>5. CASE ~Rsp!RenderThrows
      <4>1. rendered[k] = [throws |-> FALSE, class |-> <<>>,
                    messages |-> [c \in DOMAIN described |-> Rsp!StatusCode(described[c])]]
        BY <2>3, <2>7, <3>1, <3>5 DEF ViewNow
      <4> QED
        BY <2>5, <3>1, <3>3, <3>5, <4>1
    <3> QED
      BY <3>4, <3>5
  <2>8. CASE success # <<>>
    <3>1. PICK code \in DOMAIN described :
             /\ Class(code)
             /\ success = <<code, Rsp!ResolveModel(described[code])>>
             /\ responses = [c \in DOMAIN described \ {code} |-> described[c]]
      BY <2>2, <2>8 DEF Constructed
    <3>2. \A c \in DOMAIN described : Class(c) => c = code
      BY <3>1, OneClass DEF Class
    <3>3. Rsp!ClassThrows <=> NoSample(code)
      <4>1. Rsp!ClassThrows <=>
               LET resolved == Rsp!ResolveModel(described[code])
               IN \/ resolved.as = "signature" /\ resolved.of \in Throwing
                  \/ resolved.as = "array" /\ resolved.of \in Throwing \cup Undefined
        BY <2>8, <3>1 DEF Rsp!ClassThrows
      <4>2. described[code] \in Rsp!Schemas
        BY <2>4
      <4>3. ASSUME NEW s \in Rsp!Schemas
            PROVE  LET resolved == Rsp!ResolveModel(s)
                   IN (\/ resolved.as = "signature" /\ resolved.of \in Throwing
                       \/ resolved.as = "array" /\ resolved.of \in Throwing \cup Undefined)
                      <=> \/ s \in [kind : {"reference"}, of : Throwing]
                          \/ s \in [kind : {"array"}, of : Throwing \cup Undefined]
        <5>1. CASE s.kind = "array"
          <6>1. Rsp!ResolveModel(s) = [as |-> "array", of |-> s.of]
            BY <5>1 DEF Rsp!ResolveModel
          <6>2. s = [kind |-> "array", of |-> s.of]
            BY <5>1 DEF Rsp!Schemas
          <6> QED
            BY <6>1, <6>2
        <5>2. CASE s.kind = "reference" /\ s.of \in ResponseModels
          <6>1. Rsp!ResolveModel(s) = [as |-> "signature", of |-> s.of]
            BY <5>2 DEF Rsp!ResolveModel, Rsp!Signature
          <6>2. s = [kind |-> "reference", of |-> s.of]
            BY <5>2 DEF Rsp!Schemas
          <6> QED
            BY <6>1, <6>2
        <5>3. CASE s.kind # "array" /\ ~(s.kind = "reference" /\ s.of \in ResponseModels)
          <6>1. Rsp!ResolveModel(s) = [as |-> "type", of |-> s.of]
            BY <5>3 DEF Rsp!ResolveModel, Rsp!Type
          <6>2. s \notin [kind : {"reference"}, of : Throwing]
            BY <5>3, ViewsAssumption DEF Rsp!NamesOK
          <6> QED
            BY <5>3, <6>1, <6>2
        <5> QED
          BY <5>1, <5>2, <5>3
      <4> QED
        BY <3>1, <4>1, <4>2, <4>3 DEF NoSample
    <3>6. Rsp!RenderThrows <=> \E c \in DOMAIN described : NoSample(c)
      <4>1. \A c \in DOMAIN described \ {code} :
               NoSample(c) <=> Rsp!RowThrows(responses[c])
        BY <2>4, <2>6, <3>1, <3>2 DEF NoSample
      <4>2. DOMAIN responses = DOMAIN described \ {code}
        BY <3>1
      <4> QED
        BY <3>1, <3>3, <4>1, <4>2 DEF Rsp!RenderThrows
    <3>4. CASE Rsp!RenderThrows
      <4>1. rendered[k].throws = TRUE /\ ViewNow.throws = TRUE
        BY <2>3, <3>4 DEF ViewNow, Rsp!NoView
      <4> QED
        BY <2>3, <3>4, <3>6, <4>1
    <3>5. CASE ~Rsp!RenderThrows
      <4>1. DOMAIN responses = DOMAIN described \ {code}
        BY <3>1
      <4>2. rendered[k] = [throws |-> FALSE, class |-> success,
                        messages |-> [c \in DOMAIN responses |-> Rsp!StatusCode(responses[c])]]
        BY <2>3, <3>5 DEF ViewNow
      <4>3. /\ rendered[k].throws = FALSE /\ rendered[k].class = success
            /\ DOMAIN rendered[k].messages = DOMAIN described \ {code}
            /\ \A c \in DOMAIN described \ {code} :
                  rendered[k].messages[c] = Rsp!StatusCode(described[c])
        BY <3>1, <4>1, <4>2
      <4>4. success # <<>> /\ success[1] = code
            /\ success[2] = Rsp!ResolveModel(described[code])
        BY <2>8, <3>1
      <4> QED
        BY <2>5, <3>1, <3>2, <3>5, <3>6, <4>3, <4>4
    <3> QED
      BY <3>4, <3>5
  <2> QED
    BY <2>7, <2>8
<1>2. Rsp!Init => ResponsesInv
  BY DEF Rsp!Init, ResponsesInv
<1>3. ResponsesInv /\ [Rsp!Next]_(Rsp!rspvars) => ResponsesInv'
  BY ResponsesStep
<1>4. ViewsInit => Inv
  BY <1>2 DEF ViewsInit
<1>5. Inv /\ [ViewsNext]_viewvars => Inv'
  <2> SUFFICES ASSUME Inv, [ViewsNext]_viewvars, showing' = "responses" PROVE ResponsesInv'
    OBVIOUS
  <2>1. showing = "responses" /\ [Rsp!Next]_(Rsp!rspvars)
    BY DEF ViewsNext, ShowResponses, ShowSignature, ShowLayout, viewvars, rspside,
           Rsp!rspvars
  <2> QED
    BY <1>3, <2>1
<1>6. Inv => ResponsesShownOnce
  BY <1>1 DEF ResponsesShownOnce
<1> HIDE DEF Inv
<1> QED
  BY <1>4, <1>5, <1>6, PTL DEF ViewsSpec

-----------------------------------------------------------------------------
(* The signature of a model: SwaggerSignature                              *)

CallType == [model : Models, field : Nat \ {0}]

\* The operators of the walk, of any definitions D and list L.
Own(D, m) == IF D[m].kind = "array" THEN <<"arrayModel">> ELSE <<"model", m>>

Ignore(D, L, m) == m \in Models => \E k \in DOMAIN L : Own(D, L[k]) = Own(D, m)

\* The fields of m before the f-th are described or ignored.
DoneTo(D, L, m, f) ==
    \A g \in 1..(f - 1) : g \in DOMAIN D[m].refs => Ignore(D, L, D[m].refs[g])

Complete(D, L, m) == \A g \in DOMAIN D[m].refs : Ignore(D, L, D[m].refs[g])

\* A walk so far: no name is listed twice, each call has done the fields before
\* its own, and a model whose call has ended is complete.
Once(D, L) == \A j, k \in DOMAIN L : Own(D, L[j]) = Own(D, L[k]) => j = k

CallsDone(D, L, C) == \A i \in DOMAIN C : DoneTo(D, L, C[i].model, C[i].field)

ListDone(D, L, C) ==
    \A k \in DOMAIN L : Complete(D, L, L[k]) \/ \E i \in DOMAIN C : C[i].model = L[k]

Walk(D, S, L, C) ==
    /\ L \in Seq(Models) /\ C \in Seq(CallType)
    /\ Once(D, L) /\ CallsDone(D, L, C) /\ ListDone(D, L, C)
    /\ \A k \in DOMAIN L : L[k] \in S
    /\ \A i \in DOMAIN C : C[i].model \in S

SigInv ==
    /\ defs \in Definitions /\ root \in Models
    /\ Walk(defs, Sig!Reached, listed, calls)
    /\ listed # <<>> => listed[1] = root
    /\ listed = <<>> => calls = <<>>

(* A model that is ignored stays so when another is listed, which is then  *)
(* ignored as well.                                                        *)
LEMMA IgnoreKept ==
    ASSUME NEW D, NEW L \in Seq(Models), NEW r \in Models
    PROVE  /\ \A m : Ignore(D, L, m) => Ignore(D, Append(L, r), m)
           /\ Ignore(D, Append(L, r), r)
<1>1. PICK n \in Nat : n = Len(L)
  OBVIOUS
<1> DEFINE M == Append(L, r)
<1>2. /\ DOMAIN L = 1..n /\ DOMAIN M = 1..(n + 1)
      /\ M[n + 1] = r /\ \A k \in 1..n : M[k] = L[k]
  BY <1>1
<1> HIDE DEF M
<1>3. \A k \in 1..n : k \in 1..(n + 1)
  OBVIOUS
<1>4. n + 1 \in 1..(n + 1)
  OBVIOUS
<1>5. ASSUME NEW m, Ignore(D, L, m) PROVE Ignore(D, M, m)
  BY <1>2, <1>3, <1>5 DEF Ignore
<1>6. Ignore(D, M, r)
  BY <1>2, <1>4 DEF Ignore
<1> QED
  BY <1>5, <1>6 DEF M

(* What the root comes to is closed under the fields, and the least such.  *)
LEMMA ReachedFacts ==
    ASSUME root \in Models
    PROVE  /\ root \in Sig!Reached /\ Sig!Reached \subseteq Models
           /\ \A m \in Sig!Reached : \A g \in DOMAIN defs[m].refs :
                 defs[m].refs[g] \in Models => defs[m].refs[g] \in Sig!Reached
           /\ \A S \in SUBSET Models :
                 root \in S /\ (\A n \in S : Sig!RefersOnlyTo(n, S)) => Sig!Reached \subseteq S
<1>1. root \in Sig!Reached /\ Sig!Reached \subseteq Models
  BY DEF Sig!Reached
<1>2. ASSUME NEW m \in Sig!Reached, NEW g \in DOMAIN defs[m].refs, defs[m].refs[g] \in Models
      PROVE  defs[m].refs[g] \in Sig!Reached
  <2> SUFFICES ASSUME NEW S \in SUBSET Models, root \in S,
                      \A n \in S : Sig!RefersOnlyTo(n, S)
               PROVE  defs[m].refs[g] \in S
    BY <1>2 DEF Sig!Reached
  <2>1. m \in S
    BY DEF Sig!Reached
  <2> QED
    BY <1>2, <2>1 DEF Sig!RefersOnlyTo
<1>3. ASSUME NEW S \in SUBSET Models, root \in S, \A n \in S : Sig!RefersOnlyTo(n, S)
      PROVE  Sig!Reached \subseteq S
  BY <1>3 DEF Sig!Reached
<1> QED
  BY <1>1, <1>2, <1>3

(* A call of a model that was not listed: it is listed and has done nothing. *)
LEMMA CallBegins ==
    ASSUME NEW D, NEW S, NEW L, NEW C, Walk(D, S, L, C),
           NEW r \in Models, r \in S, ~Ignore(D, L, r),
           NEW c \in CallType, c.model = r, c.field = 1
    PROVE  Walk(D, S, Append(L, r), Append(C, c))
<1> DEFINE M == Append(L, r)
           B == Append(C, c)
<1>0. L \in Seq(Models) /\ C \in Seq(CallType)
  BY DEF Walk
<1>1. PICK n \in Nat : n = Len(L)
  BY <1>0
<1>2. PICK p \in Nat : p = Len(C)
  BY <1>0
<1>3. /\ M \in Seq(Models) /\ DOMAIN L = 1..n /\ DOMAIN M = 1..(n + 1)
      /\ M[n + 1] = r /\ \A k \in 1..n : M[k] = L[k]
  BY <1>0, <1>1
<1>4. \A m : Ignore(D, L, m) => Ignore(D, M, m)
  BY <1>0, IgnoreKept
<1>5. /\ B \in Seq(CallType) /\ DOMAIN C = 1..p /\ DOMAIN B = 1..(p + 1)
      /\ B[p + 1] = c /\ \A i \in 1..p : B[i] = C[i]
  BY <1>0, <1>2
<1> HIDE DEF M, B
<1>6. \A k \in 1..(n + 1) : k \in 1..n \/ k = n + 1
  OBVIOUS
<1>7. \A i \in 1..(p + 1) : i \in 1..p \/ i = p + 1
  OBVIOUS
<1>8. Once(D, M)
  <2> SUFFICES ASSUME NEW j \in 1..(n + 1), NEW k \in 1..(n + 1), Own(D, M[j]) = Own(D, M[k])
               PROVE  j = k
    BY <1>3 DEF Once
  <2>1. \A i \in 1..n : Own(D, L[i]) # Own(D, r)
    BY <1>3 DEF Ignore
  <2>2. CASE j \in 1..n /\ k \in 1..n
    BY <1>3, <2>2 DEF Once, Walk
  <2>3. CASE j \in 1..n /\ k = n + 1
    BY <1>3, <2>1, <2>3
  <2>4. CASE j = n + 1 /\ k \in 1..n
    BY <1>3, <2>1, <2>4
  <2> QED
    BY <2>2, <2>3, <2>4
<1>9. CallsDone(D, M, B)
  <2> SUFFICES ASSUME NEW i \in 1..(p + 1), NEW g \in 1..(B[i].field - 1),
                      g \in DOMAIN D[B[i].model].refs
               PROVE  Ignore(D, M, D[B[i].model].refs[g])
    BY <1>5 DEF CallsDone, DoneTo
  <2>1. CASE i \in 1..p
    BY <1>4, <1>5, <2>1 DEF CallsDone, DoneTo, Walk
  <2>2. CASE i = p + 1
    <3>1. B[i].field = 1
      BY <1>5, <2>2
    <3>2. B[i].field - 1 = 0
      BY <3>1
    <3> QED
      BY <3>2
  <2> QED
    BY <1>7, <2>1, <2>2
<1>10. ListDone(D, M, B)
  <2> SUFFICES ASSUME NEW k \in 1..(n + 1)
               PROVE  Complete(D, M, M[k]) \/ \E i \in 1..(p + 1) : B[i].model = M[k]
    BY <1>3, <1>5 DEF ListDone
  <2>1. CASE k \in 1..n
    <3>1. Complete(D, L, M[k]) \/ \E i \in 1..p : C[i].model = M[k]
      BY <1>3, <1>5, <2>1 DEF ListDone, Walk
    <3>2. \A i \in 1..p : i \in 1..(p + 1)
      OBVIOUS
    <3> QED
      BY <1>4, <1>5, <3>1, <3>2 DEF Complete
  <2>2. CASE k = n + 1
    <3>1. p + 1 \in 1..(p + 1)
      OBVIOUS
    <3> QED
      BY <1>3, <1>5, <2>2, <3>1
  <2> QED
    BY <1>6, <2>1, <2>2
<1>11. /\ \A k \in DOMAIN M : M[k] \in S
       /\ \A i \in DOMAIN B : B[i].model \in S
  BY <1>3, <1>5, <1>6, <1>7 DEF Walk
<1> QED
  BY <1>3, <1>5, <1>8, <1>9, <1>10, <1>11 DEF Walk, M, B

(* A call goes past a field that is ignored.                               *)
LEMMA FieldPassed ==
    ASSUME NEW D, NEW S, NEW L, NEW C, Walk(D, S, L, C), NEW p \in DOMAIN C,
           Ignore(D, L, D[C[p].model].refs[C[p].field]),
           NEW B \in Seq(CallType), DOMAIN B = DOMAIN C,
           \A i \in DOMAIN C : B[i].model = C[i].model,
           \A i \in DOMAIN C : B[i].field = IF i = p THEN C[i].field + 1 ELSE C[i].field
    PROVE  Walk(D, S, L, B)
<1>1. C \in Seq(CallType)
  BY DEF Walk
<1>2. CallsDone(D, L, B)
  <2> SUFFICES ASSUME NEW i \in DOMAIN C, NEW g \in 1..(B[i].field - 1),
                      g \in DOMAIN D[C[i].model].refs
               PROVE  Ignore(D, L, D[C[i].model].refs[g])
    BY DEF CallsDone, DoneTo
  <2>1. g \in 1..(C[i].field - 1) => Ignore(D, L, D[C[i].model].refs[g])
    BY DEF CallsDone, DoneTo, Walk
  <2>2. CASE i # p
    BY <2>1, <2>2
  <2>3. CASE i = p
    <3>1. C[i].field \in Nat
      <4>1. C[i] \in CallType
        BY <1>1
      <4> QED
        BY <4>1 DEF CallType
    <3>2. g \in 1..(C[i].field - 1) \/ g = C[i].field
      BY <2>3, <3>1
    <3> QED
      BY <2>1, <2>3, <3>2
  <2> QED
    BY <2>2, <2>3
<1>3. ListDone(D, L, B)
  BY DEF ListDone, Walk
<1> QED
  BY <1>2, <1>3 DEF Walk

(* The call at the end of the calls ends once it has no field left.        *)
LEMMA CallEnds ==
    ASSUME NEW D, NEW S, NEW L, NEW C, Walk(D, S, L, C), C # <<>>,
           NEW c, c = C[Len(C)],
           \A g \in DOMAIN D[c.model].refs : g \in Nat \ {0} /\ g < c.field
    PROVE  Walk(D, S, L, SubSeq(C, 1, Len(C) - 1))
<1>0. C \in Seq(CallType)
  BY DEF Walk
<1>1. PICK p \in Nat \ {0} : p = Len(C)
  BY <1>0
<1> DEFINE B == SubSeq(C, 1, p - 1)
<1>2. DOMAIN C = 1..p /\ p \in 1..p /\ c = C[p] /\ c \in CallType
  BY <1>0, <1>1
<1>3. c.field \in Nat \ {0}
  BY <1>2 DEF CallType
<1>4. /\ B \in Seq(CallType) /\ DOMAIN B = 1..(p - 1)
      /\ \A i \in 1..(p - 1) : B[i] = C[i] /\ i \in 1..p
  BY <1>0, <1>1
<1> HIDE DEF B
<1>5. Complete(D, L, c.model)
  <2> SUFFICES ASSUME NEW g \in DOMAIN D[c.model].refs
               PROVE  Ignore(D, L, D[c.model].refs[g])
    BY DEF Complete
  <2>1. g \in 1..(c.field - 1)
    BY <1>3
  <2> QED
    BY <1>2, <2>1 DEF CallsDone, DoneTo, Walk
<1>6. CallsDone(D, L, B)
  BY <1>2, <1>4 DEF CallsDone, Walk
<1>7. ListDone(D, L, B)
  <2> SUFFICES ASSUME NEW k \in DOMAIN L
               PROVE  Complete(D, L, L[k]) \/ \E i \in DOMAIN B : B[i].model = L[k]
    BY DEF ListDone
  <2>1. CASE \E i \in DOMAIN C : C[i].model = L[k]
    <3>1. PICK i \in 1..p : C[i].model = L[k]
      BY <1>2, <2>1
    <3>2. CASE i = p
      BY <1>2, <1>5, <3>1, <3>2
    <3>3. CASE i # p
      <4>1. i \in 1..(p - 1)
        BY <3>3
      <4> QED
        BY <1>4, <3>1, <4>1
    <3> QED
      BY <3>2, <3>3
  <2>2. CASE Complete(D, L, L[k])
    BY <2>2
  <2> QED
    BY <2>1, <2>2 DEF ListDone, Walk
<1> QED
  BY <1>1, <1>2, <1>4, <1>6, <1>7 DEF B, Walk

LEMMA IgnoredIs == \A m : Sig!Ignored(m) <=> Ignore(defs, listed, m)
BY DEF Sig!Ignored, Sig!OwnName, Ignore, Own

(* What Describe sees: the fields of the call at the end.                  *)
LEMMA LastCall ==
    ASSUME Sig!DefinitionsOK, SigInv, calls # <<>>
    PROVE  LET c == calls[Len(calls)] IN
           /\ Len(calls) \in DOMAIN calls /\ Len(calls) \in Nat
           /\ Sig!Last(calls) = c /\ c \in CallType /\ Sig!Fields = defs[c.model].refs
           /\ Len(Sig!Fields) \in Nat /\ DOMAIN Sig!Fields = 1..Len(Sig!Fields)
           /\ c.model \in Sig!Reached
<1> DEFINE c == calls[Len(calls)]
<1>1. calls \in Seq(CallType)
  BY DEF SigInv, Walk
<1>2. Len(calls) \in DOMAIN calls /\ Len(calls) \in Nat
  BY <1>1
<1>3. c \in CallType /\ c.model \in Sig!Reached
  BY <1>1, <1>2 DEF SigInv, Walk
<1>4. Sig!Last(calls) = c
  BY DEF Sig!Last
<1>5. Sig!Fields = defs[c.model].refs
  BY <1>4 DEF Sig!Fields
<1>6. Sig!DefinitionType(defs[c.model])
  BY <1>3 DEF Sig!DefinitionsOK, SigInv, CallType
<1>7. Sig!Fields \in Seq(Sig!Range(Sig!Fields))
  BY <1>5, <1>6 DEF Sig!DefinitionType
<1> QED
  BY <1>2, <1>3, <1>4, <1>5, <1>7

LEMMA SigStep ==
    ASSUME Sig!DefinitionsOK, SigInv, [Sig!Next]_(Sig!sigvars)
    PROVE  SigInv'
<1>1. defs' = defs /\ root' = root
  BY DEF Sig!Next, Sig!Ask, Sig!Describe, Sig!Return, Sig!sigvars
<1>2. Sig!Reached' = Sig!Reached
  BY <1>1 DEF Sig!Reached, Sig!RefersOnlyTo
<1> DEFINE R == Sig!Reached
<1>3. /\ defs \in Definitions /\ root \in Models /\ Walk(defs, R, listed, calls)
      /\ listed # <<>> => listed[1] = root
      /\ listed = <<>> => calls = <<>>
  BY DEF SigInv
<1>4. listed \in Seq(Models) /\ calls \in Seq(CallType)
  BY <1>3 DEF Walk
<1> HIDE DEF R
<1>5. SUFFICES /\ Walk(defs, R, listed', calls')
               /\ listed' # <<>> => listed'[1] = root
               /\ listed' = <<>> => calls' = <<>>
  BY <1>1, <1>2, <1>3 DEF SigInv, R
<1>6. CASE Sig!Ask
  <2> DEFINE c == [model |-> root, field |-> 1]
  <2>1. /\ listed = <<>> /\ listed' = Append(listed, root)
        /\ calls' = Append(calls, c)
    BY <1>3, <1>6 DEF Sig!Ask, Sig!GetMockSignature
  <2>2. ~Ignore(defs, listed, root)
    BY <1>3, <2>1 DEF Ignore
  <2>3. root \in R
    BY <1>3, ReachedFacts DEF R
  <2>4. c \in CallType /\ c.model = root /\ c.field = 1
    BY <1>3 DEF CallType
  <2> HIDE DEF c
  <2>5. Walk(defs, R, listed', calls')
    BY <1>3, <2>1, <2>2, <2>3, <2>4, CallBegins
  <2>6. listed' # <<>> /\ listed'[1] = root
    BY <1>3, <2>1
  <2> QED
    BY <2>5, <2>6
<1>7. CASE Sig!Describe
  <2> DEFINE p == Len(calls)
             c == calls[p]
             ref == Sig!Fields[Sig!Last(calls).field]
             past == [calls EXCEPT ![Len(calls)].field = @ + 1]
             new == [model |-> ref, field |-> 1]
  <2>1. /\ calls # <<>> /\ Sig!Last(calls).field <= Len(Sig!Fields)
        /\ \/ Sig!Ignored(ref) /\ calls' = past /\ listed' = listed
           \/ /\ ~Sig!Ignored(ref) /\ listed' = Append(listed, ref)
              /\ calls' = Append(past, new)
    BY <1>7 DEF Sig!Describe, Sig!GetMockSignature, Sig!PastField
  <2>2. /\ p \in DOMAIN calls /\ p \in Nat
        /\ Sig!Last(calls) = c /\ c \in CallType /\ Sig!Fields = defs[c.model].refs
        /\ Len(Sig!Fields) \in Nat /\ DOMAIN Sig!Fields = 1..Len(Sig!Fields)
        /\ c.model \in R
    BY <2>1, LastCall DEF R
  <2>3. c.field \in DOMAIN Sig!Fields /\ ref = defs[c.model].refs[c.field]
    BY <2>1, <2>2 DEF CallType
  <2>4. listed # <<>> /\ listed[1] = root
    BY <1>3, <2>1
  <2> HIDE DEF ref
  <2>5. /\ past \in Seq(CallType) /\ DOMAIN past = DOMAIN calls /\ Len(past) = p
        /\ \A i \in DOMAIN calls : past[i].model = calls[i].model
        /\ \A i \in DOMAIN calls :
              past[i].field = IF i = p THEN calls[i].field + 1 ELSE calls[i].field
    <3> DEFINE d == [c EXCEPT !.field = @ + 1]
    <3>1. past = [calls EXCEPT ![p] = d]
      OBVIOUS
    <3>2. d \in CallType /\ d.model = c.model /\ d.field = c.field + 1
      BY <2>2 DEF CallType
    <3> HIDE DEF d
    <3>3. p \in 1..Len(calls) /\ DOMAIN calls = 1..Len(calls)
      BY <1>4, <2>2
    <3>4. /\ past \in Seq(CallType) /\ Len(past) = p
          /\ \A i \in 1..Len(calls) : past[i] = IF i = p THEN d ELSE calls[i]
      BY <1>4, <3>1, <3>2, <3>3, ExceptSeq
    <3>5. DOMAIN past = DOMAIN calls
      BY <3>3, <3>4
    <3> QED
      BY <3>2, <3>3, <3>4, <3>5
  <2> HIDE DEF past
  <2>6. CASE Sig!Ignored(ref) /\ calls' = past /\ listed' = listed
    <3>1. Ignore(defs, listed, ref)
      BY <2>6, IgnoredIs
    <3>2. Walk(defs, R, listed, past)
      BY <1>3, <2>2, <2>3, <2>5, <3>1, FieldPassed
    <3> QED
      BY <2>4, <2>6, <3>2
  <2>7. CASE /\ ~Sig!Ignored(ref) /\ listed' = Append(listed, ref)
             /\ calls' = Append(past, new)
    <3>1. ~Ignore(defs, listed, ref)
      BY <2>7, IgnoredIs
    <3>2. ref \in Models
      BY <3>1 DEF Ignore
    <3>3. ref \in R
      BY <1>3, <2>2, <2>3, <3>2, ReachedFacts DEF R
    <3>4. new \in CallType /\ new.model = ref /\ new.field = 1
      BY <3>2 DEF CallType
    <3> HIDE DEF new
    <3> DEFINE C == Append(calls, new)
    <3>5. Walk(defs, R, listed', C)
      BY <1>3, <2>7, <3>1, <3>2, <3>3, <3>4, CallBegins
    <3>6. Ignore(defs, listed', ref)
      BY <1>4, <2>7, <3>2, IgnoreKept
    <3>7. /\ DOMAIN C = 1..(p + 1) /\ DOMAIN calls = 1..p
          /\ C[p + 1] = new /\ \A i \in 1..p : C[i] = calls[i]
      BY <1>4, <3>4
    <3>8. /\ calls' \in Seq(CallType) /\ DOMAIN calls' = 1..(p + 1)
          /\ calls'[p + 1] = new /\ \A i \in 1..p : calls'[i] = past[i]
      BY <2>2, <2>5, <2>7, <3>4
    <3> HIDE DEF C
    <3>9. p \in DOMAIN C /\ C[p] = c
      BY <2>2, <3>7
    <3>10. \A i \in DOMAIN C : i \in 1..p \/ i = p + 1
      BY <2>2, <3>7
    <3>11. \A i \in DOMAIN C : calls'[i].model = C[i].model
      BY <2>5, <3>7, <3>8, <3>10
    <3>12. \A i \in DOMAIN C : calls'[i].field = IF i = p THEN C[i].field + 1 ELSE C[i].field
      BY <2>2, <2>5, <3>7, <3>8, <3>10
    <3>13. Walk(defs, R, listed', calls')
      BY <2>3, <3>5, <3>6, <3>7, <3>8, <3>9, <3>11, <3>12, FieldPassed
    <3>14. listed' # <<>> /\ listed'[1] = root
      BY <1>4, <2>4, <2>7, <3>2
    <3> QED
      BY <3>13, <3>14
  <2> QED
    BY <2>1, <2>6, <2>7
<1>8. CASE Sig!Return
  <2> DEFINE c == calls[Len(calls)]
  <2>1. /\ calls # <<>> /\ Sig!Last(calls).field > Len(Sig!Fields)
        /\ calls' = SubSeq(calls, 1, Len(calls) - 1) /\ listed' = listed
    BY <1>8 DEF Sig!Return, Sig!Front
  <2>2. /\ Sig!Last(calls) = c /\ c \in CallType /\ Sig!Fields = defs[c.model].refs
        /\ Len(Sig!Fields) \in Nat /\ DOMAIN Sig!Fields = 1..Len(Sig!Fields)
    BY <2>1, LastCall
  <2>3. \A g \in DOMAIN defs[c.model].refs : g \in Nat \ {0} /\ g < c.field
    BY <2>1, <2>2 DEF CallType
  <2>4. Walk(defs, R, listed, SubSeq(calls, 1, Len(calls) - 1))
    BY <1>3, <2>1, <2>3, CallEnds
  <2> QED
    BY <1>3, <2>1, <2>4
<1>9. CASE UNCHANGED Sig!sigvars
  BY <1>3, <1>9 DEF Sig!sigvars
<1> QED
  BY <1>6, <1>7, <1>8, <1>9 DEF Sig!Next

(* When the first call has ended, the models described and the arrays are  *)
(* closed under the fields, and the models described are if there is no    *)
(* array among them.                                                       *)
LEMMA EndClosed ==
    ASSUME Sig!DefinitionsOK, SigInv, listed # <<>>, calls = <<>>
    PROVE  /\ Sig!Reached \ Sig!Arrays \subseteq Sig!Described
           /\ Sig!Arrays # {} => Sig!Arrays \cap Sig!Described # {}
<1>1. /\ root \in Models /\ listed \in Seq(Models) /\ listed[1] = root
      /\ \A k \in DOMAIN listed : listed[k] \in Sig!Reached
      /\ ListDone(defs, listed, calls) /\ defs \in Definitions
  BY DEF SigInv, Walk
<1>2. root \in Sig!Described /\ Sig!Described \subseteq Sig!Reached
  <2>1. 1 \in DOMAIN listed
    BY <1>1
  <2> QED
    BY <1>1, <2>1 DEF Sig!Described
<1>3. Sig!Reached \subseteq Models
  BY <1>1, ReachedFacts
<1>4. ASSUME NEW n \in Sig!Described, NEW g \in DOMAIN defs[n].refs, defs[n].refs[g] \in Models
      PROVE  \E m \in Sig!Described : Own(defs, m) = Own(defs, defs[n].refs[g])
  <2>1. PICK k \in DOMAIN listed : n = listed[k]
    BY DEF Sig!Described
  <2>2. Complete(defs, listed, n)
    BY <1>1, <2>1 DEF ListDone
  <2>3. Ignore(defs, listed, defs[n].refs[g])
    BY <2>2 DEF Complete
  <2> QED
    BY <1>4, <2>3 DEF Ignore, Sig!Described
<1>5. \A m, n : Own(defs, m) = Own(defs, n) =>
         \/ m = n
         \/ defs[m].kind = "array" /\ defs[n].kind = "array"
  BY DEF Own
<1>6. Sig!Reached \ Sig!Arrays \subseteq Sig!Described
  <2> DEFINE S == Sig!Described \cup {m \in Models : defs[m].kind = "array"}
  <2>1. S \in SUBSET Models /\ root \in S
    BY <1>2, <1>3
  <2>2. ASSUME NEW n \in S PROVE Sig!RefersOnlyTo(n, S)
    <3> SUFFICES ASSUME NEW g \in DOMAIN defs[n].refs, defs[n].refs[g] \in Models
                 PROVE  defs[n].refs[g] \in S
      BY DEF Sig!RefersOnlyTo
    <3>1. CASE n \in Sig!Described
      <4>1. PICK m \in Sig!Described : Own(defs, m) = Own(defs, defs[n].refs[g])
        BY <1>4, <3>1
      <4> QED
        BY <1>5, <4>1
    <3>2. CASE n \in Models /\ defs[n].kind = "array"
      <4>1. defs[n].refs = <<>>
        BY <1>1, <3>2 DEF Sig!DefinitionsOK, Sig!DefinitionType
      <4> QED
        BY <4>1
    <3> QED
      BY <3>1, <3>2
  <2>3. Sig!Reached \subseteq S
    BY <1>1, <2>1, <2>2, ReachedFacts
  <2> QED
    BY <2>3 DEF Sig!Arrays
<1>7. ASSUME Sig!Arrays \cap Sig!Described = {} PROVE Sig!Arrays = {}
  <2>1. \A m \in Sig!Described : defs[m].kind # "array"
    BY <1>2, <1>7 DEF Sig!Arrays
  <2>2. ASSUME NEW n \in Sig!Described PROVE Sig!RefersOnlyTo(n, Sig!Described)
    BY <1>4, <1>5, <2>1 DEF Sig!RefersOnlyTo
  <2>3. Sig!Reached \subseteq Sig!Described
    BY <1>1, <1>2, <1>3, <2>2, ReachedFacts
  <2> QED
    BY <1>7, <2>3 DEF Sig!Arrays
<1> QED
  BY <1>6, <1>7

(* A signature describes every model its root comes to exactly once, and   *)
(* of the arrays one, however any number of models refer to each other     *)
(* (getMockSignature).                                                     *)
THEOREM SignatureDescribesOnceTheorem == ViewsSpec => []SignatureDescribesOnce
<1> DEFINE Inv == showing = "signature" => SigInv
<1>0. Sig!DefinitionsOK
  BY ViewsAssumption
<1>1. SigInv => Sig!SignatureDescribesOnce
  <2> SUFFICES ASSUME SigInv PROVE Sig!SignatureDescribesOnce
    OBVIOUS
  <2>1. Once(defs, listed) /\ \A k \in DOMAIN listed : listed[k] \in Sig!Reached
    BY DEF SigInv, Walk
  <2>2. \A j, k \in DOMAIN listed :
           Sig!OwnName(listed[j]) = Sig!OwnName(listed[k]) => j = k
    BY <2>1 DEF Once, Own, Sig!OwnName
  <2>3. Sig!Described \subseteq Sig!Reached
    BY <2>1 DEF Sig!Described
  <2> QED
    BY <1>0, <2>2, <2>3, EndClosed DEF Sig!SignatureDescribesOnce
<1>2. Sig!Init => SigInv
  <2> SUFFICES ASSUME Sig!Init PROVE SigInv
    OBVIOUS
  <2>1. defs \in Definitions /\ root \in Models /\ listed = <<>> /\ calls = <<>>
    BY DEF Sig!Init
  <2>2. Walk(defs, Sig!Reached, listed, calls)
    BY <2>1 DEF Walk, Once, CallsDone, ListDone
  <2> QED
    BY <2>1, <2>2 DEF SigInv
<1>3. SigInv /\ [Sig!Next]_(Sig!sigvars) => SigInv'
  BY <1>0, SigStep
<1>4. ViewsInit => Inv
  BY <1>2 DEF ViewsInit
<1>5. Inv /\ [ViewsNext]_viewvars => Inv'
  <2> SUFFICES ASSUME Inv, [ViewsNext]_viewvars, showing' = "signature" PROVE SigInv'
    OBVIOUS
  <2>1. showing = "signature" /\ [Sig!Next]_(Sig!sigvars)
    BY DEF ViewsNext, ShowResponses, ShowSignature, ShowLayout, viewvars, sigside,
           Sig!sigvars
  <2> QED
    BY <1>3, <2>1
<1>6. Inv => SignatureDescribesOnce
  BY <1>1 DEF SignatureDescribesOnce
<1> HIDE DEF Inv
<1> QED
  BY <1>4, <1>5, <1>6, PTL DEF ViewsSpec

-----------------------------------------------------------------------------
(* The layout of an answer: SwaggerLayout                                  *)

\* A line of the layout.
LineType == [padding : Nat, first : Nat \ {0}, last : Nat \ {0}]

LayoutType ==
    /\ at \in 1..(Len(document.tokens) + 1) /\ leafText \in BOOLEAN
    /\ indent \in Int
    /\ formatted \in Seq(LineType)

\* A line of d that begins with token k.
Right(d, line, k) ==
    /\ line.padding = (IF d.tokens[line.first] = "close" THEN d.depth[line.first]
                       ELSE d.depth[line.first - 1])
    /\ \/ line.last = line.first
       \/ /\ line.last = line.first + 1
          /\ d.tokens[line.first] = "open" /\ d.tokens[line.last] = "close"
    /\ line.first = k
    /\ d.tokens[line.first] = "close" => line.first > 1 /\ d.tokens[line.first - 1] # "open"

Follows(j) == IF j = 1 THEN 1 ELSE formatted[j - 1].last + 1

LineOK(j) == Right(document, formatted[j], Follows(j))

LinesOK == \A j \in DOMAIN formatted : LineOK(j)

\* What the loop keeps between two lines: the indent is that of the line before,
\* and after an opening tag that line is the tag alone.
Between ==
    IF leafText
    THEN /\ at <= Len(document.tokens) /\ Layout!Cut
         /\ lastType = "opening" /\ indent = document.depth[at - 1]
         /\ formatted # <<>> /\ formatted[Len(formatted)].first = at
         /\ formatted[Len(formatted)].last = at
    ELSE /\ at = 1 => lastType = "other" /\ formatted = <<>> /\ indent = 0
         /\ at > 1 =>
               /\ formatted # <<>> /\ formatted[Len(formatted)].last = at - 1
               /\ IF document.tokens[at - 1] = "open"
                  THEN /\ lastType = "opening" /\ indent = document.depth[at - 1] - 1
                       /\ formatted[Len(formatted)].first = at - 1
                  ELSE lastType # "opening" /\ indent = document.depth[at - 1]

LayoutInv ==
    /\ document \in Documents
    /\ document.tokens[Len(document.tokens)] # "leaf" => LayoutType /\ Between /\ LinesOK

(* What is known of the token a line begins with. *)
LEMMA TokenFacts ==
    ASSUME NEW d, Layout!WellFormed(d), NEW k \in 1..Len(d.tokens)
    PROVE  /\ d.tokens[k] \in Layout!Tokens
           /\ d.depth[k] \in Nat /\ d.depth[k - 1] \in Nat
           /\ d.tokens[k] = "open" => d.depth[k] = d.depth[k - 1] + 1
           /\ d.tokens[k] = "close" => d.depth[k] = d.depth[k - 1] - 1 /\ k > 1
           /\ d.tokens[k] \notin {"open", "close"} => d.depth[k] = d.depth[k - 1]
<1>1. /\ Len(d.tokens) \in Nat /\ d.tokens[k] \in Layout!Tokens
      /\ d.depth[k] \in Nat /\ d.depth[k - 1] \in Nat /\ d.depth[0] = 0
      /\ d.depth[k] = d.depth[k - 1] + Layout!Rise(d.tokens[k])
  <2>1. /\ d.tokens \in Seq(Layout!Tokens) /\ d.depth \in [0..Len(d.tokens) -> Nat]
        /\ d.depth[0] = 0
        /\ \A j \in 1..Len(d.tokens) : d.depth[j] = d.depth[j - 1] + Layout!Rise(d.tokens[j])
    BY Zenon DEF Layout!WellFormed
  <2>2. k \in 0..Len(d.tokens) /\ k - 1 \in 0..Len(d.tokens) /\ Len(d.tokens) \in Nat
    BY <2>1
  <2>3. d.tokens[k] \in Layout!Tokens
    BY <2>1
  <2> QED
    BY <2>1, <2>2, <2>3
<1>2. CASE d.tokens[k] = "open"
  BY <1>1, <1>2 DEF Layout!Rise
<1>3. CASE d.tokens[k] = "close"
  <2>1. d.depth[k] = d.depth[k - 1] - 1
    BY <1>1, <1>3 DEF Layout!Rise
  <2>2. k # 1
    BY <1>1, <2>1
  <2> QED
    BY <1>1, <1>3, <2>1, <2>2
<1>4. CASE d.tokens[k] \notin {"open", "close"}
  BY <1>1, <1>4 DEF Layout!Rise
<1> QED
  BY <1>1, <1>2, <1>3, <1>4

LEMMA FollowsSame ==
    ASSUME NEW j, j # 1 => formatted'[j - 1] = formatted[j - 1]
    PROVE  Follows(j)' = Follows(j)
BY DEF Follows

(* A line that is added at the end follows the one before. *)
LEMMA LineAdded ==
    ASSUME LayoutType, document' = document, LinesOK,
           NEW line \in LineType, formatted' = Append(formatted, line),
           line.last = line.first, line.padding = Layout!DepthAt(line.first),
           line.first = (IF formatted = <<>> THEN 1 ELSE formatted[Len(formatted)].last + 1),
           document.tokens[line.first] = "close" =>
              line.first > 1 /\ document.tokens[line.first - 1] # "open"
    PROVE  /\ formatted' \in Seq(LineType) /\ formatted' # <<>>
           /\ formatted'[Len(formatted')] = line
           /\ LinesOK'
<1>0. formatted \in Seq(LineType)
  BY DEF LayoutType
<1>1. PICK n \in Nat : n = Len(formatted)
  BY <1>0
<1>2. /\ formatted' \in Seq(LineType) /\ Len(formatted') = n + 1 /\ formatted'[n + 1] = line
      /\ \A j \in 1..n : formatted'[j] = formatted[j]
  BY <1>0, <1>1
<1>4. DOMAIN formatted = 1..n /\ DOMAIN formatted' = 1..(n + 1)
  BY <1>0, <1>1, <1>2
<1>5. ASSUME NEW j \in 1..n PROVE LineOK(j)'
  <2>1. formatted'[j] = formatted[j] /\ (j # 1 => formatted'[j - 1] = formatted[j - 1])
    BY <1>1, <1>2
  <2>2. Follows(j)' = Follows(j)
    BY <2>1, FollowsSame
  <2>3. LineOK(j)
    BY <1>4 DEF LinesOK
  <2> QED
    BY <2>1, <2>2, <2>3 DEF LineOK
<1>6. LineOK(n + 1)'
  <2>1. Follows(n + 1)' = line.first
    <3>1. n = 0 <=> formatted = <<>>
      BY <1>0, <1>1
    <3>2. n # 0 => formatted'[(n + 1) - 1] = formatted[n]
      BY <1>1, <1>2
    <3> QED
      BY <1>1, <3>1, <3>2 DEF Follows
  <2>2. Right(document, line, line.first)
    BY DEF Right, Layout!DepthAt
  <2> QED
    BY <1>2, <2>1, <2>2 DEF LineOK
<1>7. \A j \in 1..(n + 1) : j \in 1..n \/ j = n + 1
  BY <1>1
<1>8. LinesOK'
  BY <1>4, <1>5, <1>6, <1>7 DEF LinesOK
<1>9. formatted'[Len(formatted')] = line /\ formatted' # <<>>
  BY <1>1, <1>2
<1> QED
  BY <1>2, <1>8, <1>9

(* A closing tag joins the line of its opening one. *)
LEMMA LineJoined ==
    ASSUME LayoutType, document' = document, LinesOK,
           formatted # <<>>, NEW k \in Nat \ {0},
           formatted' = [formatted EXCEPT ![Len(formatted)].last = k],
           \/ k = formatted[Len(formatted)].first
           \/ /\ k = formatted[Len(formatted)].first + 1
              /\ document.tokens[k - 1] = "open" /\ document.tokens[k] = "close"
    PROVE  /\ formatted' \in Seq(LineType) /\ formatted' # <<>>
           /\ formatted'[Len(formatted')].last = k
           /\ LinesOK'
<1>0. formatted \in Seq(LineType)
  BY DEF LayoutType
<1>1. PICK n \in Nat \ {0} : n = Len(formatted)
  BY <1>0
<1> DEFINE line == [formatted[n] EXCEPT !.last = k]
<1>2. formatted[n] \in LineType /\ LineOK(n)
  <2>1. n \in DOMAIN formatted
    BY <1>0, <1>1
  <2> QED
    BY <1>0, <2>1 DEF LinesOK
<1>3. /\ line \in LineType /\ line.last = k /\ line.first = formatted[n].first
      /\ line.padding = formatted[n].padding
  BY <1>2 DEF LineType
<1>4. formatted' = [formatted EXCEPT ![n] = line]
  BY <1>1
<1> HIDE DEF line
<1>5. /\ formatted' \in Seq(LineType) /\ Len(formatted') = n
      /\ \A j \in 1..n : formatted'[j] = IF j = n THEN line ELSE formatted[j]
  BY <1>0, <1>1, <1>3, <1>4, ExceptSeq
<1>6. DOMAIN formatted = 1..n /\ DOMAIN formatted' = 1..n
  BY <1>0, <1>1, <1>5
<1>8. ASSUME NEW j \in 1..n, j # n PROVE LineOK(j)'
  <2>1. LineOK(j) /\ formatted'[j] = formatted[j]
    BY <1>5, <1>6, <1>8 DEF LinesOK
  <2>2. j # 1 => formatted'[j - 1] = formatted[j - 1]
    BY <1>1, <1>5, <1>8
  <2>3. Follows(j)' = Follows(j)
    BY <2>2, FollowsSame
  <2> QED
    BY <2>1, <2>3 DEF LineOK
<1>9. LineOK(n)'
  <2>1. n # 1 => formatted'[n - 1] = formatted[n - 1]
    BY <1>1, <1>5
  <2>2. Follows(n)' = Follows(n)
    BY <2>1, FollowsSame
  <2>3. formatted'[n] = line
    BY <1>1, <1>5
  <2>4. line.first \in Nat
    BY <1>3 DEF LineType
  <2>5. \/ line.last = line.first
        \/ /\ line.last = line.first + 1
           /\ document.tokens[line.first] = "open" /\ document.tokens[line.last] = "close"
    <3>1. k = line.first + 1 => k - 1 = line.first
      BY <2>4
    <3> QED
      BY <1>1, <1>3, <3>1
  <2>6. Right(document, line, Follows(n))
    BY <1>2, <1>3, <2>5 DEF LineOK, Right
  <2> QED
    BY <2>2, <2>3, <2>6 DEF LineOK
<1>10. LinesOK'
  BY <1>6, <1>8, <1>9 DEF LinesOK
<1>11. formatted'[n] = line
  BY <1>1, <1>5
<1> QED
  BY <1>1, <1>3, <1>5, <1>10, <1>11

\* How many elements are open where the next line begins.
Open == indent + (IF lastType = "opening" THEN 1 ELSE 0)

(* Only a closing line is indented less than what is open. *)
LEMMA IndentAfter ==
    ASSUME indent \in Int, NEW type, Layout!Line(type)
    PROVE  indent' = (IF type = "closing" THEN Open - 1 ELSE Open) /\ lastType' = type
<1>1. indent' = indent + Layout!Transition(lastType, type) /\ lastType' = type
  BY DEF Layout!Line
<1>2. CASE lastType = "opening"
  BY <1>1, <1>2 DEF Layout!Transition, Open
<1>3. CASE lastType # "opening"
  BY <1>1, <1>3 DEF Layout!Transition, Open
<1> QED
  BY <1>2, <1>3

(* Where a token begins, its depth before is what is open. *)
LEMMA OpenIsDepth ==
    ASSUME LayoutType, Between, ~leafText, at <= Len(document.tokens),
           Layout!WellFormed(document)
    PROVE  /\ at \in 1..Len(document.tokens) /\ at \in Nat
           /\ Open = document.depth[at - 1]
           /\ lastType = "opening" <=> at > 1 /\ document.tokens[at - 1] = "open"
           /\ at = (IF formatted = <<>> THEN 1 ELSE formatted[Len(formatted)].last + 1)
           /\ lastType = "opening" =>
                 formatted # <<>> /\ at = formatted[Len(formatted)].first + 1
<1>1. Len(document.tokens) \in Nat /\ document.depth[0] = 0
  BY DEF Layout!WellFormed
<1>2. at \in 1..Len(document.tokens) /\ at \in Nat /\ indent \in Int
  BY <1>1 DEF LayoutType
<1>3. document.depth[at - 1] \in Nat
  BY <1>2, TokenFacts
<1>4. CASE at = 1
  BY <1>1, <1>4 DEF Between, Open
<1>5. CASE at > 1
  <2>1. /\ formatted # <<>> /\ formatted[Len(formatted)].last = at - 1
        /\ IF document.tokens[at - 1] = "open"
           THEN /\ lastType = "opening" /\ indent = document.depth[at - 1] - 1
                /\ formatted[Len(formatted)].first = at - 1
           ELSE lastType # "opening" /\ indent = document.depth[at - 1]
    BY <1>5 DEF Between
  <2>2. PICK k \in Nat : k = at - 1
    BY <1>2, <1>5
  <2>3. document.depth[k] \in Nat
    BY <1>3, <2>2
  <2>4. at = k + 1 /\ formatted[Len(formatted)].last + 1 = at
    BY <1>2, <2>1, <2>2
  <2>5. CASE document.tokens[k] = "open"
    <3>1. /\ lastType = "opening" /\ indent = document.depth[k] - 1
          /\ formatted[Len(formatted)].first = k
      BY <2>1, <2>2, <2>5
    <3>2. Open = document.depth[k]
      BY <2>3, <3>1 DEF Open
    <3> QED
      BY <1>2, <1>5, <2>1, <2>2, <2>4, <2>5, <3>1, <3>2
  <2>6. CASE document.tokens[k] # "open"
    <3>1. lastType # "opening" /\ indent = document.depth[k]
      BY <2>1, <2>2, <2>6
    <3>2. Open = document.depth[k]
      BY <1>2, <3>1 DEF Open
    <3> QED
      BY <1>2, <1>5, <2>1, <2>2, <2>4, <2>6, <3>1, <3>2
  <2> QED
    BY <2>5, <2>6
<1> QED
  BY <1>2, <1>4, <1>5

(* A line of the loop that does not join the one before. *)
LEMMA LineAppended ==
    ASSUME LayoutType, LinesOK, document' = document, Layout!WellFormed(document),
           at \in 1..Len(document.tokens), at \in Nat,
           at = (IF formatted = <<>> THEN 1 ELSE formatted[Len(formatted)].last + 1),
           NEW type, Layout!Line(type), ~(lastType = "opening" /\ type = "closing"),
           indent' = Layout!DepthAt(at),
           document.tokens[at] = "close" => at > 1 /\ document.tokens[at - 1] # "open"
    PROVE  /\ formatted' \in Seq(LineType) /\ formatted' # <<>>
           /\ formatted'[Len(formatted')].first = at /\ formatted'[Len(formatted')].last = at
           /\ LinesOK'
<1> DEFINE line == [padding |-> Layout!Padding(indent'), first |-> at, last |-> at]
<1>1. formatted' = Append(formatted, line)
  BY DEF Layout!Line
<1>2. Layout!DepthAt(at) \in Nat
  BY TokenFacts DEF Layout!DepthAt
<1>3. Layout!Padding(indent') = Layout!DepthAt(at)
  BY <1>2 DEF Layout!Padding
<1>4. /\ line \in LineType /\ line.first = at /\ line.last = at
      /\ line.padding = Layout!DepthAt(at)
  BY <1>2, <1>3 DEF LineType
<1> HIDE DEF line
<1>5. /\ formatted' \in Seq(LineType) /\ formatted' # <<>>
      /\ formatted'[Len(formatted')] = line /\ LinesOK'
  BY <1>1, <1>4, LineAdded
<1> QED
  BY <1>4, <1>5

LEMMA LayoutInit == Layout!DocumentsOK /\ Layout!Init => LayoutInv
<1> SUFFICES ASSUME Layout!DocumentsOK, Layout!Init PROVE LayoutInv
  OBVIOUS
<1>1. Layout!WellFormed(document) /\ document \in Documents
  BY DEF Layout!DocumentsOK, Layout!Init
<1>2. Len(document.tokens) \in Nat
  BY <1>1 DEF Layout!WellFormed
<1>3. at = 1 /\ leafText = FALSE /\ indent = 0 /\ lastType = "other" /\ formatted = <<>>
  BY DEF Layout!Init
<1>4. LayoutType
  <2>1. at \in 1..(Len(document.tokens) + 1)
    BY <1>2, <1>3
  <2>2. formatted \in Seq(LineType)
    BY <1>3
  <2>3. leafText \in BOOLEAN
    BY <1>3, Zenon
  <2>4. indent \in Int
    BY <1>3
  <2> QED
    BY <2>1, <2>2, <2>3, <2>4 DEF LayoutType
<1>5. Between /\ LinesOK
  BY <1>3 DEF Between, LinesOK
<1> QED
  BY <1>1, <1>4, <1>5 DEF LayoutInv

LEMMA LayoutStep ==
    ASSUME Layout!DocumentsOK, LayoutInv, [Layout!Next]_(Layout!layvars)
    PROVE  LayoutInv'
<1>1. Layout!WellFormed(document) /\ document \in Documents
  BY DEF Layout!DocumentsOK, LayoutInv
<1>2. document' = document
  BY DEF Layout!Next, Layout!LineOfTag, Layout!LineOfText, Layout!LineOfToken, Layout!layvars
<1> SUFFICES ASSUME document.tokens[Len(document.tokens)] # "leaf"
             PROVE  LayoutType' /\ Between' /\ LinesOK'
  BY <1>1, <1>2 DEF LayoutInv
<1>3. LayoutType /\ Between /\ LinesOK
  BY DEF LayoutInv
<1>4. PICK n \in Nat : n = Len(document.tokens)
  BY <1>1 DEF Layout!WellFormed
<1>5. CASE Layout!LineOfTag
  <2>1. /\ at <= n /\ Layout!Token = "leaf" /\ at < n /\ ~leafText
        /\ Layout!Line("opening") /\ leafText' = TRUE /\ at' = at
    BY <1>4, <1>5 DEF Layout!LineOfTag, Layout!Cut
  <2>2. /\ at \in 1..n /\ at \in Nat /\ Open = document.depth[at - 1]
        /\ at = (IF formatted = <<>> THEN 1 ELSE formatted[Len(formatted)].last + 1)
    BY <1>1, <1>3, <1>4, <2>1, OpenIsDepth
  <2>3. indent' = document.depth[at - 1] /\ lastType' = "opening"
    BY <1>3, <2>1, <2>2, IndentAfter DEF LayoutType
  <2>4. document.tokens[at] = "leaf" /\ Layout!DepthAt(at) = document.depth[at - 1]
    BY <2>1 DEF Layout!Token, Layout!DepthAt
  <2>5. /\ formatted' \in Seq(LineType) /\ formatted' # <<>>
        /\ formatted'[Len(formatted')].first = at /\ formatted'[Len(formatted')].last = at
        /\ LinesOK'
    BY <1>1, <1>2, <1>3, <1>4, <2>1, <2>2, <2>3, <2>4, LineAppended
  <2>6. indent' \in Int
    BY <1>1, <1>4, <2>2, <2>3, TokenFacts
  <2>7. LayoutType'
    BY <1>2, <1>3, <2>1, <2>5, <2>6 DEF LayoutType
  <2>8. Between'
    BY <1>2, <1>4, <2>1, <2>3, <2>4, <2>5 DEF Between, Layout!Cut, Layout!Token
  <2> QED
    BY <2>5, <2>7, <2>8
<1>6. CASE Layout!LineOfText
  <2>1. leafText /\ Layout!Line("closing") /\ leafText' = FALSE /\ at' = at + 1
    BY <1>6 DEF Layout!LineOfText
  <2>2. /\ at < n /\ document.tokens[at] = "leaf"
        /\ lastType = "opening" /\ indent = document.depth[at - 1]
        /\ formatted # <<>> /\ formatted[Len(formatted)].first = at
    BY <1>3, <1>4, <2>1 DEF Between, Layout!Cut, Layout!Token
  <2>3. at \in 1..n /\ at \in Nat
    BY <1>3, <1>4, <2>2 DEF LayoutType
  <2>4. document.depth[at] \in Nat /\ document.depth[at] = document.depth[at - 1]
    BY <1>1, <1>4, <2>2, <2>3, TokenFacts
  <2>5. indent' = document.depth[at] /\ lastType' = "closing"
    BY <2>1, <2>2, <2>4, IndentAfter DEF Open
  <2>6. formatted' = [formatted EXCEPT ![Len(formatted)].last = at]
    BY <2>1, <2>2 DEF Layout!Line
  <2>7. /\ formatted' \in Seq(LineType) /\ formatted' # <<>>
        /\ formatted'[Len(formatted')].last = at /\ LinesOK'
    <3>1. at \in Nat \ {0}
      BY <2>3
    <3> QED
      BY <1>2, <1>3, <2>2, <2>6, <3>1, LineJoined
  <2>8. LayoutType'
    <3>1. at' \in 1..(n + 1) /\ indent' \in Int
      BY <2>1, <2>3, <2>4, <2>5
    <3> QED
      BY <1>2, <1>4, <2>1, <2>7, <3>1 DEF LayoutType
  <2>9. Between'
    <3>1. at' > 1 /\ at' - 1 = at /\ ~leafText'
      BY <2>1, <2>3
    <3> QED
      BY <1>2, <2>2, <2>5, <2>7, <3>1 DEF Between
  <2> QED
    BY <2>7, <2>8, <2>9
<1>7. CASE Layout!LineOfToken
  <2> DEFINE token == document.tokens[at]
             type == Layout!TypeOf(token)
  <2>1. /\ at <= n /\ ~(token = "leaf" /\ at < n)
        /\ Layout!Line(type) /\ at' = at + 1 /\ leafText' = leafText
    BY <1>4, <1>7 DEF Layout!LineOfToken, Layout!Cut, Layout!Token
  <2>2. ~leafText
    BY <1>3, <1>4, <2>1 DEF Between, Layout!Cut, Layout!Token
  <2>3. /\ at \in 1..n /\ at \in Nat /\ Open = document.depth[at - 1]
        /\ lastType = "opening" <=> at > 1 /\ document.tokens[at - 1] = "open"
        /\ at = (IF formatted = <<>> THEN 1 ELSE formatted[Len(formatted)].last + 1)
        /\ lastType = "opening" => formatted # <<>> /\ at = formatted[Len(formatted)].first + 1
    BY <1>1, <1>3, <1>4, <2>1, <2>2, OpenIsDepth
  <2>4. token # "leaf"
    BY <1>4, <2>1, <2>3
  <2>5. /\ token \in Layout!Tokens
        /\ document.depth[at] \in Nat /\ document.depth[at - 1] \in Nat
        /\ token = "open" => document.depth[at] = document.depth[at - 1] + 1
        /\ token = "close" => document.depth[at] = document.depth[at - 1] - 1 /\ at > 1
        /\ token \notin {"open", "close"} => document.depth[at] = document.depth[at - 1]
    BY <1>1, <1>4, <2>3, TokenFacts
  <2>6. /\ type = "closing" <=> token = "close"
        /\ type = "opening" <=> token = "open"
    BY <2>4, <2>5 DEF Layout!TypeOf, Layout!Tokens
  <2> HIDE DEF type
  <2>7. indent' = (IF type = "closing" THEN Open - 1 ELSE Open) /\ lastType' = type
    BY <1>3, <2>1, IndentAfter DEF LayoutType
  <2> HIDE DEF token
  <2>8. indent' = Layout!DepthAt(at)
    BY <2>3, <2>5, <2>6, <2>7 DEF Layout!DepthAt, token
  <2>9. /\ formatted' \in Seq(LineType) /\ formatted' # <<>>
        /\ formatted'[Len(formatted')].last = at /\ LinesOK'
        /\ token = "open" => formatted'[Len(formatted')].first = at
    <3>1. CASE lastType = "opening" /\ type = "closing"
      <4>1. formatted' = [formatted EXCEPT ![Len(formatted)].last = at]
        BY <2>1, <3>1 DEF Layout!Line
      <4>2. document.tokens[at - 1] = "open" /\ document.tokens[at] = "close"
        BY <2>3, <2>6, <3>1 DEF token
      <4>3. token # "open"
        BY <2>6, <3>1
      <4>4. /\ at \in Nat \ {0} /\ formatted # <<>>
            /\ at = formatted[Len(formatted)].first + 1
        BY <2>3, <3>1
      <4> QED
        BY <1>2, <1>3, <4>1, <4>2, <4>3, <4>4, LineJoined
    <3>2. CASE ~(lastType = "opening" /\ type = "closing")
      <4>1. document.tokens[at] = "close" => at > 1 /\ document.tokens[at - 1] # "open"
        BY <2>3, <2>5, <2>6, <3>2 DEF token
      <4> QED
        BY <1>1, <1>2, <1>3, <1>4, <2>1, <2>3, <2>8, <3>2, <4>1, LineAppended
    <3> QED
      BY <3>1, <3>2
  <2>10. indent' \in Int
    BY <2>3, <2>5, <2>7
  <2>11. LayoutType'
    <3>1. at' \in 1..(n + 1)
      BY <1>4, <2>1, <2>3
    <3>2. leafText' \in BOOLEAN
      BY <1>3, <2>1 DEF LayoutType
    <3> QED
      BY <1>2, <1>4, <2>9, <2>10, <3>1, <3>2 DEF LayoutType
  <2>12. Between'
    <3>1. at' > 1 /\ at' - 1 = at /\ ~leafText'
      BY <2>1, <2>2, <2>3
    <3>2. /\ token = "open" => indent' = Open /\ lastType' = "opening"
          /\ token = "close" => indent' = Open - 1 /\ lastType' = "closing"
          /\ token \notin {"open", "close"} => indent' = Open /\ lastType' # "opening"
      BY <2>6, <2>7, Zenon
    <3>3. PICK o \in Nat : o = document.depth[at - 1] /\ o = Open
      BY <2>3, <2>5
    <3>4. /\ token = "open" => Open = document.depth[at] - 1
          /\ token = "close" => Open - 1 = document.depth[at]
          /\ token \notin {"open", "close"} => Open = document.depth[at]
      BY <2>5, <3>3
    <3> QED
      BY <1>2, <2>9, <3>1, <3>2, <3>4 DEF Between, token
  <2> QED
    BY <2>9, <2>11, <2>12
<1>8. CASE UNCHANGED Layout!layvars
  BY <1>3, <1>8 DEF Layout!layvars, LayoutType, Between, LinesOK, LineOK, Follows,
                    Layout!Cut, Layout!Token
<1> QED
  BY <1>5, <1>6, <1>7, <1>8 DEF Layout!Next

(* Every line of an XML answer is indented by the depth of its element,    *)
(* each element is on a line of its own, and no token is left out, for any *)
(* well-formed documents (OperationView.formatXml).                        *)
THEOREM IndentIsDepthTheorem == ViewsSpec => []IndentIsDepth
<1> DEFINE Inv == showing = "layout" => LayoutInv
<1>0. Layout!DocumentsOK
  BY ViewsAssumption
<1>1. LayoutInv => Layout!IndentIsDepth
  <2> SUFFICES ASSUME LayoutInv, document.tokens[Len(document.tokens)] # "leaf"
               PROVE  Layout!IndentIsDepth
    BY DEF Layout!IndentIsDepth
  <2>1. LayoutType /\ Between /\ LinesOK /\ Layout!WellFormed(document)
    BY <1>0 DEF LayoutInv, Layout!DocumentsOK
  <2>2. PICK n \in Nat \ {0} : n = Len(document.tokens)
    BY <2>1 DEF Layout!WellFormed
  <2>3. ASSUME at > n
        PROVE  DOMAIN formatted # {} /\ formatted[Len(formatted)].last = n
    <3>1. at = n + 1 /\ at > 1 /\ ~leafText
      BY <2>1, <2>2, <2>3 DEF LayoutType, Between
    <3>2. formatted # <<>> /\ formatted[Len(formatted)].last = n
      BY <2>1, <2>2, <3>1 DEF Between
    <3> QED
      BY <2>1, <3>2 DEF LayoutType
  <2>4. ASSUME NEW j \in DOMAIN formatted
        PROVE  LET line == formatted[j] IN
               /\ line.padding = Layout!DepthAt(line.first)
               /\ \/ line.last = line.first
                  \/ /\ line.last = line.first + 1
                     /\ document.tokens[line.first] = "open"
                     /\ document.tokens[line.last] = "close"
               /\ line.first = (IF j = 1 THEN 1 ELSE formatted[j - 1].last + 1)
               /\ document.tokens[line.first] = "close" =>
                     line.first > 1 /\ document.tokens[line.first - 1] # "open"
    BY <2>1 DEF LinesOK, LineOK, Right, Follows, Layout!DepthAt
  <2> QED
    BY <2>2, <2>3, <2>4 DEF Layout!IndentIsDepth
<1>2. Layout!Init => LayoutInv
  BY <1>0, LayoutInit
<1>3. LayoutInv /\ [Layout!Next]_(Layout!layvars) => LayoutInv'
  BY <1>0, LayoutStep
<1>4. ViewsInit => Inv
  BY <1>2 DEF ViewsInit
<1>5. Inv /\ [ViewsNext]_viewvars => Inv'
  <2> SUFFICES ASSUME Inv, [ViewsNext]_viewvars, showing' = "layout" PROVE LayoutInv'
    OBVIOUS
  <2>1. showing = "layout" /\ [Layout!Next]_(Layout!layvars)
    BY DEF ViewsNext, ShowResponses, ShowSignature, ShowLayout, viewvars, layside,
           Layout!layvars
  <2> QED
    BY <1>3, <2>1
<1>6. Inv => IndentIsDepth
  BY <1>1 DEF IndentIsDepth
<1> HIDE DEF Inv
<1> QED
  BY <1>4, <1>5, <1>6, PTL DEF ViewsSpec
=============================================================================
