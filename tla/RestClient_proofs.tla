-------------------------- MODULE RestClient_proofs --------------------------
(***************************************************************************)
(* The safety invariants of RestClient for any number of callers and       *)
(* parameter objects: the inductive invariant is one conjunct per concern, *)
(* the factory, the request ids and the exchanges.                         *)
(***************************************************************************)
EXTENDS RestClient, FiniteSetTheorems, TLAPS

PCs == {"call", "lookup", "create", "ready", "checkId", "resetId", "takeId",
        "putId", "send", "waitForDone", "returned"}

\* Where a caller is before it has an instance, an id, an exchange.
NoInstanceYet == {"call", "lookup", "create"}
NoIdYet       == NoInstanceYet \cup {"ready", "checkId", "resetId", "takeId"}
NotSentYet    == NoIdYet \cup {"putId", "send"}

\* Where its parameters are used.
Numbering == {"checkId", "resetId", "takeId", "putId", "send"}

Outcomes == {"none", "JSONException", "empty", "null", "ServiceException", "response"}
Statuses == {"start", "waiting", "completed", "excepted", "expired"}
Timers   == {"off", "armed", "cancelled", "fired", "spent"}
Ids      == MinInt..MaxInt

\* What a callback may hear without a timeout, and with one.
OnTime == {<<>>, <<"response">>, <<"failure">>}
Told   == OnTime \cup {Append(s, "expiry") : s \in OnTime}
                 \cup {<<"expiry">> \o s : s \in OnTime}

Hears(s, n) == \E k \in DOMAIN s : s[k] = n

TypeOK ==
    /\ call \in [Callers -> Calls]
    /\ pc \in [Callers -> PCs]
    /\ outcome \in [Callers -> Outcomes]
    /\ monitor \subseteq Callers
    /\ conf \in {"fine", "rejected", "malformed"}
    /\ instance \in {0, 1} /\ made = instance
    /\ client \in {"null", "started"}
    /\ rest \in [Callers -> {0, 1}]
    /\ requestId \in Ids
    /\ reqId \in [Callers -> Ids \cup {NoId}]
    /\ header \in [ParamObjects -> Ids \cup {NoId}]
    /\ raced \in BOOLEAN
    /\ wire \in [Callers -> Ids \cup {NoId}]
    /\ status \in [Callers -> Statuses]
    /\ body \in [Callers -> {"nothing", "readable", "corrupt"}]
    /\ done \in [Callers -> BOOLEAN]
    /\ timer \in [Callers -> Timers]
    /\ limit \in [Callers -> Nat]
    /\ told \in [Callers -> Told]

(* One caller is in the synchronized method, it creates an instance only   *)
(* if there is none, and nobody goes on without one.                       *)
Factory ==
    /\ \A c \in Callers :
          /\ c \in monitor <=> pc[c] \in {"lookup", "create"}
          /\ \A d \in monitor : c \in monitor => c = d
          /\ pc[c] = "create" => instance = 0
          /\ rest[c] # 0 => instance # 0
          /\ instance = 0 => pc[c] \in NoInstanceYet \cup {"returned"}
          /\ pc[c] \in NoInstanceYet => reqId[c] = NoId /\ status[c] = "start"
    /\ instance = 0 => /\ client = "null"
                       /\ \A c \in Callers : reqId[c] = NoId /\ status[c] = "start"

\* The exchange of a caller, its listeners, its timer and its outcome.
Exchange(c) ==
    /\ pc[c] \in NotSentYet => status[c] = "start"
    /\ pc[c] = "waitForDone" => call[c].mode = "sync"
    /\ status[c] # "start" => client = "started"
    /\ status[c] = "start" <=> timer[c] = "off"
    /\ status[c] \in {"start", "waiting"} => ~done[c]
    /\ done[c] => timer[c] # "armed"
    /\ ~done[c] => told[c] \in {<<>>, <<"expiry">>}
    /\ timer[c] # "spent" => told[c] \in OnTime
    /\ status[c] = "completed" => body[c] # "nothing"
    /\ Hears(told[c], "response") => status[c] = "completed" /\ body[c] = "readable"
    /\ Hears(told[c], "failure") => status[c] = "excepted"
    /\ pc[c] = "returned" => outcome[c] # "none"
    /\ outcome[c] = "null" => call[c].mode = "async"
    /\ outcome[c] = "response" =>
          status[c] = "completed" /\ body[c] = "readable" /\ done[c]

\* The ids as one ascending sequence: the negative ones follow MaxInt.
Order(id) == IF id < 0 THEN id + 2 * MaxInt + 2 ELSE id

Taken  == {c \in Callers : reqId[c] # NoId}
Number == Cardinality(Taken)

\* Nobody has reset the counter: the ids taken are the last ones before it.
Ascending ==
    /\ Order(requestId) - Number \in 0..MaxInt
    /\ \A c \in Taken : /\ Order(requestId) - Number <= Order(reqId[c])
                        /\ Order(reqId[c]) < Order(requestId)
    /\ \A c \in Callers : pc[c] = "resetId" => Order(requestId) >= MaxInt

\* One caller did, and fewer have taken an id than would lead to a second
\* reset: the old ids are behind the new ones.
Restarted ==
    /\ requestId \in 1..(Number + 1)
    /\ \A c \in Taken : \/ reqId[c] \in 1..(requestId - 1)
                        \/ Order(reqId[c]) >= MaxInt - Number + requestId - 1
    /\ \A c \in Callers : pc[c] # "resetId"

Distinct == \A c, d \in Taken : reqId[c] = reqId[d] => c = d

Unique == ~raced => Distinct /\ (Ascending \/ Restarted)

\* What a caller has on its way to the exchange.
Equipped(c) ==
    /\ pc[c] \in NoIdYet => reqId[c] = NoId
    /\ pc[c] \in {"putId", "send"} => reqId[c] # NoId
    /\ pc[c] \in Numbering => params(c) \in ParamObjects
    /\ pc[c] = "send" => header[params(c)] # NoId

\* An id in a header map, or on the wire, was taken for its parameters.
Origin ==
    /\ \A p \in ParamObjects : header[p] # NoId =>
          \E d \in Callers : params(d) = p /\ reqId[d] = header[p]
    /\ \A c \in Callers : wire[c] # NoId =>
          \E d \in Callers : params(d) = params(c) /\ reqId[d] = wire[c]

IInv == /\ TypeOK /\ Factory /\ Unique /\ Origin
        /\ \A c \in Callers : Equipped(c) /\ Exchange(c)

USE DEF factory, ids, exchange, vars, params

-----------------------------------------------------------------------------
(* Initial states                                                          *)

LEMMA NoneTaken ==
    ASSUME \A c \in Callers : reqId[c] = NoId
    PROVE  Taken = {} /\ Number = 0
BY FS_EmptySet DEF Taken, Number

LEMMA InitIInv == Init => IInv
<1> SUFFICES ASSUME Init PROVE IInv
  OBVIOUS
<1>1. requestId \in 0..MaxInt /\ MaxInt \in Nat
  <2>1. requestId = 0 \/ requestId \in OldIds
    BY DEF Init
  <2>2. MaxInt \in Nat /\ 0 \in 0..MaxInt
    BY MaxIntAssumption
  <2>3. OldIds \subseteq 0..MaxInt
    BY OldIdsAssumption
  <2> QED
    BY <2>1, <2>2, <2>3
<1>2. \A c \in Callers : reqId[c] = NoId
  BY DEF Init
<1>3. TypeOK
  <2>1. requestId \in Ids /\ instance \in {0, 1}
    BY <1>1 DEF Init, Ids, MinInt
  <2>2. told \in [Callers -> Told]
    BY DEF Init, Told, OnTime
  <2>3. /\ pc \in [Callers -> PCs] /\ outcome \in [Callers -> Outcomes]
        /\ status \in [Callers -> Statuses] /\ timer \in [Callers -> Timers]
    BY DEF Init, PCs, Outcomes, Statuses, Timers
  <2> QED
    BY <2>1, <2>2, <2>3 DEF Init, TypeOK
<1>4. Factory
  BY DEF Init, Factory, NoInstanceYet
<1>5. Unique
  <2>1. Order(requestId) \in 0..MaxInt
    BY <1>1 DEF Order
  <2>2. Ascending
    BY <1>1, <1>2, <2>1, NoneTaken DEF Init, Ascending
  <2>3. Distinct
    BY <1>2, NoneTaken DEF Distinct
  <2> QED
    BY <2>2, <2>3 DEF Unique
<1>6. Origin
  BY DEF Init, Origin
<1>7. ASSUME NEW c \in Callers PROVE Equipped(c) /\ Exchange(c)
  <2>1. ASSUME NEW n PROVE ~Hears(told[c], n)
    BY DEF Init, Hears
  <2> QED
    BY <2>1 DEF Init, Equipped, Numbering, Exchange, OnTime
<1> QED
  BY <1>3, <1>4, <1>5, <1>6, <1>7 DEF IInv

-----------------------------------------------------------------------------
(* What the steps leave alone                                              *)

\* A step of a thread of Jetty, or of the server it talks to.
ExchangeStep(c) == JettyStep(c) \/ Answer(c) \/ Fail(c)

\* A step of a caller after it has left the factory, not one with an id.
LaterStep(c) == \/ BeginRequest(c) \/ CheckRequestId(c) \/ Send(c) \/ SendFails(c)
                \/ CallbackExecute(c) \/ Interrupted(c)

LEMMA StepCases ==
    ASSUME [Next]_vars,
           NEW P,
           \A c \in Callers : EnterFactory(c) => P,
           \A c \in Callers : GetRestInstance(c) => P,
           \A c \in Callers : CreateHttpRest(c) => P,
           \A c \in Callers : ResetRequestId(c) => P,
           \A c \in Callers : TakeRequestId(c) => P,
           \A c \in Callers : PutRequestId(c) => P,
           \A c \in Callers : LaterStep(c) => P,
           \A c \in Callers : ExchangeStep(c) => P,
           RepairConf => P,
           UNCHANGED vars => P
    PROVE  P
BY DEF Next, CallerStep, LaterStep, ExchangeStep, AllSettled

(* The exchange's threads touch one exchange and nothing of the caller. *)
LEMMA ExchangeStepFrame ==
    ASSUME TypeOK, NEW c \in Callers, ExchangeStep(c)
    PROVE  /\ UNCHANGED <<call, pc, outcome, factory, ids, wire, limit>>
           /\ \A q \in Callers \ {c} :
                 /\ status'[q] = status[q] /\ body'[q] = body[q] /\ done'[q] = done[q]
                 /\ timer'[q] = timer[q] /\ told'[q] = told[q]
           /\ status'[c] # "start" <=> status[c] # "start"
<1> USE DEF TypeOK
<1>1. CASE Answer(c) \/ Fail(c)
  BY <1>1 DEF Answer, Fail
<1>2. CASE OnResponseComplete(c) \/ OnException(c)
  BY <1>2 DEF OnResponseComplete, OnException, CallBack
<1>3. CASE TimerFires(c)
  BY <1>3 DEF TimerFires
<1>4. CASE Expire(c)
  BY <1>4 DEF Expire
<1> QED
  BY <1>1, <1>2, <1>3, <1>4 DEF ExchangeStep, JettyStep

(* A caller that has left the factory leaves it, and the ids, alone. *)
LEMMA LaterStepFrame ==
    ASSUME TypeOK, NEW c \in Callers, LaterStep(c)
    PROVE  /\ UNCHANGED <<call, factory, ids, body, done, told>>
           /\ pc[c] \in {"ready", "checkId", "send", "waitForDone"}
           /\ pc'[c] \in {"checkId", "resetId", "takeId", "waitForDone", "returned"}
           /\ \A q \in Callers \ {c} :
                 /\ pc'[q] = pc[q] /\ outcome'[q] = outcome[q]
                 /\ status'[q] = status[q] /\ timer'[q] = timer[q]
                 /\ wire'[q] = wire[q]
           /\ pc[c] # "send" => UNCHANGED <<wire, status, timer>>
<1> USE DEF TypeOK, Goto, Return
<1>1. CASE BeginRequest(c) \/ CheckRequestId(c)
  BY <1>1 DEF BeginRequest, CheckRequestId
<1>2. CASE Send(c)
  BY <1>2 DEF Send
<1>3. CASE SendFails(c) \/ CallbackExecute(c) \/ Interrupted(c)
  BY <1>3 DEF SendFails, CallbackExecute, Interrupted
<1> QED
  BY <1>1, <1>2, <1>3 DEF LaterStep

-----------------------------------------------------------------------------
(* Types                                                                   *)

LEMMA SuccessorType == \A n \in Ids : Successor(n) \in Ids
BY MaxIntAssumption DEF Ids, Successor, MinInt

LEMMA SmallIds == MaxInt \in Nat /\ {0, 1, MaxInt} \subseteq Ids /\ NoId \notin Ids
BY MaxIntAssumption DEF Ids, MinInt, NoId

(* What a callback has heard, when it hears more. *)
LEMMA HearsMore ==
    /\ \A s \in {<<>>, <<"expiry">>} :
          {s \o <<>>, s \o <<"response">>, s \o <<"failure">>} \subseteq Told
    /\ \A s \in OnTime : Append(s, "expiry") \in Told
<1>1. \A s \in OnTime : <<>> \o s = s
  BY DEF OnTime
<1>2. \A s \in OnTime : {Append(s, "expiry"), <<"expiry">> \o s} \subseteq Told
  BY DEF Told
<1> QED
  BY <1>1, <1>2 DEF Told, OnTime

LEMMA TypeStep == IInv /\ [Next]_vars => TypeOK'
<1> SUFFICES ASSUME IInv, [Next]_vars PROVE TypeOK'
  OBVIOUS
<1>0. TypeOK
  BY DEF IInv
<1> USE DEF Goto, Return
<1>1. ASSUME NEW c \in Callers, EnterFactory(c) \/ GetRestInstance(c) PROVE TypeOK'
  BY <1>0, <1>1 DEF EnterFactory, GetRestInstance, TypeOK, PCs
<1>2. ASSUME NEW c \in Callers, CreateHttpRest(c) PROVE TypeOK'
  <2>1. instance = 0 /\ made = 0
    BY <1>2 DEF IInv, Factory, TypeOK, CreateHttpRest
  <2> QED
    BY <1>0, <1>2, <2>1, SmallIds DEF CreateHttpRest, TypeOK, PCs, Outcomes
<1>3. ASSUME NEW c \in Callers, ResetRequestId(c) PROVE TypeOK'
  BY <1>0, <1>3, SmallIds DEF ResetRequestId, TypeOK, PCs
<1>4. ASSUME NEW c \in Callers, TakeRequestId(c) PROVE TypeOK'
  BY <1>0, <1>4, SuccessorType DEF TakeRequestId, TypeOK, PCs
<1>5. ASSUME NEW c \in Callers, PutRequestId(c) PROVE TypeOK'
  BY <1>0, <1>5 DEF PutRequestId, TypeOK, PCs
<1>6. ASSUME NEW c \in Callers, LaterStep(c) PROVE TypeOK'
  <2>1. CASE BeginRequest(c) \/ CheckRequestId(c)
    BY <1>0, <2>1 DEF BeginRequest, CheckRequestId, TypeOK, PCs, Outcomes
  <2>2. CASE Send(c)
    <3>1. TimeoutOf(c) \in Nat
      BY <1>0, CallsAssumption DEF TypeOK, TimeoutOf, CallType, DefaultTimeout
    <3>2. params(c) \in ParamObjects
      BY <2>2 DEF IInv, Equipped, Send, Numbering
    <3>3. /\ pc' \in [Callers -> PCs] /\ outcome' \in [Callers -> Outcomes]
      BY <1>0, <2>2 DEF Send, TypeOK, PCs, Outcomes
    <3>4. /\ wire' \in [Callers -> Ids \cup {NoId}] /\ limit' \in [Callers -> Nat]
      BY <1>0, <2>2, <3>1, <3>2 DEF Send, TypeOK
    <3>5. /\ status' \in [Callers -> Statuses] /\ timer' \in [Callers -> Timers]
      BY <1>0, <2>2 DEF Send, TypeOK, Statuses, Timers
    <3> QED
      BY <1>0, <2>2, <3>3, <3>4, <3>5 DEF Send, TypeOK
  <2>3. CASE SendFails(c) \/ CallbackExecute(c) \/ Interrupted(c)
    BY <1>0, <2>3 DEF SendFails, CallbackExecute, Interrupted, TypeOK, PCs, Outcomes
  <2> QED
    BY <1>6, <2>1, <2>2, <2>3 DEF LaterStep
<1>7. ASSUME NEW c \in Callers, ExchangeStep(c) PROVE TypeOK'
  <2>1. UNCHANGED <<call, pc, outcome, factory, ids, wire, limit>>
    BY <1>0, <1>7, ExchangeStepFrame
  <2>2. Exchange(c)
    BY DEF IInv
  <2>3. CASE Answer(c) \/ Fail(c)
    BY <1>0, <2>1, <2>3 DEF Answer, Fail, TypeOK, Statuses
  <2>4. ASSUME NEW notes \in {<<>>, <<"response">>, <<"failure">>}, ~done[c],
               CallBack(c, notes), UNCHANGED <<status, body>>
        PROVE  TypeOK'
    <3>1. told'[c] \in Told /\ DOMAIN told' = Callers
      BY <1>0, <2>2, <2>4, HearsMore DEF CallBack, Exchange, TypeOK
    <3>2. told' \in [Callers -> Told]
      BY <1>0, <2>4, <3>1 DEF CallBack, TypeOK
    <3>3. done' \in [Callers -> BOOLEAN] /\ timer' \in [Callers -> Timers]
      BY <1>0, <2>4 DEF CallBack, TypeOK, Timers
    <3> QED
      BY <1>0, <2>1, <2>4, <3>2, <3>3 DEF TypeOK
  <2>5. CASE OnResponseComplete(c) \/ OnException(c)
    BY <2>4, <2>5 DEF OnResponseComplete, OnException
  <2>6. CASE TimerFires(c)
    BY <1>0, <2>1, <2>6 DEF TimerFires, TypeOK, Timers
  <2>7. CASE Expire(c)
    <3>1. told'[c] \in Told /\ DOMAIN told' = Callers
      BY <1>0, <2>2, <2>7, HearsMore DEF Expire, Exchange, TypeOK
    <3>2. told' \in [Callers -> Told]
      BY <1>0, <2>7, <3>1 DEF Expire, TypeOK
    <3>3. /\ done' \in [Callers -> BOOLEAN] /\ timer' \in [Callers -> Timers]
          /\ status' \in [Callers -> Statuses] /\ body' = body
      BY <1>0, <2>7 DEF Expire, TypeOK, Timers, Statuses
    <3> QED
      BY <1>0, <2>1, <3>2, <3>3 DEF TypeOK
  <2> QED
    BY <1>7, <2>3, <2>5, <2>6, <2>7 DEF ExchangeStep, JettyStep
<1>8. CASE RepairConf \/ UNCHANGED vars
  BY <1>0, <1>8 DEF RepairConf, TypeOK
<1> QED
  BY <1>1, <1>2, <1>3, <1>4, <1>5, <1>6, <1>7, <1>8, StepCases

-----------------------------------------------------------------------------
(* The factory                                                             *)

LEMMA FactoryStep == IInv /\ [Next]_vars => Factory'
<1> SUFFICES ASSUME IInv, [Next]_vars PROVE Factory'
  OBVIOUS
<1>0. TypeOK /\ Factory
  BY DEF IInv
<1> USE DEF Goto, Return, NoInstanceYet
<1>1. ASSUME NEW c \in Callers, EnterFactory(c) PROVE Factory'
  BY <1>0, <1>1 DEF EnterFactory, TypeOK, Factory
<1>2. ASSUME NEW c \in Callers, GetRestInstance(c) PROVE Factory'
  BY <1>0, <1>2 DEF GetRestInstance, TypeOK, Factory
<1>3. ASSUME NEW c \in Callers, CreateHttpRest(c) PROVE Factory'
  BY <1>0, <1>3 DEF CreateHttpRest, TypeOK, Factory
<1>4. ASSUME NEW c \in Callers, ResetRequestId(c) \/ TakeRequestId(c) \/ PutRequestId(c)
      PROVE  Factory'
  BY <1>0, <1>4 DEF ResetRequestId, TakeRequestId, PutRequestId, TypeOK, Factory
<1>5. ASSUME NEW c \in Callers, LaterStep(c) PROVE Factory'
  BY <1>0, <1>5, LaterStepFrame DEF TypeOK, Factory
<1>6. ASSUME NEW c \in Callers, ExchangeStep(c) PROVE Factory'
  BY <1>0, <1>6, ExchangeStepFrame DEF TypeOK, Factory
<1>7. CASE RepairConf \/ UNCHANGED vars
  BY <1>0, <1>7 DEF RepairConf, Factory
<1> QED
  BY <1>1, <1>2, <1>3, <1>4, <1>5, <1>6, <1>7, StepCases

-----------------------------------------------------------------------------
(* The exchanges                                                           *)

\* The part of Exchange that is about Jetty's side only.
Jetty(c) ==
    /\ status[c] = "start" <=> timer[c] = "off"
    /\ status[c] \in {"start", "waiting"} => ~done[c]
    /\ done[c] => timer[c] # "armed"
    /\ ~done[c] => told[c] \in {<<>>, <<"expiry">>}
    /\ timer[c] # "spent" => told[c] \in OnTime
    /\ status[c] = "completed" => body[c] # "nothing"
    /\ Hears(told[c], "response") => status[c] = "completed" /\ body[c] = "readable"
    /\ Hears(told[c], "failure") => status[c] = "excepted"

(* What is heard of a sequence with one more note. *)
LEMMA HearsAll ==
    /\ \A n : ~Hears(<<>>, n)
    /\ \A n : Hears(<<"expiry">>, n) => n = "expiry"
    /\ \A s \in {<<>>, <<"expiry">>} :
          /\ ~Hears(s, "response") /\ ~Hears(s, "failure")
          /\ s \o <<>> = s
          /\ ~Hears(s \o <<"response">>, "failure")
          /\ ~Hears(s \o <<"failure">>, "response")
    /\ \A s \in OnTime : \A n : Hears(Append(s, "expiry"), n) => n = "expiry" \/ Hears(s, n)
    /\ \A s \in {<<>>, <<"expiry">>} \cap OnTime :
          {s, s \o <<"response">>, s \o <<"failure">>} \subseteq OnTime
BY DEF Hears, OnTime

LEMMA JettyKeeps ==
    ASSUME IInv, NEW c \in Callers, ExchangeStep(c)
    PROVE  /\ Jetty(c)'
           /\ status[c] = "completed" => status'[c] = "completed" /\ body'[c] = body[c]
           /\ done[c] => done'[c]
<1>1. TypeOK /\ Jetty(c)
  BY DEF IInv, Exchange, Jetty
<1> USE DEF TypeOK
<1>2. CASE Answer(c) \/ Fail(c)
  BY <1>1, <1>2, HearsAll DEF Answer, Fail, Jetty
<1>3. ASSUME NEW notes \in {<<>>, <<"response">>, <<"failure">>}, ~done[c],
             CallBack(c, notes), UNCHANGED <<status, body>>,
             status[c] \in {"completed", "excepted"},
             notes = <<"response">> => status[c] = "completed" /\ body[c] = "readable",
             notes = <<"failure">> => status[c] = "excepted"
      PROVE  Jetty(c)'
  <2>1. /\ done'[c] /\ timer'[c] = IF timer[c] = "armed" THEN "cancelled" ELSE timer[c]
        /\ status'[c] = status[c] /\ body'[c] = body[c]
    BY <1>1, <1>3 DEF CallBack
  <2>2. told'[c] = told[c] \/ told'[c] = told[c] \o notes
    BY <1>1, <1>3 DEF CallBack
  <2>3. told[c] \in {<<>>, <<"expiry">>}
    BY <1>1, <1>3 DEF Jetty
  <2>4. timer'[c] # "spent" => told'[c] \in OnTime
    <3>1. ASSUME timer'[c] # "spent" PROVE told[c] \in OnTime
      BY <1>1, <2>1, <3>1 DEF Jetty
    <3>2. ASSUME told[c] \in OnTime PROVE told'[c] \in OnTime
      BY <1>3, <2>2, <2>3, <3>2, HearsAll, Zenon
    <3> QED
      BY <3>1, <3>2
  <2>5. Hears(told'[c], "response") => status[c] = "completed" /\ body[c] = "readable"
    BY <1>3, <2>2, <2>3, HearsAll
  <2>6. Hears(told'[c], "failure") => status[c] = "excepted"
    BY <1>3, <2>2, <2>3, HearsAll
  <2>7. /\ status'[c] = "start" <=> timer'[c] = "off"
        /\ status'[c] = "completed" => body'[c] # "nothing"
        /\ status'[c] \notin {"start", "waiting"}
    BY <1>1, <1>3, <2>1 DEF Jetty
  <2> HIDE DEF TypeOK
  <2> QED
    BY <2>1, <2>4, <2>5, <2>6, <2>7 DEF Jetty
<1>4. CASE OnResponseComplete(c)
  <2>1. /\ status[c] = "completed" /\ ~done[c] /\ UNCHANGED <<status, body>>
        /\ CallBack(c, IF body[c] = "corrupt" THEN <<>> ELSE <<"response">>)
    BY <1>4 DEF OnResponseComplete, GetResponseFails
  <2>2. body[c] \in {"readable", "corrupt"}
    BY <1>1, <2>1 DEF Jetty
  <2>3. CASE body[c] = "corrupt"
    <3>1. CallBack(c, <<>>)
      BY <2>1, <2>3
    <3> QED
      BY <1>3, <2>1, <3>1
  <2>4. CASE body[c] = "readable"
    <3>1. CallBack(c, <<"response">>)
      BY <2>1, <2>4
    <3> QED
      BY <1>3, <2>1, <2>4, <3>1
  <2> QED
    BY <2>2, <2>3, <2>4
<1>5. CASE OnException(c)
  BY <1>1, <1>3, <1>5 DEF OnException, CallBack
<1>6. CASE TimerFires(c)
  BY <1>1, <1>6 DEF TimerFires, Jetty
<1>7. CASE Expire(c)
  <2>1. told[c] \in OnTime
    BY <1>1, <1>7 DEF Expire, Jetty
  <2>2. told'[c] = told[c] \/ told'[c] = Append(told[c], "expiry")
    BY <1>1, <1>7 DEF Expire
  <2>3. /\ Hears(told'[c], "response") => Hears(told[c], "response")
        /\ Hears(told'[c], "failure") => Hears(told[c], "failure")
    BY <2>1, <2>2, HearsAll
  <2>4. /\ body' = body /\ timer'[c] = "spent" /\ status[c] # "start"
        /\ \/ status[c] = "waiting" /\ status'[c] = "expired" /\ done'[c]
           \/ status[c] # "waiting" /\ status' = status /\ done' = done
    BY <1>1, <1>7 DEF Expire, Jetty
  <2>5. CASE status[c] # "waiting" /\ status' = status /\ done' = done
    <3>1. ~done[c] => told'[c] \in {<<>>, <<"expiry">>}
      <4>1. ~done[c] => told[c] = <<>>
        BY <1>1, <2>1 DEF Jetty, OnTime
      <4>2. Append(<<>>, "expiry") = <<"expiry">>
        OBVIOUS
      <4> QED
        BY <2>2, <4>1, <4>2
    <3> HIDE DEF TypeOK
    <3> QED
      BY <1>1, <2>3, <2>4, <2>5, <3>1 DEF Jetty
  <2> QED
    BY <1>1, <2>3, <2>4, <2>5 DEF Jetty
<1> QED
  BY <1>2, <1>4, <1>5, <1>6, <1>7 DEF ExchangeStep, JettyStep, Answer, Fail,
     OnResponseComplete, OnException, TimerFires, Expire, CallBack
LEMMA ExchangesStep ==
    ASSUME IInv, [Next]_vars, NEW q \in Callers
    PROVE  Exchange(q)'
<1>0. TypeOK /\ Factory /\ Exchange(q)
  BY DEF IInv
<1> USE DEF Goto, Return
<1>1. ASSUME NEW c \in Callers, EnterFactory(c) \/ GetRestInstance(c) PROVE Exchange(q)'
  BY <1>0, <1>1 DEF EnterFactory, GetRestInstance, Exchange, TypeOK,
     NotSentYet, NoIdYet, NoInstanceYet
<1>2. ASSUME NEW c \in Callers, CreateHttpRest(c) PROVE Exchange(q)'
  <2>1. status[q] = "start" /\ UNCHANGED <<call, exchange>>
    BY <1>0, <1>2 DEF Factory, CreateHttpRest
  <2>2. /\ \/ pc'[q] = pc[q] /\ outcome'[q] = outcome[q]
           \/ pc'[q] = "returned" /\ outcome'[q] = "JSONException"
           \/ pc'[q] = "ready" /\ outcome'[q] = outcome[q]
    BY <1>0, <1>2 DEF CreateHttpRest, TypeOK
  <2> QED
    BY <1>0, <2>1, <2>2 DEF Exchange, NotSentYet, NoIdYet, NoInstanceYet
<1>3. ASSUME NEW c \in Callers, ResetRequestId(c) \/ TakeRequestId(c) \/ PutRequestId(c)
      PROVE  Exchange(q)'
  BY <1>0, <1>3 DEF ResetRequestId, TakeRequestId, PutRequestId, Exchange, TypeOK,
     NotSentYet, NoIdYet, NoInstanceYet
<1>4. ASSUME NEW c \in Callers, LaterStep(c), c # q PROVE Exchange(q)'
  BY <1>0, <1>4, LaterStepFrame DEF Exchange, TypeOK
<1>5. ASSUME LaterStep(q) PROVE Exchange(q)'
  <2>1. UNCHANGED <<call, factory, body, done, told>>
    BY <1>0, <1>5, LaterStepFrame
  <2>2. CASE BeginRequest(q) \/ CheckRequestId(q)
    BY <1>0, <2>2 DEF BeginRequest, CheckRequestId, Exchange, TypeOK,
       NotSentYet, NoIdYet, NoInstanceYet
  <2>3. CASE Send(q)
    <3>1. /\ status[q] = "start" /\ status'[q] = "waiting" /\ timer'[q] = "armed"
          /\ client = "started"
      BY <1>0, <2>3 DEF Send, Exchange, TypeOK, NotSentYet
    <3>2. \/ /\ call[q].mode = "sync" /\ pc'[q] = "waitForDone"
             /\ outcome'[q] = outcome[q]
          \/ /\ call[q].mode # "sync" /\ pc'[q] = "returned" /\ outcome'[q] = "null"
      BY <1>0, <2>3 DEF Send, TypeOK
    <3>3. call[q].mode \in {"sync", "async"}
      BY <1>0, CallsAssumption DEF TypeOK, CallType
    <3> QED
      BY <1>0, <2>1, <3>1, <3>2, <3>3 DEF Exchange, NotSentYet, NoIdYet, NoInstanceYet
  <2>4. CASE SendFails(q) \/ CallbackExecute(q) \/ Interrupted(q)
    <3>1. UNCHANGED <<status, timer>> /\ pc'[q] = "returned"
          /\ \/ outcome'[q] = "ServiceException"
             \/ /\ outcome'[q] = "response" /\ status[q] = "completed" /\ done[q]
                /\ body[q] # "corrupt"
      BY <1>0, <2>4 DEF SendFails, CallbackExecute, Interrupted, GetResponseFails, TypeOK
    <3>2. status[q] = "completed" /\ body[q] # "corrupt" => body[q] = "readable"
      BY <1>0 DEF Exchange, TypeOK
    <3> QED
      BY <1>0, <2>1, <3>1, <3>2 DEF Exchange, NotSentYet, NoIdYet, NoInstanceYet
  <2> QED
    BY <1>5, <2>2, <2>3, <2>4 DEF LaterStep
<1>6. ASSUME NEW c \in Callers, ExchangeStep(c), c # q PROVE Exchange(q)'
  BY <1>0, <1>6, ExchangeStepFrame DEF Exchange
<1>7. ASSUME ExchangeStep(q) PROVE Exchange(q)'
  <2>1. /\ UNCHANGED <<call, pc, outcome, factory>>
        /\ status'[q] # "start" <=> status[q] # "start"
    BY <1>0, <1>7, ExchangeStepFrame
  <2>2. /\ Jetty(q)' /\ (done[q] => done'[q])
        /\ (status[q] = "completed" => status'[q] = "completed" /\ body'[q] = body[q])
    BY <1>7, JettyKeeps
  <2> QED
    BY <1>0, <2>1, <2>2 DEF Exchange, Jetty
<1>8. CASE RepairConf \/ UNCHANGED vars
  BY <1>0, <1>8 DEF RepairConf, Exchange
<1> QED
  BY <1>1, <1>2, <1>3, <1>4, <1>5, <1>6, <1>7, <1>8, StepCases

-----------------------------------------------------------------------------
(* The request ids                                                         *)

(* The number of ids taken, and that it stays below the number of ids. *)
LEMMA NumberBound ==
    /\ Number \in Nat /\ IsFiniteSet(Taken) /\ MaxInt \in Nat
    /\ Number < MaxInt
    /\ \A c \in Callers : reqId[c] = NoId => Number + 1 < MaxInt
<1> DEFINE N == Cardinality(Callers)
<1>1. IsFiniteSet(Callers) /\ N \in Nat /\ N < MaxInt /\ MaxInt \in Nat
  BY CallersAssumption, MaxIntAssumption, FS_CardinalityType
<1>2. Taken \subseteq Callers
  BY DEF Taken
<1>3. IsFiniteSet(Taken) /\ Number \in Nat /\ Number <= N
  BY <1>1, <1>2, FS_Subset, FS_CardinalityType DEF Number
<1>4. ASSUME NEW c \in Callers, reqId[c] = NoId PROVE Number < N
  <2>1. Taken # Callers
    BY <1>4 DEF Taken
  <2>2. Number # N
    BY <1>1, <1>2, <2>1, FS_Subset DEF Number
  <2> HIDE DEF N
  <2> QED
    BY <1>1, <1>3, <2>2
<1> HIDE DEF N
<1> QED
  BY <1>1, <1>3, <1>4

(* Taking an id makes one more of them. *)
LEMMA OneMoreTaken ==
    ASSUME TypeOK, NEW c \in Callers, reqId[c] = NoId,
           reqId' = [reqId EXCEPT ![c] = requestId]
    PROVE  Taken' = Taken \cup {c} /\ c \notin Taken /\ Number' = Number + 1
<1>1. requestId # NoId
  BY SmallIds DEF TypeOK
<1>2. Taken' = Taken \cup {c} /\ c \notin Taken
  BY <1>1 DEF Taken, TypeOK
<1> QED
  BY <1>2, NumberBound, FS_AddElement DEF Number

(* The order of the ids on the way from one to the next. *)
LEMMA OrderOfIds ==
    /\ \A i \in Ids : Order(i) \in 0..(2 * MaxInt + 1)
    /\ \A i, j \in Ids : Order(i) = Order(j) => i = j
    /\ \A i \in Ids : Order(i) <= 2 * MaxInt => Order(Successor(i)) = Order(i) + 1
    /\ \A i \in 0..MaxInt : Order(i) = i
BY MaxIntAssumption DEF Ids, Order, Successor, MinInt

LEMMA TakeKeeps ==
    ASSUME IInv, NEW c \in Callers, TakeRequestId(c), ~raced
    PROVE  Distinct' /\ (Ascending \/ Restarted)'
<1>1. TypeOK /\ reqId[c] = NoId /\ Distinct /\ (Ascending \/ Restarted)
  BY DEF IInv, Unique, Equipped, TakeRequestId, NoIdYet
<1>2. /\ reqId' = [reqId EXCEPT ![c] = requestId]
      /\ requestId' = Successor(requestId)
      /\ \A d \in Callers : pc'[d] = "resetId" => pc[d] = "resetId"
  BY <1>1 DEF TakeRequestId, TypeOK, Goto
<1>3. Taken' = Taken \cup {c} /\ c \notin Taken /\ Number' = Number + 1
  BY <1>1, <1>2, OneMoreTaken
<1>4. Number \in Nat /\ MaxInt \in Nat /\ Number + 1 < MaxInt
  BY <1>1, NumberBound
<1>5. /\ reqId'[c] = requestId /\ requestId \in Ids
      /\ \A d \in Taken : d \in Callers /\ reqId'[d] = reqId[d] /\ reqId[d] \in Ids
  BY <1>1, <1>2, <1>3 DEF TypeOK, Taken
<1>6. CASE Ascending
  <2>1. Order(requestId') = Order(requestId) + 1 /\ Order(requestId) \in Nat
    BY <1>2, <1>4, <1>5, <1>6, OrderOfIds DEF Ascending
  <2>2. \A d \in Taken : Order(reqId[d]) \in Nat
    BY <1>5, OrderOfIds
  <2>3. Ascending'
    <3>1. (Order(requestId) - Number \in 0..MaxInt)'
      BY <1>3, <1>4, <1>6, <2>1 DEF Ascending, Order
    <3>2. ASSUME NEW d \in Taken'
          PROVE  (Order(requestId) - Number <= Order(reqId[d])
                     /\ Order(reqId[d]) < Order(requestId))'
      BY <1>3, <1>4, <1>5, <1>6, <2>1, <2>2 DEF Ascending, Order
    <3>3. ASSUME NEW d \in Callers, pc'[d] = "resetId"
          PROVE  (Order(requestId) >= MaxInt)'
      BY <1>2, <1>4, <1>6, <2>1, <3>3 DEF Ascending, Order
    <3> QED
      BY <3>1, <3>2, <3>3 DEF Ascending
  <2>4. \A d \in Taken : reqId[d] # requestId
    BY <1>6, <2>1, <2>2 DEF Ascending
  <2>5. Distinct'
    BY <1>1, <1>3, <1>5, <2>4 DEF Distinct
  <2> QED
    BY <2>3, <2>5
<1>7. CASE Restarted
  <2>1. requestId \in 1..(Number + 1) /\ requestId' = requestId + 1
    BY <1>2, <1>4, <1>7 DEF Restarted, Successor
  <2>2. \A d \in Taken : reqId[d] # requestId
    BY <1>4, <1>5, <1>7, <2>1, OrderOfIds DEF Restarted
  <2>3. Distinct'
    BY <1>1, <1>3, <1>5, <2>2 DEF Distinct
  <2>4. ASSUME NEW d \in Taken'
        PROVE  (\/ reqId[d] \in 1..(requestId - 1)
                \/ Order(reqId[d]) >= MaxInt - Number + requestId - 1)'
    <3>1. CASE d = c
      BY <1>4, <1>5, <2>1, <3>1
    <3>2. CASE d \in Taken
      <4>1. Order(reqId'[d]) = Order(reqId[d]) /\ Order(reqId[d]) \in Nat
        BY <1>5, <3>2, OrderOfIds
      <4>2. CASE reqId[d] \in 1..(requestId - 1)
        BY <1>4, <1>5, <2>1, <3>2, <4>2
      <4>3. CASE Order(reqId[d]) >= MaxInt - Number + requestId - 1
        BY <1>3, <1>4, <2>1, <4>1, <4>3 DEF Order
      <4> QED
        BY <1>7, <3>2, <4>2, <4>3 DEF Restarted
    <3> QED
      BY <1>3, <3>1, <3>2
  <2>5. Restarted'
    BY <1>2, <1>3, <1>4, <1>7, <2>1, <2>4 DEF Restarted
  <2> QED
    BY <2>3, <2>5
<1> QED
  BY <1>1, <1>6, <1>7

LEMMA ResetKeeps ==
    ASSUME IInv, NEW c \in Callers, ResetRequestId(c), ~raced'
    PROVE  Distinct' /\ (Ascending \/ Restarted)'
<1>1. /\ TypeOK /\ ~raced /\ pc[c] = "resetId" /\ reqId' = reqId /\ requestId' = 1
      /\ pc' = [pc EXCEPT ![c] = "takeId"]
      /\ \A d \in Callers \ {c} : pc[d] # "resetId"
  BY DEF IInv, ResetRequestId, Goto
<1>2. Distinct /\ Ascending
  BY <1>1 DEF IInv, Unique, Restarted
<1>3. Taken' = Taken /\ Number' = Number /\ Number \in Nat /\ MaxInt \in Nat
  BY <1>1, NumberBound DEF Taken, Number
<1>4. Distinct'
  BY <1>1, <1>2, <1>3 DEF Distinct
<1>5. \A d \in Callers : pc'[d] # "resetId"
  BY <1>1 DEF TypeOK
<1>6. ASSUME NEW d \in Taken PROVE (Order(reqId[d]) >= MaxInt - Number + requestId - 1)'
  <2>1. Order(requestId) \in Nat /\ Order(reqId[d]) \in Nat
    BY <1>1, OrderOfIds DEF TypeOK, Taken
  <2>2. Order(requestId) >= MaxInt /\ Order(reqId[d]) >= Order(requestId) - Number
    BY <1>1, <1>2, <1>3, <2>1 DEF Ascending
  <2>3. Order(reqId[d]) >= MaxInt - Number
    BY <1>3, <2>1, <2>2
  <2> QED
    BY <1>1, <1>3, <2>1, <2>3 DEF Order
<1>7. Restarted'
  BY <1>1, <1>3, <1>5, <1>6 DEF Restarted
<1> QED
  BY <1>4, <1>7

(* Everybody else, and every other step, leaves the ids taken alone. *)
LEMMA IdsKept ==
    ASSUME Unique, ~raced, UNCHANGED <<requestId, reqId>>,
           \A d \in Callers : pc'[d] = "resetId" =>
              pc[d] = "resetId" \/ (requestId = MaxInt /\ reqId[d] = NoId)
    PROVE  Distinct' /\ (Ascending \/ Restarted)'
<1>1. Distinct /\ (Ascending \/ Restarted)
  BY DEF Unique
<1>2. Taken' = Taken /\ Number' = Number
  BY DEF Taken, Number
<1>3. Distinct'
  BY <1>1, <1>2 DEF Distinct
<1>4. CASE Ascending
  <2>1. requestId = MaxInt => Order(requestId) >= MaxInt
    BY MaxIntAssumption DEF Order
  <2>2. Ascending'
    BY <1>2, <1>4, <2>1 DEF Ascending, Order
  <2> QED
    BY <1>3, <2>2
<1>5. CASE Restarted /\ \A d \in Callers : pc'[d] # "resetId"
  <2>1. Restarted'
    BY <1>2, <1>5 DEF Restarted, Order
  <2> QED
    BY <1>3, <2>1
<1>6. CASE Restarted /\ \E d \in Callers : pc'[d] = "resetId"
  <2>1. PICK d \in Callers : pc'[d] = "resetId"
    BY <1>6
  <2>2. requestId = MaxInt /\ Number + 1 < MaxInt
    BY <1>6, <2>1, NumberBound DEF Restarted
  <2>3. requestId \in 1..(Number + 1)
    BY <1>6 DEF Restarted
  <2> QED
    BY <2>2, <2>3, NumberBound
<1> QED
  BY <1>1, <1>4, <1>5, <1>6

LEMMA EquippedStep ==
    ASSUME IInv, [Next]_vars, NEW q \in Callers
    PROVE  Equipped(q)'
<1>0. TypeOK /\ Factory /\ Equipped(q)
  BY DEF IInv
<1> USE DEF Goto, Return, NoIdYet, NoInstanceYet, Numbering
<1>1. ASSUME NEW c \in Callers, EnterFactory(c) \/ GetRestInstance(c) \/ CreateHttpRest(c)
      PROVE  Equipped(q)'
  <2>1. /\ UNCHANGED <<call, reqId, header>>
        /\ \/ pc'[q] = pc[q]
           \/ pc[q] \in NoInstanceYet /\ pc'[q] \in {"lookup", "create", "ready", "returned"}
    BY <1>0, <1>1 DEF EnterFactory, GetRestInstance, CreateHttpRest, TypeOK
  <2> QED
    BY <1>0, <2>1 DEF Equipped
<1>2. ASSUME NEW c \in Callers, ResetRequestId(c) PROVE Equipped(q)'
  BY <1>0, <1>2 DEF ResetRequestId, TypeOK, Equipped
<1>3. ASSUME NEW c \in Callers, TakeRequestId(c) PROVE Equipped(q)'
  <2>1. requestId # NoId
    BY <1>0, SmallIds DEF TypeOK
  <2> QED
    BY <1>0, <1>3, <2>1 DEF TakeRequestId, TypeOK, Equipped
<1>4. ASSUME NEW c \in Callers, PutRequestId(c) PROVE Equipped(q)'
  <2>1. reqId[c] # NoId /\ params(c) \in ParamObjects
    BY <1>4 DEF IInv, PutRequestId, Equipped
  <2>2. /\ UNCHANGED <<call, reqId>>
        /\ \A p \in ParamObjects : header[p] # NoId => header'[p] # NoId
        /\ header'[params(c)] # NoId
        /\ pc' = [pc EXCEPT ![c] = "send"] /\ pc[c] = "putId"
    BY <1>0, <1>4, <2>1 DEF PutRequestId, TypeOK
  <2>3. CASE q = c
    BY <1>0, <2>1, <2>2, <2>3 DEF Equipped, TypeOK
  <2>4. CASE q # c
    BY <1>0, <2>2, <2>4 DEF Equipped, TypeOK
  <2> QED
    BY <2>3, <2>4
<1>5. ASSUME NEW c \in Callers, LaterStep(c), c # q PROVE Equipped(q)'
  BY <1>0, <1>5, LaterStepFrame DEF Equipped
<1>6. ASSUME LaterStep(q) PROVE Equipped(q)'
  <2>1. UNCHANGED <<call, ids>>
    BY <1>0, <1>6, LaterStepFrame
  <2>2. params(q) # NoParams => params(q) \in ParamObjects
    BY <1>0, CallsAssumption DEF TypeOK, CallType
  <2>3. CASE BeginRequest(q) \/ CheckRequestId(q)
    <3>1. /\ pc[q] \in {"ready", "checkId"}
          /\ pc'[q] \in {"checkId", "resetId", "takeId", "returned"}
          /\ pc'[q] = "returned" \/ params(q) \in ParamObjects
      BY <1>0, <2>2, <2>3 DEF BeginRequest, CheckRequestId, TypeOK, Equipped
    <3> QED
      BY <1>0, <2>1, <3>1 DEF Equipped
  <2>4. CASE Send(q) \/ SendFails(q) \/ CallbackExecute(q) \/ Interrupted(q)
    <3>1. pc'[q] \in {"waitForDone", "returned"}
      BY <1>0, <2>4 DEF Send, SendFails, CallbackExecute, Interrupted, TypeOK
    <3> QED
      BY <2>1, <3>1 DEF Equipped
  <2> QED
    BY <1>6, <2>3, <2>4 DEF LaterStep
<1>7. ASSUME NEW c \in Callers, ExchangeStep(c) PROVE Equipped(q)'
  BY <1>0, <1>7, ExchangeStepFrame DEF Equipped
<1>8. CASE RepairConf \/ UNCHANGED vars
  BY <1>0, <1>8 DEF RepairConf, Equipped
<1> QED
  BY <1>1, <1>2, <1>3, <1>4, <1>5, <1>6, <1>7, <1>8, StepCases

LEMMA UniqueStep == IInv /\ [Next]_vars => Unique'
<1> SUFFICES ASSUME IInv, [Next]_vars PROVE Unique'
  OBVIOUS
<1>0. TypeOK /\ Factory /\ Unique
  BY DEF IInv
<1> USE DEF Goto, Return, NoInstanceYet
<1>1. ASSUME NEW c \in Callers, EnterFactory(c) \/ GetRestInstance(c) PROVE Unique'
  <2>1. /\ UNCHANGED ids
        /\ \A d \in Callers : pc'[d] = "resetId" => pc[d] = "resetId"
    BY <1>0, <1>1 DEF EnterFactory, GetRestInstance, TypeOK
  <2> QED
    BY <1>0, <2>1, IdsKept DEF Unique
<1>2. ASSUME NEW c \in Callers, CreateHttpRest(c) PROVE Unique'
  <2>1. \A d \in Callers : reqId[d] = NoId /\ pc[d] # "resetId"
    BY <1>0, <1>2 DEF CreateHttpRest, Factory
  <2>2. /\ UNCHANGED <<reqId, raced>> /\ (requestId' = 0 \/ requestId' = requestId)
        /\ \A d \in Callers : pc'[d] # "resetId"
    BY <1>0, <1>2, <2>1 DEF CreateHttpRest, TypeOK
  <2>3. CASE requestId' = requestId
    BY <1>0, <2>2, <2>3, IdsKept DEF Unique
  <2>4. CASE requestId' = 0
    <3>1. Taken' = {} /\ Number' = 0
      BY <2>1, <2>2, FS_EmptySet DEF Taken, Number
    <3>2. Ascending'
      BY <2>2, <2>4, <3>1, MaxIntAssumption DEF Ascending, Order
    <3>3. Distinct'
      BY <3>1 DEF Distinct
    <3> QED
      BY <3>2, <3>3 DEF Unique
  <2> QED
    BY <2>2, <2>3, <2>4
<1>3. ASSUME NEW c \in Callers, ResetRequestId(c) PROVE Unique'
  BY <1>3, ResetKeeps DEF Unique
<1>4. ASSUME NEW c \in Callers, TakeRequestId(c) PROVE Unique'
  <2>1. raced' = raced
    BY <1>4 DEF TakeRequestId
  <2> QED
    BY <1>4, <2>1, TakeKeeps DEF Unique
<1>5. ASSUME NEW c \in Callers, PutRequestId(c) PROVE Unique'
  <2>1. /\ UNCHANGED <<requestId, reqId, raced>>
        /\ \A d \in Callers : pc'[d] = "resetId" => pc[d] = "resetId"
    BY <1>0, <1>5 DEF PutRequestId, TypeOK
  <2> QED
    BY <1>0, <2>1, IdsKept DEF Unique
<1>6. ASSUME NEW c \in Callers, LaterStep(c) PROVE Unique'
  <2>1. UNCHANGED ids /\ \A d \in Callers \ {c} : pc'[d] = pc[d]
    BY <1>0, <1>6, LaterStepFrame
  <2>2. pc'[c] = "resetId" => requestId = MaxInt /\ pc[c] = "checkId"
    <3>1. CASE BeginRequest(c) \/ CheckRequestId(c)
      BY <1>0, <3>1 DEF BeginRequest, CheckRequestId, TypeOK
    <3>2. CASE Send(c) \/ SendFails(c) \/ CallbackExecute(c) \/ Interrupted(c)
      BY <1>0, <3>2 DEF Send, SendFails, CallbackExecute, Interrupted, TypeOK
    <3> QED
      BY <1>6, <3>1, <3>2 DEF LaterStep
  <2>3. pc[c] = "checkId" => reqId[c] = NoId
    BY DEF IInv, Equipped, NoIdYet
  <2>4. \A d \in Callers : pc'[d] = "resetId" =>
              pc[d] = "resetId" \/ (requestId = MaxInt /\ reqId[d] = NoId)
    BY <2>1, <2>2, <2>3
  <2> QED
    BY <1>0, <2>1, <2>4, IdsKept DEF Unique
<1>7. ASSUME NEW c \in Callers, ExchangeStep(c) PROVE Unique'
  <2>1. UNCHANGED <<pc, ids>>
    BY <1>0, <1>7, ExchangeStepFrame
  <2> QED
    BY <1>0, <2>1, IdsKept DEF Unique
<1>8. CASE RepairConf \/ UNCHANGED vars
  <2>1. UNCHANGED <<pc, ids>>
    BY <1>8 DEF RepairConf
  <2> QED
    BY <1>0, <2>1, IdsKept DEF Unique
<1> QED
  BY <1>1, <1>2, <1>3, <1>4, <1>5, <1>6, <1>7, <1>8, StepCases

Stays(d) == reqId'[d] = reqId[d] /\ call' = call

(* An id stays with its caller once it is taken. *)
LEMMA TakenStays ==
    ASSUME IInv, [Next]_vars, NEW d \in Callers, reqId[d] # NoId
    PROVE  Stays(d)
<1>0. TypeOK
  BY DEF IInv
<1> USE DEF Stays
<1>1. ASSUME NEW c \in Callers, TakeRequestId(c) PROVE Stays(d)
  <2>1. c # d
    BY <1>1 DEF IInv, Equipped, NoIdYet, TakeRequestId
  <2> QED
    BY <1>0, <1>1, <2>1 DEF TakeRequestId, TypeOK
<1>2. ASSUME NEW c \in Callers,
             \/ EnterFactory(c) \/ GetRestInstance(c) \/ CreateHttpRest(c)
             \/ ResetRequestId(c) \/ PutRequestId(c)
      PROVE  Stays(d)
  BY <1>2 DEF EnterFactory, GetRestInstance, CreateHttpRest, ResetRequestId, PutRequestId
<1>3. ASSUME NEW c \in Callers, LaterStep(c) \/ ExchangeStep(c) PROVE Stays(d)
  BY <1>0, <1>3, LaterStepFrame, ExchangeStepFrame
<1>4. CASE RepairConf \/ UNCHANGED vars
  BY <1>4 DEF RepairConf
<1> HIDE DEF Stays
<1> QED
  BY <1>1, <1>2, <1>3, <1>4, StepCases

LEMMA OriginStep == IInv /\ [Next]_vars => Origin'
<1> SUFFICES ASSUME IInv, [Next]_vars PROVE Origin'
  OBVIOUS
<1>0. TypeOK /\ Origin
  BY DEF IInv
<1> DEFINE Given(p, i) == \E d \in Callers : params(d) = p /\ reqId[d] = i
           Given2(p, i) == \E d \in Callers : params(d)' = p /\ reqId'[d] = i
           Fresh == /\ \A p \in ParamObjects : header'[p] \in {NoId, header[p]}
                                               \/ Given(p, header'[p])
                    /\ \A c \in Callers : wire'[c] \in {NoId, wire[c]}
                                          \/ Given(params(c), wire'[c])
<1>1. Fresh
  <2>1. ASSUME NEW c \in Callers, PutRequestId(c) PROVE Fresh
    BY <1>0, <2>1 DEF PutRequestId, TypeOK
  <2>2. ASSUME NEW c \in Callers,
               \/ EnterFactory(c) \/ GetRestInstance(c) \/ CreateHttpRest(c)
               \/ ResetRequestId(c) \/ TakeRequestId(c)
        PROVE  Fresh
    BY <2>2 DEF EnterFactory, GetRestInstance, CreateHttpRest, ResetRequestId, TakeRequestId
  <2>3. ASSUME NEW c \in Callers, LaterStep(c) PROVE Fresh
    <3>1. CASE Send(c)
      <4>1. params(c) \in ParamObjects
        BY <3>1 DEF IInv, Equipped, Send, Numbering
      <4> QED
        BY <1>0, <3>1, <4>1 DEF Send, Origin, TypeOK
    <3>2. CASE pc[c] # "send" \/ SendFails(c)
      BY <1>0, <2>3, <3>2, LaterStepFrame DEF SendFails
    <3> QED
      BY <2>3, <3>1, <3>2 DEF LaterStep, BeginRequest, CheckRequestId, CallbackExecute,
         Interrupted
  <2>4. ASSUME NEW c \in Callers, ExchangeStep(c) PROVE Fresh
    BY <1>0, <2>4, ExchangeStepFrame
  <2>5. CASE RepairConf \/ UNCHANGED vars
    BY <2>5 DEF RepairConf
  <2> HIDE DEF Fresh
  <2> QED
    BY <2>1, <2>2, <2>3, <2>4, <2>5, StepCases
<1>2. ASSUME NEW p, NEW i, i # NoId, Given(p, i) PROVE Given2(p, i)
  BY <1>2, TakenStays DEF Stays
<1>3. ASSUME NEW p \in ParamObjects, header'[p] # NoId PROVE Given2(p, header'[p])
  <2>1. Given(p, header'[p])
    BY <1>0, <1>1, <1>3 DEF Origin
  <2> QED
    BY <1>2, <1>3, <2>1
<1>4. ASSUME NEW c \in Callers, wire'[c] # NoId PROVE Given2(params(c)', wire'[c])
  <2>1. Given(params(c), wire'[c])
    BY <1>0, <1>1, <1>4 DEF Origin
  <2>2. Given2(params(c), wire'[c])
    BY <1>2, <1>4, <2>1
  <2>3. call' = call
    BY <1>4, <2>1, TakenStays DEF Stays
  <2> QED
    BY <2>2, <2>3
<1> QED
  BY <1>3, <1>4 DEF Origin

-----------------------------------------------------------------------------
(* The theorems                                                            *)

LEMMA NextIInv == IInv /\ [Next]_vars => IInv'
BY TypeStep, FactoryStep, UniqueStep, OriginStep, EquippedStep, ExchangesStep DEF IInv

(* The inductive invariant behind the four properties. *)
THEOREM Inductive == Spec => []IInv
BY InitIInv, NextIInv, PTL DEF Spec

(* Everybody uses the same client: whatever threads meet in
   RestfulFactory.getRestInstance, one HttpRest is created at most. *)
THEOREM OneInstanceTheorem == Spec => []OneInstance
<1>1. IInv => OneInstance
  BY DEF IInv, TypeOK, Factory, OneInstance
<1> QED
  BY <1>1, Inductive, PTL

(* Requests on the wire with one x-request-id share a parameter object or two
   threads reset the counter at once (HttpBaseRest.getReuqestIdString). *)
THEOREM DistinctIdsOnWireTheorem == Spec => []DistinctIdsOnWire
<1>1. ASSUME IInv, NEW c \in Callers, NEW d \in Callers,
             wire[c] # NoId, wire[c] = wire[d], ~raced
      PROVE  params(c) = params(d)
  <2>1. PICK e \in Callers : params(e) = params(c) /\ reqId[e] = wire[c]
    BY <1>1 DEF IInv, Origin
  <2>2. PICK f \in Callers : params(f) = params(d) /\ reqId[f] = wire[d]
    BY <1>1 DEF IInv, Origin
  <2>3. e = f
    BY <1>1, <2>1, <2>2 DEF IInv, Unique, Distinct, Taken
  <2> QED
    BY <2>1, <2>2, <2>3
<1>2. IInv => DistinctIdsOnWire
  BY <1>1 DEF DistinctIdsOnWire
<1> QED
  BY <1>2, Inductive, PTL

(* What a synchronous caller gets is what became of its exchange, and nothing
   is sent without a client (HttpBaseRest.sendHttpRequest, callbackExecute). *)
THEOREM SyncOutcomeMatchesTheorem == Spec => []SyncOutcomeMatches
<1>1. ASSUME IInv, NEW c \in Callers, pc[c] = "returned", call[c].mode = "sync"
      PROVE  /\ outcome[c] # "null"
             /\ outcome[c] = "response" =>
                   status[c] = "completed" /\ body[c] = "readable" /\ done[c]
             /\ instance # 0 /\ client = "null"
                   => outcome[c] \in {"ServiceException", "JSONException", "empty"}
  <2>1. Exchange(c) /\ outcome[c] \in Outcomes
    BY <1>1 DEF IInv, TypeOK
  <2> QED
    BY <1>1, <2>1 DEF Exchange, Outcomes
<1>2. IInv => SyncOutcomeMatches
  BY <1>1 DEF SyncOutcomeMatches
<1> QED
  BY <1>2, Inductive, PTL

(* How often a note occurs among what a callback can have heard. *)
LEMMA CountBounds ==
    ASSUME NEW s \in Told
    PROVE  /\ \A n \in Notes : Cardinality({k \in DOMAIN s : s[k] = n}) \in {0, 1}
           /\ \A n \in Notes : Cardinality({k \in DOMAIN s : s[k] = n}) = 1 => Hears(s, n)
           /\ ~(Hears(s, "response") /\ Hears(s, "failure"))
           /\ Len(s) = 2 => s \notin OnTime
<1> DEFINE at(n) == {k \in DOMAIN s : s[k] = n}
           Brief == /\ DOMAIN s \subseteq {1, 2}
                    /\ 1 \in DOMAIN s /\ 2 \in DOMAIN s => s[1] # s[2]
                    /\ ~(Hears(s, "response") /\ Hears(s, "failure"))
                    /\ Len(s) = 2 => s \notin OnTime
<1>1. Brief
  <2>1. CASE s \in OnTime
    BY <2>1 DEF OnTime, Hears
  <2>2. ASSUME NEW x \in {"response", "failure"}, Len(s) = 2, DOMAIN s = 1..2,
               {s[1], s[2]} = {x, "expiry"}
        PROVE  Brief
    <3>1. \A k \in DOMAIN s : s[k] \in {x, "expiry"}
      BY <2>2
    <3>2. s[1] # s[2] /\ DOMAIN s = {1, 2}
      BY <2>2
    <3>3. s \notin OnTime
      BY <2>2 DEF OnTime
    <3> QED
      BY <2>2, <3>1, <3>2, <3>3 DEF Hears
  <2>3. ASSUME NEW t \in OnTime, s = Append(t, "expiry") PROVE Brief
    <3>1. CASE t = <<>>
      BY <2>3, <3>1 DEF OnTime, Hears
    <3>2. ASSUME NEW x \in {"response", "failure"}, t = <<x>> PROVE Brief
      <4>1. Len(s) = 2 /\ DOMAIN s = 1..2 /\ s[1] = x /\ s[2] = "expiry"
        BY <2>3, <3>2
      <4> QED
        BY <2>2, <4>1
    <3> QED
      BY <2>3, <3>1, <3>2 DEF OnTime
  <2>4. ASSUME NEW t \in OnTime, s = <<"expiry">> \o t PROVE Brief
    <3>1. CASE t = <<>>
      BY <2>4, <3>1 DEF OnTime, Hears
    <3>2. ASSUME NEW x \in {"response", "failure"}, t = <<x>> PROVE Brief
      <4>1. Len(s) = 2 /\ DOMAIN s = 1..2 /\ s[1] = "expiry" /\ s[2] = x
        BY <2>4, <3>2
      <4> QED
        BY <2>2, <4>1
    <3> QED
      BY <2>4, <3>1, <3>2 DEF OnTime
  <2> QED
    BY <2>1, <2>3, <2>4 DEF Told
<1>2. ASSUME NEW n PROVE at(n) = {} \/ at(n) = {1} \/ at(n) = {2}
  BY <1>1
<1>3. ASSUME NEW n PROVE /\ Cardinality(at(n)) \in {0, 1}
                         /\ Cardinality(at(n)) = 1 => Hears(s, n)
  <2>1. CASE at(n) = {}
    BY <2>1, FS_EmptySet
  <2>2. CASE at(n) # {}
    BY <1>2, <2>2, FS_Singleton DEF Hears
  <2> QED
    BY <2>1, <2>2
<1> QED
  BY <1>1, <1>3

(* An asynchronous caller is told each thing at most once, never both of a
   response and of a broken connection, and twice only when the timeout ran
   against the end of the exchange (RestHttpContentExchange). *)
THEOREM CallbacksConsistentTheorem == Spec => []CallbacksConsistent
<1>1. ASSUME IInv, NEW c \in Callers
      PROVE  /\ \A n \in Notes : Count(c, n) <= 1
             /\ Count(c, "response") + Count(c, "failure") <= 1
             /\ Count(c, "response") = 1 => status[c] = "completed" /\ body[c] = "readable"
             /\ Count(c, "failure") = 1 => status[c] = "excepted"
             /\ Len(told[c]) = 2 => timer[c] = "spent"
  <2>1. told[c] \in Told /\ Exchange(c)
    BY <1>1 DEF IInv, TypeOK
  <2>2. /\ \A n \in Notes : Count(c, n) \in {0, 1} /\ (Count(c, n) = 1 => Hears(told[c], n))
        /\ ~(Hears(told[c], "response") /\ Hears(told[c], "failure"))
        /\ Len(told[c]) = 2 => told[c] \notin OnTime
    BY <2>1, CountBounds DEF Count
  <2>3. {"response", "failure"} \subseteq Notes
    BY DEF Notes
  <2> QED
    BY <2>1, <2>2, <2>3 DEF Exchange
<1>2. IInv => CallbacksConsistent
  BY <1>1 DEF CallbacksConsistent
<1> QED
  BY <1>2, Inductive, PTL

(* Every caller, synchronous or not, learns what became of its exchange. *)
THEOREM OutcomesMatchTheorem == Spec => []OutcomesMatch
  BY SyncOutcomeMatchesTheorem, CallbacksConsistentTheorem, PTL DEF OutcomesMatch

-----------------------------------------------------------------------------
(* The end of an exchange                                                  *)

(* A thread of Jetty, or the server, works on one exchange. *)
LEMMA ExchangeKeepsEnd ==
    ASSUME IInv, NEW c \in Callers, ExchangeStep(c), NEW d \in Callers
    PROVE  KeepsEnd(d)
<1>1. TypeOK /\ Exchange(c)
  BY DEF IInv
<1>2. UNCHANGED <<pc, outcome>>
  BY <1>1, ExchangeStepFrame
<1>3. CASE d # c
  BY <1>1, <1>2, <1>3, ExchangeStepFrame DEF KeepsEnd, Closed
<1>4. CASE Answer(c) \/ Fail(c)
  BY <1>1, <1>2, <1>3, <1>4 DEF Answer, Fail, Exchange, KeepsEnd, Closed, TypeOK
<1>5. CASE OnResponseComplete(c) \/ OnException(c)
  BY <1>1, <1>2, <1>3, <1>5
  DEF OnResponseComplete, OnException, CallBack, KeepsEnd, Closed, TypeOK
<1>6. CASE TimerFires(c)
  BY <1>1, <1>2, <1>3, <1>6 DEF TimerFires, Exchange, KeepsEnd, Closed, TypeOK
<1>7. CASE Expire(c)
  BY <1>1, <1>2, <1>3, <1>7 DEF Expire, Exchange, KeepsEnd, Closed, TypeOK
<1> QED
  BY <1>4, <1>5, <1>6, <1>7 DEF ExchangeStep, JettyStep

(* A caller sends an exchange that has not begun, or leaves it alone. *)
LEMMA LaterKeepsEnd ==
    ASSUME IInv, NEW c \in Callers, LaterStep(c), NEW d \in Callers
    PROVE  KeepsEnd(d)
<1>1. TypeOK /\ Exchange(c)
  BY DEF IInv
<1>2. /\ UNCHANGED <<body, done, told>>
      /\ pc[c] \in {"ready", "checkId", "send", "waitForDone"}
      /\ \A q \in Callers \ {c} : /\ pc'[q] = pc[q] /\ outcome'[q] = outcome[q]
                                  /\ status'[q] = status[q] /\ timer'[q] = timer[q]
      /\ pc[c] # "send" => UNCHANGED <<status, timer>>
  BY <1>1, LaterStepFrame
<1>3. CASE d # c
  BY <1>2, <1>3 DEF KeepsEnd, Closed
<1>4. CASE pc[c] = "send"
  BY <1>1, <1>2, <1>3, <1>4 DEF KeepsEnd, Closed, Exchange, NotSentYet
<1>5. CASE pc[c] # "send"
  BY <1>2, <1>3, <1>5 DEF KeepsEnd, Closed
<1> QED
  BY <1>4, <1>5

(* What becomes of an exchange is decided once: an end stays with its      *)
(* body, an outcome with its caller, and when Jetty is finished a callback *)
(* hears at most of the expiry under way (RestHttpContentExchange).        *)
THEOREM EndStaysTheorem == Spec => EndStays
<1>1. IInv /\ [Next]_vars => [\A c \in Callers : KeepsEnd(c)]_vars
  <2> SUFFICES ASSUME IInv, [Next]_vars, NEW d \in Callers
               PROVE  KeepsEnd(d)
    OBVIOUS
  <2>1. ASSUME NEW c \in Callers, c = d => pc[d] # "returned",
               UNCHANGED exchange, \A q \in Callers \ {c} :
                 pc'[q] = pc[q] /\ outcome'[q] = outcome[q]
        PROVE  KeepsEnd(d)
    BY <2>1 DEF KeepsEnd, Closed
  <2>2. \A c \in Callers : EnterFactory(c) => KeepsEnd(d)
    BY <2>1 DEF EnterFactory, Goto, IInv, TypeOK
  <2>3. \A c \in Callers : GetRestInstance(c) => KeepsEnd(d)
    BY <2>1 DEF GetRestInstance, Goto, IInv, TypeOK
  <2>4. \A c \in Callers : CreateHttpRest(c) => KeepsEnd(d)
    BY <2>1 DEF CreateHttpRest, Goto, Return, IInv, TypeOK
  <2>5. \A c \in Callers : ResetRequestId(c) \/ TakeRequestId(c) \/ PutRequestId(c)
                              => KeepsEnd(d)
    BY <2>1 DEF ResetRequestId, TakeRequestId, PutRequestId, Goto, IInv, TypeOK
  <2>6. UNCHANGED <<pc, outcome, exchange>> => KeepsEnd(d)
    BY DEF KeepsEnd, Closed
  <2>7. (RepairConf => KeepsEnd(d)) /\ (UNCHANGED vars => KeepsEnd(d))
    BY <2>6 DEF RepairConf
  <2> QED
    BY <2>2, <2>3, <2>4, <2>5, <2>7, LaterKeepsEnd, ExchangeKeepsEnd, StepCases, Zenon
<1> QED
  BY <1>1, Inductive, PTL DEF Spec, EndStays

-----------------------------------------------------------------------------
(* The promise of Singleton.tla                                            *)

(* The instance and who has it are the factory's business. *)
LEMMA SingletonStutters ==
    ASSUME UNCHANGED <<instance, client, rest>>,
           \A c \in Callers : pc[c] = "create" <=> pc'[c] = "create"
    PROVE  UNCHANGED OneObject!vars
BY DEF object, makers, held, OneObject!vars

LEMMA SingletonCreated ==
    ASSUME IInv, NEW c \in Callers, CreateHttpRest(c)
    PROVE  OneObject!Publish(c) \/ OneObject!GiveUp(c)
<1>1. /\ instance = 0 /\ made = 0 /\ pc[c] = "create" /\ c \in monitor
      /\ \A d \in Callers : rest[d] = 0
      /\ \A d \in Callers : pc[d] = "create" => d = c
  BY DEF CreateHttpRest, IInv, TypeOK, Factory
<1>2. object = <<>> /\ makers = {c} /\ makers' = {}
  BY <1>1 DEF object, makers, CreateHttpRest, Goto, Return, IInv, TypeOK
<1>3. CASE MalformedConf
  <2>1. UNCHANGED <<object, held>>
    BY <1>3 DEF CreateHttpRest, object, held
  <2> QED
    BY <1>2, <2>1 DEF OneObject!GiveUp
<1>4. CASE ~MalformedConf
  <2>1. instance' = 1 /\ rest' = [rest EXCEPT ![c] = 1]
    BY <1>1, <1>4 DEF CreateHttpRest
  <2>2. object' = <<1, client'>> /\ object' # <<>>
    BY <2>1 DEF object
  <2>3. \A d \in Callers : held[d] = <<>> /\ rest'[d] = IF d = c THEN 1 ELSE 0
    BY <1>1, <2>1 DEF held, IInv, TypeOK
  <2>4. \A d \in Callers : held'[d] = IF d = c THEN object' ELSE held[d]
    BY <2>2, <2>3 DEF held
  <2>5. held' = [held EXCEPT ![c] = object']
    BY <2>4 DEF held
  <2> QED
    BY <1>2, <2>2, <2>5 DEF OneObject!Publish
<1> QED
  BY <1>3, <1>4

LEMMA SingletonLookedUp ==
    ASSUME IInv, NEW c \in Callers, GetRestInstance(c)
    PROVE  OneObject!Make(c) \/ OneObject!Take(c)
<1>1. /\ pc[c] = "lookup" /\ c \in monitor /\ UNCHANGED <<instance, client>>
      /\ \A d \in Callers : pc[d] # "create"
  BY DEF GetRestInstance, IInv, Factory
<1>2. object' = object
  BY <1>1 DEF object
<1>3. CASE instance # 0 /\ pc' = [pc EXCEPT ![c] = "ready"]
           /\ rest' = [rest EXCEPT ![c] = instance]
  <2>1. object = <<instance, client>> /\ object # <<>>
    BY <1>3 DEF object
  <2>2. held' = [held EXCEPT ![c] = object] /\ makers' = makers
    BY <1>1, <1>3, <2>1 DEF held, makers, IInv, TypeOK
  <2> QED
    BY <1>2, <2>1, <2>2 DEF OneObject!Take
<1>4. CASE instance = 0 /\ pc' = [pc EXCEPT ![c] = "create"] /\ rest' = rest
  <2>1. object = <<>> /\ makers = {} /\ makers' = {c} /\ held' = held
    BY <1>1, <1>4 DEF object, makers, held, IInv, TypeOK
  <2> QED
    BY <1>2, <2>1 DEF OneObject!Make
<1> QED
  BY <1>3, <1>4 DEF GetRestInstance, Goto

(* getRestInstance implements Singleton: one caller at a time creates,     *)
(* nobody once an instance is cached, and every caller is handed the one   *)
(* that is, whose client never changes.                                    *)
THEOREM SingletonKept == Spec => SingletonSpec
<1>1. Init => OneObject!Init
  BY DEF Init, OneObject!Init, makers, held
<1>2. IInv /\ [Next]_vars => [OneObject!Next]_(OneObject!vars)
  <2> SUFFICES ASSUME IInv, [Next]_vars
               PROVE  [OneObject!Next]_(OneObject!vars)
    OBVIOUS
  <2> DEFINE P == [OneObject!Next]_(OneObject!vars)
  <2>1. \A c \in Callers : CreateHttpRest(c) \/ GetRestInstance(c) => P
    BY SingletonCreated, SingletonLookedUp DEF OneObject!Next
  <2>2. \A c \in Callers : EnterFactory(c) => P
    BY SingletonStutters DEF EnterFactory, Goto, IInv, TypeOK
  <2>3. \A c \in Callers : ResetRequestId(c) \/ TakeRequestId(c) \/ PutRequestId(c) => P
    BY SingletonStutters DEF ResetRequestId, TakeRequestId, PutRequestId, Goto, IInv, TypeOK
  <2>4. \A c \in Callers : LaterStep(c) => P
    <3> SUFFICES ASSUME NEW c \in Callers, LaterStep(c) PROVE P
      OBVIOUS
    <3>1. /\ UNCHANGED <<instance, client, rest>>
          /\ pc[c] # "create" /\ pc'[c] # "create"
          /\ \A q \in Callers \ {c} : pc'[q] = pc[q]
      BY LaterStepFrame DEF IInv
    <3> QED
      BY <3>1, SingletonStutters
  <2>5. UNCHANGED <<pc, instance, client, rest>> => P
    BY SingletonStutters
  <2>6. \A c \in Callers : ExchangeStep(c) => P
    BY <2>5, ExchangeStepFrame DEF IInv
  <2>7. (RepairConf => P) /\ (UNCHANGED vars => P)
    BY <2>5 DEF RepairConf
  <2> HIDE DEF P
  <2>8. P
    BY <2>1, <2>2, <2>3, <2>4, <2>6, <2>7, StepCases, Zenon
  <2> QED
    BY <2>8 DEF P
<1> QED
  BY <1>1, <1>2, Inductive, PTL DEF Spec, SingletonSpec, OneObject!Spec
=============================================================================
