----------------------------- MODULE RestClient -----------------------------
(***************************************************************************)
(* The REST client (rest-client: RestfulFactory, HttpRest, HttpBaseRest,   *)
(* RestHttpContentExchange).  Threads ask the factory for the one http     *)
(* instance, take a request id from its counter, put it into the header    *)
(* map of their parameters and hand an exchange to Jetty's client.  Jetty  *)
(* completes, fails or expires the exchange on threads of its own; a       *)
(* synchronous caller waits for that, an asynchronous one is called back.  *)
(*                                                                         *)
(* One action is one step of a caller between two accesses to shared       *)
(* state, or one step of a Jetty thread on one exchange.                   *)
(***************************************************************************)
EXTENDS Integers, Sequences, FiniteSets

CONSTANTS
    Callers,        \* threads, each with one request
    ParamObjects,   \* RestfulParametes objects; two callers may share one
    NoParams,       \* the null reference
    Calls,          \* what a caller may ask for
    OldIds,         \* counter values of a client that has been in use
    MaxInt          \* stands for 2^31 - 1

CallType == [mode : {"sync", "async"}, params : ParamObjects \cup {NoParams},
             timeout : Nat]

ASSUME CallsAssumption == Calls \subseteq CallType
ASSUME ParamsAssumption == NoParams \notin ParamObjects
ASSUME MaxIntAssumption == MaxInt \in Nat \ {0}
ASSUME OldIdsAssumption == OldIds \subseteq 0..MaxInt

\* The requests observed are fewer than the ids there are, 2^31 - 1.
ASSUME CallersAssumption == IsFiniteSet(Callers) /\ Cardinality(Callers) < MaxInt

MinInt == -MaxInt - 1
NoId   == MaxInt + 1   \* no request id yet

\* AtomicInteger arithmetic
Successor(n) == IF n = MaxInt THEN MinInt ELSE n + 1

\* RestfulOptions and HttpBaseRest count milliseconds.
DefaultTimeout == 30000

VARIABLES
    call,       \* the caller's parameters
    pc,         \* where the caller is
    outcome,    \* how its call ended
    monitor,    \* who is inside the synchronized getRestInstance
    conf,       \* what etc/conf/restclient.json is good for
    instance,   \* INSTANCES["http"]; 0 is absent, n the n-th one created
    made,       \* HttpRest objects created so far
    client,     \* the cached instance's Jetty client
    rest,       \* the instance the caller got
    requestId,  \* the instance's counter
    reqId,      \* id the caller took
    header,     \* x-request-id in the header map of a parameter object
    wire,       \* x-request-id the exchange was sent with
    status,     \* status of the caller's exchange
    body,       \* what arrived: readable or a broken gzip stream
    done,       \* Jetty is finished with the exchange
    timer,      \* the exchange's entry in Jetty's timeout queue
    limit,      \* its duration in milliseconds
    told,       \* calls to the RestfulAsyncCallback, in order
    raced       \* history: two callers were resetting the counter at once

factory  == <<monitor, conf, instance, made, client, rest>>
ids      == <<requestId, reqId, header, raced>>
exchange == <<wire, status, body, done, timer, limit, told>>
vars     == <<call, pc, outcome, factory, ids, exchange>>

params(c) == call[c].params

\* The counter of a fresh process, or a client that has sent requests before.
Init ==
    /\ call \in [Callers -> Calls]
    /\ pc = [c \in Callers |-> "call"]
    /\ outcome = [c \in Callers |-> "none"]
    /\ monitor = {}
    /\ \/ /\ instance = 0 /\ client = "null" /\ requestId = 0
          /\ conf \in {"fine", "rejected", "malformed"}
       \/ /\ instance = 1 /\ client = "started" /\ requestId \in OldIds
          /\ conf = "fine"
    /\ made = instance
    /\ rest = [c \in Callers |-> 0]
    /\ reqId = [c \in Callers |-> NoId]
    /\ header = [p \in ParamObjects |-> NoId]
    /\ raced = FALSE
    /\ wire = [c \in Callers |-> NoId]
    /\ status = [c \in Callers |-> "start"]
    /\ body = [c \in Callers |-> "nothing"]
    /\ done = [c \in Callers |-> FALSE]
    /\ timer = [c \in Callers |-> "off"]
    /\ limit = [c \in Callers |-> 0]
    /\ told = [c \in Callers |-> <<>>]

Goto(c, l) == pc' = [pc EXCEPT ![c] = l] /\ UNCHANGED outcome

Return(c, o) == /\ pc' = [pc EXCEPT ![c] = "returned"]
                /\ outcome' = [outcome EXCEPT ![c] = o]

-----------------------------------------------------------------------------
(* RestfulFactory.getRestInstance("http"), a synchronized method           *)

\* Seeded fault: the method is not synchronized.
EnterFactoryUnlocked(c) ==
    /\ pc[c] = "call" /\ Goto(c, "lookup")
    /\ monitor' = monitor \cup {c}
    /\ UNCHANGED <<call, conf, instance, made, client, rest, ids, exchange>>

EnterFactory(c) ==
    /\ pc[c] = "call" /\ monitor = {}
    /\ Goto(c, "lookup")
    /\ monitor' = {c}
    /\ UNCHANGED <<call, conf, instance, made, client, rest, ids, exchange>>

GetRestInstance(c) ==
    /\ pc[c] = "lookup"
    /\ \/ /\ instance # 0 /\ Goto(c, "ready")
          /\ rest' = [rest EXCEPT ![c] = instance]
          /\ monitor' = monitor \ {c}
       \/ /\ instance = 0 /\ Goto(c, "create")
          /\ UNCHANGED <<rest, monitor>>
    /\ UNCHANGED <<call, conf, instance, made, client, ids, exchange>>

(***************************************************************************)
(* createHttpRest and initHttpRest.  A file that is not JSON throws out of *)
(* the factory and nothing is cached.  Options that Jetty rejects are a    *)
(* ServiceException that setRestOption swallows: the instance is cached    *)
(* with a null client.                                                     *)
(***************************************************************************)
MalformedConf == conf = "malformed"
FailedInit    == conf = "rejected"

CreateHttpRest(c) ==
    /\ pc[c] = "create"
    /\ monitor' = monitor \ {c}
    /\ \/ /\ MalformedConf /\ Return(c, "JSONException")
          /\ UNCHANGED <<instance, made, client, rest, requestId>>
       \/ /\ ~MalformedConf /\ Goto(c, "ready")
          /\ made' = made + 1
          /\ instance' = made + 1
          /\ rest' = [rest EXCEPT ![c] = made + 1]
          /\ client' = IF FailedInit THEN "null" ELSE "started"
          /\ requestId' = 0
    /\ UNCHANGED <<call, conf, reqId, header, raced, exchange>>

-----------------------------------------------------------------------------
(* HttpBaseRest.sendHttpRequest                                            *)

\* Null parameters: an empty response, nothing is sent, nobody called back.
BeginRequest(c) ==
    /\ pc[c] = "ready"
    /\ \/ params(c) = NoParams /\ Return(c, "empty")
       \/ params(c) # NoParams /\ Goto(c, "checkId")
    /\ UNCHANGED <<call, factory, ids, exchange>>

\* getReuqestIdString: get, perhaps set, getAndIncrement
CheckRequestId(c) ==
    /\ pc[c] = "checkId"
    /\ Goto(c, IF requestId = MaxInt THEN "resetId" ELSE "takeId")
    /\ UNCHANGED <<call, factory, ids, exchange>>

ResetRequestId(c) ==
    /\ pc[c] = "resetId" /\ Goto(c, "takeId")
    /\ requestId' = 1
    /\ raced' = (raced \/ \E d \in Callers \ {c} : pc[d] = "resetId")
    /\ UNCHANGED <<call, factory, reqId, header, exchange>>

\* Seeded fault: get() in place of getAndIncrement().
TakeRequestIdNoIncrement(c) ==
    /\ pc[c] = "takeId" /\ Goto(c, "putId")
    /\ reqId' = [reqId EXCEPT ![c] = requestId]
    /\ UNCHANGED <<call, factory, requestId, header, raced, exchange>>

TakeRequestId(c) ==
    /\ pc[c] = "takeId" /\ Goto(c, "putId")
    /\ reqId' = [reqId EXCEPT ![c] = requestId]
    /\ requestId' = Successor(requestId)
    /\ UNCHANGED <<call, factory, header, raced, exchange>>

PutRequestId(c) ==
    /\ pc[c] = "putId" /\ Goto(c, "send")
    /\ header' = [header EXCEPT ![params(c)] = reqId[c]]
    /\ UNCHANGED <<call, factory, requestId, reqId, raced, exchange>>

\* setTimeout: the option unless it is 0
TimeoutOf(c) == IF call[c].timeout # 0 THEN call[c].timeout ELSE DefaultTimeout

\* Headers are copied to the exchange, the timeout is set, Jetty takes the
\* exchange over.  An asynchronous caller returns null at once.
Send(c) ==
    /\ pc[c] = "send" /\ client = "started"
    /\ wire' = [wire EXCEPT ![c] = header[params(c)]]
    /\ status' = [status EXCEPT ![c] = "waiting"]
    /\ timer' = [timer EXCEPT ![c] = "armed"]
    /\ limit' = [limit EXCEPT ![c] = TimeoutOf(c)]
    /\ IF call[c].mode = "sync" THEN Goto(c, "waitForDone") ELSE Return(c, "null")
    /\ UNCHANGED <<call, factory, ids, body, done, told>>

\* No client, or Jetty refuses the exchange: every exception is rethrown.
SendFails(c) ==
    /\ pc[c] = "send" /\ Return(c, "ServiceException")
    /\ UNCHANGED <<call, factory, ids, exchange>>

\* Seeded fault: the state EXPIRED has no branch and null is returned.
CallbackExecuteNoExpired(c) ==
    /\ pc[c] = "waitForDone" /\ done[c]
    /\ Return(c, CASE status[c] = "completed" /\ body[c] = "readable" -> "response"
                   [] status[c] = "expired" -> "null"
                   [] OTHER -> "ServiceException")
    /\ UNCHANGED <<call, factory, ids, exchange>>

\* getResponse throws IOException for a gzip body it cannot decompress.
GetResponseFails(c) == body[c] = "corrupt"

\* callbackExecute of a synchronous call
CallbackExecute(c) ==
    /\ pc[c] = "waitForDone" /\ done[c]
    /\ \/ /\ status[c] = "completed" /\ ~GetResponseFails(c)
          /\ Return(c, "response")
       \/ /\ status[c] = "completed" /\ GetResponseFails(c)
          /\ Return(c, "ServiceException")
       \/ /\ status[c] \in {"excepted", "expired"}
          /\ Return(c, "ServiceException")
    /\ UNCHANGED <<call, factory, ids, exchange>>

\* The waiting thread is interrupted; the exchange goes on without it.
Interrupted(c) ==
    /\ pc[c] = "waitForDone" /\ Return(c, "ServiceException")
    /\ UNCHANGED <<call, factory, ids, exchange>>

-----------------------------------------------------------------------------
(* Jetty's threads and the overridden listeners of RestHttpContentExchange *)

\* The last byte of a response arrived.
Answer(c) ==
    /\ status[c] = "waiting"
    /\ status' = [status EXCEPT ![c] = "completed"]
    /\ \E b \in {"readable", "corrupt"} : body' = [body EXCEPT ![c] = b]
    /\ UNCHANGED <<call, pc, outcome, factory, ids, wire, done, timer, limit, told>>

\* The connection failed or broke.
Fail(c) ==
    /\ status[c] = "waiting"
    /\ status' = [status EXCEPT ![c] = "excepted"]
    /\ UNCHANGED <<call, pc, outcome, factory, ids, wire, body, done, timer,
                   limit, told>>

\* Jetty calls back, then it is done with the exchange and takes its entry
\* out of the timeout queue, unless the queue has begun to run it.
CallBack(c, notes) ==
    /\ told' = IF call[c].mode = "async" THEN [told EXCEPT ![c] = @ \o notes]
               ELSE told
    /\ done' = [done EXCEPT ![c] = TRUE]
    /\ timer' = [timer EXCEPT ![c] = IF @ = "armed" THEN "cancelled" ELSE @]

\* Seeded fault: the failure of getResponse is reported and the response
\* handed over all the same.
OnResponseCompleteTwice(c) ==
    /\ status[c] = "completed" /\ ~done[c]
    /\ CallBack(c, IF body[c] = "readable" THEN <<"response">>
                   ELSE <<"failure", "response">>)
    /\ UNCHANGED <<call, pc, outcome, factory, ids, wire, status, body, limit>>

\* onResponseComplete: an IOException of getResponse leaves the method
\* before callback.callback is called.
OnResponseComplete(c) ==
    /\ status[c] = "completed" /\ ~done[c]
    /\ CallBack(c, IF GetResponseFails(c) THEN <<>> ELSE <<"response">>)
    /\ UNCHANGED <<call, pc, outcome, factory, ids, wire, status, body, limit>>

\* onException and onConnectionFailed
OnException(c) ==
    /\ status[c] = "excepted" /\ ~done[c]
    /\ CallBack(c, <<"failure">>)
    /\ UNCHANGED <<call, pc, outcome, factory, ids, wire, status, body, limit>>

\* The timeout thread takes the entry from the queue and will run it.
TimerFires(c) ==
    /\ timer[c] = "armed"
    /\ timer' = [timer EXCEPT ![c] = "fired"]
    /\ UNCHANGED <<call, pc, outcome, factory, ids, wire, status, body, done,
                   limit, told>>

\* Seeded fault: the override forgets super.expire.
ExpireWithoutSuper(c) ==
    /\ timer[c] = "fired"
    /\ timer' = [timer EXCEPT ![c] = "spent"]
    /\ told' = IF call[c].mode = "async" THEN [told EXCEPT ![c] = Append(@, "expiry")]
               ELSE told
    /\ UNCHANGED <<call, pc, outcome, factory, ids, wire, status, done, body, limit>>

\* Seeded fault: the override marks the exchange expired whatever became of it.
ExpireAlways(c) ==
    /\ timer[c] = "fired"
    /\ timer' = [timer EXCEPT ![c] = "spent"]
    /\ told' = IF call[c].mode = "async" THEN [told EXCEPT ![c] = Append(@, "expiry")]
               ELSE told
    /\ status' = [status EXCEPT ![c] = "expired"]
    /\ done' = [done EXCEPT ![c] = TRUE]
    /\ UNCHANGED <<call, pc, outcome, factory, ids, wire, body, limit>>

\* expire: Jetty changes only an exchange that is still on its way, the
\* override calls handleExcepion whatever the state.
Expire(c) ==
    /\ timer[c] = "fired"
    /\ timer' = [timer EXCEPT ![c] = "spent"]
    /\ told' = IF call[c].mode = "async" THEN [told EXCEPT ![c] = Append(@, "expiry")]
               ELSE told
    /\ \/ /\ status[c] = "waiting"
          /\ status' = [status EXCEPT ![c] = "expired"]
          /\ done' = [done EXCEPT ![c] = TRUE]
       \/ /\ status[c] # "waiting"
          /\ UNCHANGED <<status, done>>
    /\ UNCHANGED <<call, pc, outcome, factory, ids, wire, body, limit>>

\* Somebody corrects the configuration file.
RepairConf ==
    /\ conf # "fine" /\ conf' = "fine"
    /\ UNCHANGED <<call, pc, outcome, monitor, instance, made, client, rest,
                   ids, exchange>>

-----------------------------------------------------------------------------
CallerStep(c) ==
    \/ EnterFactory(c) \/ GetRestInstance(c) \/ CreateHttpRest(c)
    \/ BeginRequest(c) \/ CheckRequestId(c) \/ ResetRequestId(c)
    \/ TakeRequestId(c) \/ PutRequestId(c) \/ Send(c) \/ SendFails(c)
    \/ CallbackExecute(c)

JettyStep(c) ==
    \/ OnResponseComplete(c) \/ OnException(c) \/ TimerFires(c) \/ Expire(c)

Settled(c) == /\ pc[c] = "returned"
              /\ status[c] = "start" \/ done[c]
              /\ timer[c] # "fired"

AllSettled == (\A c \in Callers : Settled(c)) /\ UNCHANGED vars

Next ==
    \/ \E c \in Callers :
         CallerStep(c) \/ JettyStep(c) \/ Interrupted(c) \/ Answer(c) \/ Fail(c)
    \/ RepairConf \/ AllSettled

Spec == Init /\ [][Next]_vars

\* Threads that can run do, Jetty's timeout thread included.  The server
\* need not answer and nobody need repair the file.
Fairness == \A c \in Callers : WF_vars(CallerStep(c)) /\ WF_vars(JettyStep(c))

FairSpec == Spec /\ Fairness

-----------------------------------------------------------------------------
(* Properties                                                              *)

Notes == {"response", "failure", "expiry"}

(* Everybody uses the same client: whatever threads meet in the factory,   *)
(* at most one HttpRest is created, also after an attempt that threw       *)
(* (RestfulFactory.getRestInstance: "returns a singleton instance").       *)
OneInstance ==
    /\ made <= 1
    /\ \A c \in Callers : rest[c] # 0 => rest[c] = instance

(* Two requests on the wire carry the same x-request-id only if their      *)
(* callers share a parameter object or two threads reset the counter at    *)
(* once: get, set and getAndIncrement of getReuqestIdString are three      *)
(* steps.                                                                  *)
DistinctIdsOnWire ==
    \A c, d \in Callers :
        /\ c # d /\ wire[c] # NoId /\ wire[c] = wire[d]
        => raced \/ params(c) = params(d)

(* What a synchronous caller gets is what became of its exchange: a        *)
(* response only for a completed exchange whose body could be read, never  *)
(* null, and an exchange that expired or broke is an exception             *)
(* (HttpBaseRest.callbackExecute), whatever the timeout thread does        *)
(* meanwhile.  Nothing is sent through an instance whose client Jetty      *)
(* rejected, and its callers are told, although the file was repaired.     *)
SyncOutcomeMatches ==
    \A c \in Callers : pc[c] = "returned" /\ call[c].mode = "sync" =>
        /\ outcome[c] # "null"
        /\ outcome[c] = "response" =>
              status[c] = "completed" /\ body[c] = "readable" /\ done[c]
        /\ instance # 0 /\ client = "null"
              => outcome[c] \in {"ServiceException", "JSONException", "empty"}

Count(c, note) == Cardinality({k \in DOMAIN told[c] : told[c][k] = note})

(* An asynchronous caller is told each thing at most once, never both of a *)
(* response and of a broken connection, of a response only if it arrived,  *)
(* and twice only when the timeout ran against the end of the exchange.    *)
CallbacksConsistent ==
    \A c \in Callers :
        /\ \A n \in Notes : Count(c, n) <= 1
        /\ Count(c, "response") + Count(c, "failure") <= 1
        /\ Count(c, "response") = 1 => status[c] = "completed" /\ body[c] = "readable"
        /\ Count(c, "failure") = 1 => status[c] = "excepted"
        /\ Len(told[c]) = 2 => timer[c] = "spent"

(* What a caller gets, or is told by its callback, is what became of its   *)
(* exchange (RestHttpContentExchange).                                     *)
OutcomesMatch == SyncOutcomeMatches /\ CallbacksConsistent

\* Jetty is finished with the exchange and no timeout is about to run.
Closed(c) == done[c] /\ timer[c] # "fired"

\* How a step may go on with what has ended.
KeepsEnd(c) ==
    /\ status[c] \in {"completed", "excepted", "expired"} =>
          status'[c] = status[c] /\ body'[c] = body[c]
    /\ pc[c] = "returned" => pc'[c] = "returned" /\ outcome'[c] = outcome[c]
    /\ done[c] => done'[c] /\ told'[c] \in {told[c], Append(told[c], "expiry")}
    /\ Closed(c) => Closed(c)' /\ told'[c] = told[c]

(* What becomes of an exchange is decided once, however its response, a    *)
(* broken connection and the timeout race: an end stays with its body, a   *)
(* caller that came back has come back for good, and when Jetty is         *)
(* finished a callback can still hear of an expiry under way, then nothing *)
(* (RestHttpContentExchange).                                              *)
EndStays == [][\A c \in Callers : KeepsEnd(c)]_vars

(* Every caller whose exchange was sent comes back or hears of it although *)
(* the server never answers: the timeout ends the exchange.  Only an       *)
(* asynchronous caller whose response cannot be unzipped is left alone.    *)
EveryoneTold ==
    \A c \in Callers : status[c] # "start" ~>
        IF call[c].mode = "sync" THEN pc[c] = "returned"
                                 ELSE told[c] # <<>> \/ body[c] = "corrupt"

(* Claim of TestRestHttpContentExchange and of the exception's own text    *)
(* ("request is expired"): a caller that is handed a response is told of   *)
(* no exception.                                                           *)
ResponseExcludesException ==
    \A c \in Callers : Count(c, "response") = 1 => Len(told[c]) = 1

-----------------------------------------------------------------------------
(* The promise of Singleton.tla, kept by getRestInstance.                  *)

\* The instance comes with the client that initHttpRest gave it.
object == IF instance = 0 THEN <<>> ELSE <<instance, client>>

makers == {c \in Callers : pc[c] = "create"}

held == [c \in Callers |-> IF rest[c] = 0 THEN <<>> ELSE <<rest[c], client>>]

OneObject == INSTANCE Singleton WITH
               Users <- Callers, NoObject <- <<>>,
               object <- object, makers <- makers, held <- held

\* getRestInstance implements Singleton: one caller at a time creates, after an
\* attempt that threw another may, nobody once an instance is cached, and every
\* caller is handed the one that is, whose client never changes.
SingletonSpec == OneObject!Spec
=============================================================================
