----------------------------- MODULE BpsProcess -----------------------------
(***************************************************************************)
(* The process resource of the WSO2 BPEL manager (wso2bpel-mgr,            *)
(* resources/BpsProcess.java, util/SoapUtil.java): concurrent requests     *)
(* that start an instance of a deployed process.  A request looks up the   *)
(* WSDL of the process, imports it, takes the first request template that  *)
(* has all its parameters, fills it in and calls the process.  Meanwhile   *)
(* the package resource deploys, replaces and removes processes.           *)
(*                                                                         *)
(* One action is one exchange with WSO2 or one local step between them.    *)
(***************************************************************************)
EXTENDS Integers, Sequences, SequencesExt

CONSTANTS
    Requests,    \* HTTP requests that may arrive, each served once
    Processes,   \* ids of processes
    Unknown,     \* a processId no process has, null included
    Interfaces,  \* what a deployed process may offer: sequences of templates,
                 \* a template being the elements in its body
    ParamSets,   \* parameters of a request: the kind of value of each name
    NotAMap      \* "params" is absent or no JSON object

\* An element has its name, and children or none.
Element == [name : STRING, leaf : BOOLEAN]
Kinds   == {"string", "object", "other"}

\* A deployed process has a template; both are sequences.
ASSUME InterfacesAssumption ==
    \A i \in Interfaces : /\ i \in Seq(Range(i)) /\ i # <<>>
                          /\ \A t \in Range(i) : t \in Seq(Element)
ASSUME ParamsAssumption == \A p \in ParamSets : p \in [DOMAIN p -> Kinds]
ASSUME NamesAssumption == Unknown \notin Processes /\ NotAMap \notin ParamSets

CallType == [processId : Processes \cup {Unknown},
             params : ParamSets \cup {NotAMap}]

Undeployed == <<>>
NoUrl      == Unknown

VARIABLES
    call,        \* the request's JSON object
    pc,          \* where the handler is
    wsdlUrl,     \* what getWsdlUrl found; the url stands for its process
    templates,   \* request templates of the imported WSDL
    chosen,      \* index of the template taken, 0 for none
    answer,      \* "status" of the answer
    trustStore,  \* system property javax.net.ssl.trustStore
    deployed,    \* WSO2: interface of each process
    started,     \* WSO2: instances started for each request
    lost,        \* history: requests whose reply did not arrive
    changed      \* history: requests whose process changed since the import

locals == <<wsdlUrl, templates, chosen, answer>>
server == <<deployed, started, lost>>
vars   == <<call, pc, locals, trustStore, server, changed>>

Init ==
    /\ call \in [Requests -> CallType]
    /\ pc = [r \in Requests |-> "idle"]
    /\ wsdlUrl = [r \in Requests |-> NoUrl]
    /\ templates = [r \in Requests |-> <<>>]
    /\ chosen = [r \in Requests |-> 0]
    /\ answer = [r \in Requests |-> "none"]
    /\ trustStore = "unset"
    /\ deployed \in [Processes -> Interfaces \cup {Undeployed}]
    /\ started = [r \in Requests |-> <<>>]
    /\ lost = {} /\ changed = {}

Goto(r, l) == pc' = [pc EXCEPT ![r] = l] /\ UNCHANGED answer

\* Every exception of startProcess ends in the same answer.
Answer(r, status) == /\ pc' = [pc EXCEPT ![r] = "done"]
                     /\ answer' = [answer EXCEPT ![r] = status]

-----------------------------------------------------------------------------
(* startProcess                                                            *)

\* A body that cannot be mapped, or a processId that is no string, fails.
Receive(r) ==
    /\ pc[r] = "idle"
    /\ Goto(r, "wildcard") \/ Answer(r, "FAIL")
    /\ UNCHANGED <<call, wsdlUrl, templates, chosen, trustStore, server, changed>>

\* getWsdlUrl writes the trust store property twice.
SetTrustStoreWildcard(r) ==
    /\ pc[r] = "wildcard" /\ Goto(r, "jks")
    /\ trustStore' = "wildcard"
    /\ UNCHANGED <<call, wsdlUrl, templates, chosen, server, changed>>

SetTrustStoreJks(r) ==
    /\ pc[r] = "jks" /\ Goto(r, "lookup")
    /\ trustStore' = "jks"
    /\ UNCHANGED <<call, wsdlUrl, templates, chosen, server, changed>>

\* Seeded fault: a location that ends with "wsdl", of any process listed.
GetWsdlUrlOfAny(r) ==
    /\ pc[r] = "lookup" /\ Goto(r, "import")
    /\ \/ UNCHANGED wsdlUrl
       \/ \E p \in Processes : /\ deployed[p] # Undeployed
                              /\ wsdlUrl' = [wsdlUrl EXCEPT ![r] = p]
    /\ UNCHANGED <<call, templates, chosen, trustStore, server, changed>>

\* getProcessInfoIn: the location that ends with "wsdl".  Every failure is
\* swallowed and leaves null.
GetWsdlUrl(r) ==
    /\ pc[r] = "lookup" /\ Goto(r, "import")
    /\ LET pid == call[r].processId IN
       \/ UNCHANGED wsdlUrl
       \/ /\ pid \in Processes /\ deployed[pid] # Undeployed
          /\ wsdlUrl' = [wsdlUrl EXCEPT ![r] = pid]
    /\ UNCHANGED <<call, templates, chosen, trustStore, server, changed>>

\* Seeded fault: one SoapUtil, and so one cache, for all requests.
GetRequestTemplateCached(r) ==
    /\ pc[r] = "import" /\ wsdlUrl[r] # NoUrl
    /\ LET cached == {q \in Requests : wsdlUrl[q] = wsdlUrl[r] /\ templates[q] # <<>>}
       IN \/ \E q \in cached : templates' = [templates EXCEPT ![r] = templates[q]]
          \/ cached = {} /\ templates' = [templates EXCEPT ![r] = deployed[wsdlUrl[r]]]
    /\ Goto(r, "choose")
    /\ UNCHANGED <<call, wsdlUrl, chosen, trustStore, server, changed>>

\* SoapUtil.getRequestTemplate; the cache of the new SoapUtil is empty.
GetRequestTemplate(r) ==
    /\ pc[r] = "import"
    /\ \/ /\ wsdlUrl[r] # NoUrl /\ deployed[wsdlUrl[r]] # Undeployed
          /\ templates' = [templates EXCEPT ![r] = deployed[wsdlUrl[r]]]
          /\ Goto(r, "choose")
       \/ UNCHANGED templates /\ Answer(r, "FAIL")
    /\ UNCHANGED <<call, wsdlUrl, chosen, trustStore, server, changed>>

Names(t) == {e.name : e \in Range(t)}

\* Seeded fault: the comparison stops at the first name that is there.
MatchesSome(t, params) ==
    params # NotAMap /\ (DOMAIN params = {} \/ DOMAIN params \cap Names(t) # {})

\* Every name is in the body; an empty map matches everything.
Matches(t, params) == params # NotAMap /\ DOMAIN params \subseteq Names(t)

\* The first template that matches, if there is one.
ChooseTemplate(r) ==
    /\ pc[r] = "choose"
    /\ LET matching == {k \in DOMAIN templates[r] :
                           Matches(templates[r][k], call[r].params)}
       IN \/ matching = {} /\ Answer(r, "FAIL") /\ UNCHANGED chosen
          \/ \E k \in matching :
                /\ \A j \in matching : k <= j
                /\ Goto(r, "invoke") /\ chosen' = [chosen EXCEPT ![r] = k]
    /\ UNCHANGED <<call, wsdlUrl, templates, trustStore, server, changed>>

Template(r) == templates[r][chosen[r]]

\* Only the last element of the body is filled in and sent; an empty body
\* has none, and filling that in fails.
Message(r) == Last(Template(r))

\* setParams puts a string into an element without children, and goes on with
\* an object in one with children (MessageFill).  Of any other value, a number,
\* a boolean or a list, nothing arrives, and nobody is told.
Writes(e, kind) == kind = IF e.leaf THEN "string" ELSE "object"

Carried(e, params) == {n \in DOMAIN params : n = e.name /\ Writes(e, params[n])}

\* WSO2 starts an instance if the process still takes the message.
Starts(r) ==
    /\ Template(r) # <<>>
    /\ \E t \in Range(deployed[wsdlUrl[r]]) : t # <<>> /\ Last(t) = Message(r)
    /\ started' = [started EXCEPT ![r] = Append(@,
           [process |-> wsdlUrl[r], template |-> Template(r),
            carried |-> Carried(Message(r), call[r].params)])]

\* Seeded fault: the call is sent as fire-and-forget, faults are not seen.
InvokeBlind(r) ==
    /\ pc[r] = "invoke" /\ Answer(r, "SUCCESS")
    /\ Starts(r) \/ UNCHANGED started
    /\ UNCHANGED <<call, wsdlUrl, templates, chosen, trustStore, deployed, lost, changed>>

(***************************************************************************)
(* sendReceive, or sendRobust when the operation has no response.  Without *)
(* a reply there is no answer to convert; a reply that xml2JSON cannot     *)
(* convert becomes null and the request still succeeds.                    *)
(***************************************************************************)
Invoke(r) ==
    /\ pc[r] = "invoke"
    /\ \/ Starts(r) /\ Answer(r, "SUCCESS") /\ UNCHANGED lost
       \/ Starts(r) /\ Answer(r, "FAIL") /\ lost' = lost \cup {r}
       \/ UNCHANGED <<started, lost>> /\ Answer(r, "FAIL")
    /\ UNCHANGED <<call, wsdlUrl, templates, chosen, trustStore, deployed, changed>>

\* The package resource deploys, replaces or removes a process.
Redeploy(p) ==
    /\ \E i \in Interfaces \cup {Undeployed} :
         i # deployed[p] /\ deployed' = [deployed EXCEPT ![p] = i]
    /\ changed' = changed \cup {r \in Requests : wsdlUrl[r] = p /\ templates[r] # <<>>}
    /\ UNCHANGED <<call, pc, locals, trustStore, started, lost>>

Handler(r) ==
    \/ SetTrustStoreWildcard(r) \/ SetTrustStoreJks(r) \/ GetWsdlUrl(r)
    \/ GetRequestTemplate(r) \/ ChooseTemplate(r) \/ Invoke(r)

Next == \/ \E r \in Requests : Receive(r) \/ Handler(r)
        \/ \E p \in Processes : Redeploy(p)

Spec == Init /\ [][Next]_vars

-----------------------------------------------------------------------------
(* Properties                                                              *)

(* What a request is told is what it did, whatever was deployed, replaced  *)
(* or removed meanwhile: "success" means that exactly one instance was     *)
(* started for it, of the process asked for; a failed request has started  *)
(* an instance only if the reply was lost, and then one - nothing after    *)
(* the call turns a started instance into a failure.                       *)
StartedAsAnswered ==
    \A r \in Requests :
        /\ answer[r] = "SUCCESS" =>
              Len(started[r]) = 1 /\ started[r][1].process = call[r].processId
        /\ answer[r] = "FAIL" /\ started[r] # <<>> => r \in lost /\ Len(started[r]) = 1

\* An instance has all of params, but for what its one element cannot take.
HasAll(instance, params) ==
    LET element == instance.template[1] IN
    \A n \in DOMAIN params :
        n = element.name /\ (n \in instance.carried <=> Writes(element, params[n]))

(* An instance started from a template with one element has every          *)
(* parameter of the request, if it is what the element can take: a string  *)
(* or, for an element with children, an object.  A request that gave no    *)
(* map starts none.  The matching loop of invokeWsdl and what setParams    *)
(* writes agree so far; other values match and are dropped, and of a body  *)
(* of several elements only the last is sent.                              *)
InstancesHaveParameters ==
    \A r \in Requests : \A k \in DOMAIN started[r] :
        /\ call[r].params # NotAMap
        /\ Len(started[r][k].template) = 1 => HasAll(started[r][k], call[r].params)

(* The template chosen is one the process still offers when it is called,  *)
(* unless the process was replaced after the import.                       *)
TemplateCurrent ==
    \A r \in Requests : pc[r] = "invoke" /\ r \notin changed =>
        \E k \in DOMAIN deployed[wsdlUrl[r]] : deployed[wsdlUrl[r]][k] = Template(r)

\* A request as its caller and WSO2 see it.
Phase(r) == CASE pc[r] = "idle" -> "waiting"
              [] pc[r] = "done" -> "answered"
              [] OTHER -> "open"

InstancesOf(r) == [k \in DOMAIN started[r] |-> started[r][k].process]

Promise == INSTANCE ProcessPromise
    WITH phase <- [r \in Requests |-> Phase(r)],
         asked <- [r \in Requests |-> call[r].processId],
         effect <- [r \in Requests |-> InstancesOf(r)]

(* The handlers, with all their steps between the request and the answer   *)
(* and with redeployment in between, are requests that each take effect at *)
(* once and only when they are answered.                                   *)
PromiseSpec == Promise!Spec

=============================================================================
