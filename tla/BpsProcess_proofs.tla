-------------------------- MODULE BpsProcess_proofs --------------------------
(***************************************************************************)
(* The safety invariants of BpsProcess, for any requests, processes and    *)
(* interfaces and whatever the package resource deploys meanwhile; then    *)
(* those of the data it sends and gets: of MessageFill and MessageJson.    *)
(***************************************************************************)
EXTENDS BpsProcess, MessageBody, SequenceTheorems, TLAPS

PCs == {"idle", "wildcard", "jks", "lookup", "import", "choose", "invoke", "done"}

TypeOK ==
    /\ call \in [Requests -> CallType]
    /\ pc \in [Requests -> PCs]
    /\ wsdlUrl \in [Requests -> Processes \cup {NoUrl}]
    /\ templates \in [Requests -> Interfaces \cup {<<>>}]
    /\ chosen \in [Requests -> Nat]
    /\ answer \in [Requests -> {"none", "SUCCESS", "FAIL"}]
    /\ deployed \in [Processes -> Interfaces \cup {Undeployed}]
    /\ DOMAIN started = Requests
    /\ lost \subseteq Requests /\ changed \subseteq Requests

\* What a handler has found on its way to the call: the URL of the process
\* asked for, the templates it offered, one that matches.
Found(r) ==
    /\ wsdlUrl[r] \in {NoUrl, call[r].processId}
    /\ pc[r] \in {"choose", "invoke"} =>
          /\ wsdlUrl[r] # NoUrl /\ templates[r] # <<>>
          /\ r \notin changed => deployed[wsdlUrl[r]] = templates[r]
    /\ pc[r] = "invoke" =>
          /\ chosen[r] \in DOMAIN templates[r]
          /\ Matches(Template(r), call[r].params)

\* An instance of the process asked for, with what a call can carry.
Instance(r, i) ==
    /\ i.process = call[r].processId
    /\ call[r].params # NotAMap
    /\ Len(i.template) = 1 => HasAll(i, call[r].params)

\* One instance at most, started by the last step only, which answers.
Outcome(r) ==
    /\ pc[r] # "done" => answer[r] = "none" /\ started[r] = <<>>
    /\ started[r] # <<>> => started[r] = <<started[r][1]>> /\ Instance(r, started[r][1])
    /\ answer[r] = "SUCCESS" => started[r] # <<>>
    /\ answer[r] = "FAIL" /\ started[r] # <<>> => r \in lost

IInv == TypeOK /\ \A r \in Requests : Found(r) /\ Outcome(r)

USE DEF locals, server, vars

-----------------------------------------------------------------------------
(* What the interface of a process gives a request.                        *)

(* A call of a process carries all parameters its element can take if the  *)
(* template has one element only: the one that is filled in is the one     *)
(* they were matched against.                                              *)
LEMMA SingleElementCarriesAll ==
    ASSUME NEW i \in Interfaces, NEW k \in DOMAIN i, NEW params,
           Matches(i[k], params), Len(i[k]) = 1
    PROVE  \A n \in DOMAIN params :
              n = i[k][1].name
              /\ (n \in Carried(Last(i[k]), params) <=> Writes(i[k][1], params[n]))
<1>1. i[k] \in Seq(Element)
  <2>1. i[k] \in Range(i)
    BY DEF Range
  <2> QED
    BY <2>1, InterfacesAssumption
<1>2. Range(i[k]) = {i[k][1]} /\ Last(i[k]) = i[k][1]
  BY <1>1 DEF Range, Last
<1>3. \A n \in DOMAIN params : n = i[k][1].name
  BY <1>2 DEF Matches, Names
<1> QED
  BY <1>2, <1>3 DEF Carried

-----------------------------------------------------------------------------
(* The inductive invariant                                                 *)

LEMMA InitIInv == Init => IInv
<1> SUFFICES ASSUME Init PROVE IInv
  OBVIOUS
<1>1. TypeOK
  BY DEF Init, TypeOK, PCs, NoUrl
<1>2. ASSUME NEW r \in Requests PROVE Found(r) /\ Outcome(r)
  BY DEF Init, Found, Outcome
<1> QED
  BY <1>1, <1>2 DEF IInv

(* A request's own step leaves the others as they are. *)
LEMMA OthersKept ==
    ASSUME IInv, NEW r \in Requests, Receive(r) \/ Handler(r),
           NEW q \in Requests, q # r
    PROVE  Found(q)' /\ Outcome(q)'
<1>1. TypeOK /\ Found(q) /\ Outcome(q)
  BY DEF IInv
<1>2. /\ call' = call /\ deployed' = deployed /\ changed' = changed
      /\ pc'[q] = pc[q] /\ wsdlUrl'[q] = wsdlUrl[q] /\ templates'[q] = templates[q]
      /\ chosen'[q] = chosen[q] /\ answer'[q] = answer[q] /\ started'[q] = started[q]
      /\ lost \subseteq lost'
  <2> USE <1>1 DEF TypeOK, Goto, Answer
  <2>1. CASE Receive(r) \/ SetTrustStoreWildcard(r) \/ SetTrustStoreJks(r)
    BY <2>1 DEF Receive, SetTrustStoreWildcard, SetTrustStoreJks
  <2>2. CASE GetWsdlUrl(r)
    BY <2>2 DEF GetWsdlUrl
  <2>3. CASE GetRequestTemplate(r)
    BY <2>3 DEF GetRequestTemplate
  <2>4. CASE ChooseTemplate(r)
    BY <2>4 DEF ChooseTemplate
  <2>5. CASE Invoke(r)
    BY <2>5 DEF Invoke, Starts
  <2> QED
    BY <2>1, <2>2, <2>3, <2>4, <2>5 DEF Handler
<1> QED
  BY <1>1, <1>2 DEF Found, Outcome, Instance, Template

(* Every step of every action keeps the types. *)
LEMMA TypeStep == TypeOK /\ [Next]_vars => TypeOK'
<1> SUFFICES ASSUME TypeOK, [Next]_vars PROVE TypeOK'
  OBVIOUS
<1> USE DEF TypeOK, PCs, Goto, Answer
<1>1. ASSUME NEW r \in Requests, Receive(r) PROVE TypeOK'
  BY <1>1 DEF Receive
<1>2. ASSUME NEW r \in Requests, SetTrustStoreWildcard(r) \/ SetTrustStoreJks(r)
      PROVE  TypeOK'
  BY <1>2 DEF SetTrustStoreWildcard, SetTrustStoreJks
<1>3. ASSUME NEW r \in Requests, GetWsdlUrl(r) PROVE TypeOK'
  BY <1>3 DEF GetWsdlUrl
<1>4. ASSUME NEW r \in Requests, GetRequestTemplate(r) PROVE TypeOK'
  <2>1. CASE wsdlUrl[r] # NoUrl /\ templates' = [templates EXCEPT ![r] = deployed[wsdlUrl[r]]]
    <3>1. deployed[wsdlUrl[r]] \in Interfaces \cup {<<>>}
      BY <2>1 DEF Undeployed
    <3> QED
      BY <1>4, <2>1, <3>1 DEF GetRequestTemplate
  <2>2. CASE templates' = templates
    BY <1>4, <2>2 DEF GetRequestTemplate
  <2> QED
    BY <1>4, <2>1, <2>2 DEF GetRequestTemplate
<1>5. ASSUME NEW r \in Requests, ChooseTemplate(r) PROVE TypeOK'
  <2>1. DOMAIN templates[r] \subseteq Nat
    BY InterfacesAssumption
  <2>2. /\ chosen' = chosen \/ \E k \in Nat : chosen' = [chosen EXCEPT ![r] = k]
        /\ \/ pc' = [pc EXCEPT ![r] = "invoke"] /\ answer' = answer
           \/ pc' = [pc EXCEPT ![r] = "done"] /\ answer' = [answer EXCEPT ![r] = "FAIL"]
        /\ UNCHANGED <<call, wsdlUrl, templates, server, changed>>
    BY <1>5, <2>1 DEF ChooseTemplate
  <2>3. chosen' \in [Requests -> Nat]
    BY <2>2
  <2>4. pc' \in [Requests -> PCs] /\ answer' \in [Requests -> {"none", "SUCCESS", "FAIL"}]
    BY <2>2
  <2> QED
    BY <2>2, <2>3, <2>4
<1>6. ASSUME NEW r \in Requests, Invoke(r) PROVE TypeOK'
  BY <1>6 DEF Invoke, Starts
<1>7. ASSUME NEW p \in Processes, Redeploy(p) PROVE TypeOK'
  BY <1>7 DEF Redeploy
<1>8. CASE UNCHANGED vars
  BY <1>8
<1> HIDE DEF TypeOK
<1> QED
  BY <1>1, <1>2, <1>3, <1>4, <1>5, <1>6, <1>7, <1>8 DEF Next, Handler

(* What is deployed meanwhile marks the requests it concerns. *)
LEMMA RedeployKeeps ==
    ASSUME IInv, NEW p \in Processes, Redeploy(p), NEW r \in Requests
    PROVE  Found(r)' /\ Outcome(r)'
<1>1. TypeOK /\ Found(r) /\ Outcome(r)
  BY DEF IInv
<1>2. /\ UNCHANGED <<call, pc, locals, started, lost>>
      /\ changed' = changed \cup {q \in Requests : wsdlUrl[q] = p /\ templates[q] # <<>>}
      /\ \E i : deployed' = [deployed EXCEPT ![p] = i]
  BY DEF Redeploy
<1>3. Outcome(r)'
  BY <1>1, <1>2 DEF Outcome, Instance
<1>4. ASSUME pc[r] \in {"choose", "invoke"}, r \notin changed'
      PROVE  deployed'[wsdlUrl[r]] = templates[r]
  <2>1. wsdlUrl[r] # p /\ deployed[wsdlUrl[r]] = templates[r]
    BY <1>1, <1>2, <1>4 DEF Found
  <2>2. wsdlUrl[r] \in Processes
    BY <1>1, <1>4 DEF Found, TypeOK
  <2> QED
    BY <1>1, <1>2, <2>1, <2>2 DEF TypeOK
<1> QED
  BY <1>1, <1>2, <1>3, <1>4 DEF Found, Template

(* A handler finds what it goes on with, and only its last step starts an
   instance. *)
LEMMA OwnStep ==
    ASSUME IInv, NEW r \in Requests, Receive(r) \/ Handler(r)
    PROVE  Found(r)' /\ Outcome(r)'
<1>1. TypeOK /\ Found(r) /\ Outcome(r)
  BY DEF IInv
<1> USE DEF Goto, Answer
<1>2. CASE Receive(r) \/ SetTrustStoreWildcard(r) \/ SetTrustStoreJks(r)
  <2>1. /\ UNCHANGED <<call, wsdlUrl, templates, chosen, server, changed>>
        /\ \/ pc'[r] \in {"wildcard", "jks", "lookup"} /\ answer'[r] = answer[r]
           \/ pc'[r] = "done" /\ answer'[r] = "FAIL"
        /\ pc[r] # "done"
    BY <1>1, <1>2 DEF Receive, SetTrustStoreWildcard, SetTrustStoreJks, TypeOK
  <2> QED
    BY <1>1, <2>1 DEF Found, Outcome
<1>3. CASE GetWsdlUrl(r)
  <2>1. /\ UNCHANGED <<call, templates, chosen, server, changed>>
        /\ wsdlUrl'[r] \in {wsdlUrl[r], call[r].processId}
        /\ pc'[r] = "import" /\ answer'[r] = answer[r] /\ pc[r] # "done"
    BY <1>1, <1>3 DEF GetWsdlUrl, TypeOK
  <2> QED
    BY <1>1, <2>1 DEF Found, Outcome
<1>4. CASE GetRequestTemplate(r)
  <2>1. UNCHANGED <<call, wsdlUrl, chosen, server, changed>> /\ pc[r] # "done"
    BY <1>4 DEF GetRequestTemplate
  <2>2. \/ /\ pc'[r] = "choose" /\ answer'[r] = answer[r]
           /\ wsdlUrl[r] # NoUrl /\ deployed[wsdlUrl[r]] # Undeployed
           /\ templates'[r] = deployed[wsdlUrl[r]]
        \/ pc'[r] = "done" /\ answer'[r] = "FAIL"
    BY <1>1, <1>4 DEF GetRequestTemplate, TypeOK
  <2> QED
    BY <1>1, <2>1, <2>2 DEF Found, Outcome, Undeployed
<1>5. CASE ChooseTemplate(r)
  <2>1. UNCHANGED <<call, wsdlUrl, templates, server, changed>> /\ pc[r] = "choose"
    BY <1>5 DEF ChooseTemplate
  <2>2. \/ /\ pc'[r] = "invoke" /\ answer'[r] = answer[r]
           /\ chosen'[r] \in DOMAIN templates[r]
           /\ Matches(templates[r][chosen'[r]], call[r].params)
        \/ pc'[r] = "done" /\ answer'[r] = "FAIL"
    BY <1>1, <1>5 DEF ChooseTemplate, TypeOK
  <2> QED
    BY <1>1, <2>1, <2>2 DEF Found, Outcome, Template
<1>6. CASE Invoke(r)
  <2>1. /\ UNCHANGED <<call, wsdlUrl, templates, chosen, deployed, changed>>
        /\ pc[r] = "invoke" /\ pc'[r] = "done"
        /\ \/ Starts(r) /\ answer'[r] = "SUCCESS"
           \/ Starts(r) /\ answer'[r] = "FAIL" /\ r \in lost'
           \/ started' = started /\ answer'[r] = "FAIL"
    BY <1>1, <1>6 DEF Invoke, TypeOK
  <2>2. Found(r)'
    BY <1>1, <2>1 DEF Found
  <2>3. CASE Starts(r)
    <3> DEFINE i == [process |-> wsdlUrl[r], template |-> Template(r),
                     carried |-> Carried(Message(r), call[r].params)]
    <3>1. started'[r] = <<i>>
      <4>1. started[r] = <<>>
        BY <1>1, <2>1 DEF Outcome
      <4>2. started'[r] = Append(started[r], i)
        BY <1>1, <2>3 DEF Starts, TypeOK
      <4> QED
        BY <4>1, <4>2
    <3>2. /\ templates[r] \in Interfaces /\ chosen[r] \in DOMAIN templates[r]
          /\ Matches(Template(r), call[r].params) /\ wsdlUrl[r] = call[r].processId
      BY <1>1, <2>1 DEF Found, TypeOK
    <3>3. Instance(r, i)
      BY <3>2, SingleElementCarriesAll DEF Instance, HasAll, Template, Message, Matches
    <3>4. Instance(r, i)'
      BY <2>1, <3>3 DEF Instance, HasAll, Template, Message
    <3> HIDE DEF i
    <3>5. started'[r] # <<>> /\ started'[r][1] = i
      BY <3>1
    <3>6. Instance(r, started[r][1])'
      <4>1. i.process = call[r].processId /\ call[r].params # NotAMap
            /\ (Len(i.template) = 1 => HasAll(i, call[r].params))
        BY <3>3 DEF Instance
      <4> QED
        BY <2>1, <4>1, <3>5 DEF Instance
    <3>7. started'[r] = <<started'[r][1]>>
      BY <3>1, <3>5
    <3> HIDE DEF Instance
    <3> QED
      BY <1>1, <2>1, <2>2, <3>5, <3>6, <3>7 DEF Outcome
  <2>4. CASE started' = started /\ answer'[r] = "FAIL"
    BY <1>1, <2>1, <2>2, <2>4 DEF Outcome
  <2> QED
    BY <2>1, <2>3, <2>4
<1> QED
  BY <1>2, <1>3, <1>4, <1>5, <1>6 DEF Handler

LEMMA NextIInv == IInv /\ [Next]_vars => IInv'
<1> SUFFICES ASSUME IInv, [Next]_vars PROVE IInv'
  OBVIOUS
<1>1. TypeOK'
  BY TypeStep DEF IInv
<1>2. ASSUME NEW q \in Requests PROVE Found(q)' /\ Outcome(q)'
  <2>1. ASSUME NEW r \in Requests, Receive(r) \/ Handler(r)
        PROVE  Found(q)' /\ Outcome(q)'
    BY <2>1, OwnStep, OthersKept
  <2>2. ASSUME NEW p \in Processes, Redeploy(p) PROVE Found(q)' /\ Outcome(q)'
    BY <2>2, RedeployKeeps
  <2>3. CASE UNCHANGED vars
    BY <2>3 DEF IInv, Found, Outcome, Instance, Template
  <2> QED
    BY <2>1, <2>2, <2>3 DEF Next
<1> QED
  BY <1>1, <1>2 DEF IInv

(* The inductive invariant behind the three properties. *)
THEOREM Inductive == Spec => []IInv
  BY InitIInv, NextIInv, PTL DEF Spec

-----------------------------------------------------------------------------
(* What a request is told is what it did (BpsProcess.startProcess): for
   "success" exactly one instance of the process asked for was started, after
   a failure one only if the reply was lost. *)
THEOREM StartedAsAnsweredTheorem == Spec => []StartedAsAnswered
<1>1. ASSUME IInv, NEW r \in Requests, started[r] # <<>>
      PROVE  Len(started[r]) = 1 /\ started[r][1].process = call[r].processId
  <2> DEFINE i == started[r][1]
  <2>1. started[r] = <<i>> /\ i.process = call[r].processId
    BY <1>1 DEF IInv, Outcome, Instance
  <2> HIDE DEF i
  <2>2. Len(started[r]) = 1
    BY <2>1
  <2> QED
    BY <2>1, <2>2 DEF i
<1>2. IInv => StartedAsAnswered
  BY <1>1 DEF IInv, Outcome, StartedAsAnswered
<1> QED
  BY <1>2, Inductive, PTL

(* An instance started from a template with one element has every parameter
   of the request that setParams can write into that element (invokeWsdl). *)
THEOREM InstancesHaveParametersTheorem == Spec => []InstancesHaveParameters
<1>1. ASSUME IInv, NEW r \in Requests, NEW k \in DOMAIN started[r]
      PROVE  /\ call[r].params # NotAMap
             /\ Len(started[r][k].template) = 1
                   => HasAll(started[r][k], call[r].params)
  <2>1. started[r] # <<>>
    OBVIOUS
  <2>2. started[r] = <<started[r][1]>> /\ Instance(r, started[r][1])
    BY <1>1, <2>1 DEF IInv, Outcome
  <2>3. k = 1
    BY <2>2
  <2> QED
    BY <2>2, <2>3 DEF Instance
<1>2. IInv => InstancesHaveParameters
  BY <1>1 DEF InstancesHaveParameters
<1> QED
  BY <1>2, Inductive, PTL

(* The template chosen is one the process still offers when it is called,
   unless the process was replaced after the import. *)
THEOREM TemplateCurrentTheorem == Spec => []TemplateCurrent
<1>1. IInv => TemplateCurrent
  BY DEF IInv, Found, Template, TemplateCurrent
<1> QED
  BY <1>1, Inductive, PTL

-----------------------------------------------------------------------------
(* The handlers implement ProcessPromise.                                  *)

phases  == [q \in Requests |-> Phase(q)]
effects == [q \in Requests |-> InstancesOf(q)]
asks    == [q \in Requests |-> call[q].processId]

(* Initially nothing is asked to be done and nothing is. *)
LEMMA PromiseInit == Init => Promise!Init
<1> SUFFICES ASSUME Init PROVE Promise!Init
  OBVIOUS
<1>1. ASSUME NEW q \in Requests PROVE Phase(q) = "waiting" /\ InstancesOf(q) = <<>>
  <2>1. pc[q] = "idle" /\ started[q] = <<>>
    BY DEF Init
  <2> QED
    BY <2>1 DEF Phase, InstancesOf
<1>2. asks \in [Requests -> Processes \cup {Unknown}]
  BY DEF Init, CallType, asks
<1>3. phases = [q \in Requests |-> "waiting"] /\ effects = [q \in Requests |-> <<>>]
  BY <1>1 DEF phases, effects
<1> QED
  BY <1>2, <1>3 DEF Promise!Init, phases, effects, asks, Init

(* What a request's step does to the view of it and of the others. *)
LEMMA ViewOfStep ==
    ASSUME IInv, NEW r \in Requests, Receive(r) \/ Handler(r)
    PROVE  /\ asks' = asks
           /\ phases' = [phases EXCEPT ![r] = Phase(r)']
           /\ effects' = [effects EXCEPT ![r] = InstancesOf(r)']
<1>1. TypeOK
  BY DEF IInv
<1>2. ASSUME NEW q \in Requests, q # r PROVE pc'[q] = pc[q] /\ started'[q] = started[q]
  <2> USE <1>1 DEF TypeOK, Goto, Answer
  <2>1. CASE Receive(r) \/ SetTrustStoreWildcard(r) \/ SetTrustStoreJks(r)
    BY <1>2, <2>1 DEF Receive, SetTrustStoreWildcard, SetTrustStoreJks
  <2>2. CASE GetWsdlUrl(r)
    BY <1>2, <2>2 DEF GetWsdlUrl
  <2>3. CASE GetRequestTemplate(r)
    BY <1>2, <2>3 DEF GetRequestTemplate
  <2>4. CASE ChooseTemplate(r)
    BY <1>2, <2>4 DEF ChooseTemplate
  <2>5. CASE Invoke(r)
    BY <1>2, <2>5 DEF Invoke, Starts
  <2> QED
    BY <2>1, <2>2, <2>3, <2>4, <2>5 DEF Handler
<1>3. call' = call
  BY DEF Handler, Receive, SetTrustStoreWildcard, SetTrustStoreJks, GetWsdlUrl,
         GetRequestTemplate, ChooseTemplate, Invoke
<1>4. ASSUME NEW q \in Requests, q # r
      PROVE  Phase(q)' = Phase(q) /\ InstancesOf(q)' = InstancesOf(q)
  BY <1>2, <1>4 DEF Phase, InstancesOf
<1> QED
  BY <1>3, <1>4 DEF asks, phases, effects

(* Until the call of the process, a step opens the request, refuses it or is
   not seen from outside. *)
LEMMA BeforeTheCall ==
    ASSUME IInv, NEW r \in Requests,
           Receive(r) \/ SetTrustStoreWildcard(r) \/ SetTrustStoreJks(r)
              \/ GetWsdlUrl(r) \/ GetRequestTemplate(r) \/ ChooseTemplate(r)
    PROVE  /\ UNCHANGED <<lost, started>>
           /\ \/ /\ Phase(r) = "waiting" /\ Phase(r)' = "open" /\ answer' = answer
              \/ /\ Phase(r) \in {"waiting", "open"} /\ Phase(r)' = "answered"
                 /\ answer' = [answer EXCEPT ![r] = "FAIL"]
              \/ /\ Phase(r)' = Phase(r) /\ answer' = answer
<1>1. TypeOK
  BY DEF IInv
<1> USE <1>1 DEF TypeOK, Goto, Answer, Phase
<1>2. CASE Receive(r)
  BY <1>2 DEF Receive
<1>3. CASE SetTrustStoreWildcard(r) \/ SetTrustStoreJks(r)
  BY <1>3 DEF SetTrustStoreWildcard, SetTrustStoreJks
<1>4. CASE GetWsdlUrl(r)
  BY <1>4 DEF GetWsdlUrl
<1>5. CASE GetRequestTemplate(r)
  BY <1>5 DEF GetRequestTemplate
<1>6. CASE ChooseTemplate(r)
  BY <1>6 DEF ChooseTemplate
<1> QED
  BY <1>2, <1>3, <1>4, <1>5, <1>6

(* The call starts an instance of the process asked for, or none, and answers. *)
LEMMA TheCall ==
    ASSUME IInv, NEW r \in Requests, Invoke(r)
    PROVE  /\ Phase(r) = "open" /\ Phase(r)' = "answered"
           /\ \/ /\ UNCHANGED <<lost, started>>
                 /\ answer' = [answer EXCEPT ![r] = "FAIL"]
              \/ /\ call[r].processId \in Processes
                 /\ InstancesOf(r)' = <<call[r].processId>>
                 /\ \/ answer' = [answer EXCEPT ![r] = "SUCCESS"] /\ lost' = lost
                    \/ answer' = [answer EXCEPT ![r] = "FAIL"] /\ lost' = lost \cup {r}
<1>1. TypeOK /\ Found(r) /\ Outcome(r)
  BY DEF IInv
<1>2. pc[r] = "invoke" /\ pc'[r] = "done"
  BY <1>1 DEF Invoke, Answer, TypeOK
<1>3. Phase(r) = "open" /\ Phase(r)' = "answered"
  BY <1>2 DEF Phase
<1>4. ASSUME Starts(r) PROVE InstancesOf(r)' = <<call[r].processId>>
  <2> DEFINE i == [process |-> wsdlUrl[r], template |-> Template(r),
                   carried |-> Carried(Message(r), call[r].params)]
  <2>1. started[r] = <<>> /\ wsdlUrl[r] = call[r].processId
    BY <1>1, <1>2 DEF Outcome, Found
  <2>2. started'[r] = Append(started[r], i)
    BY <1>1, <1>4 DEF Starts, TypeOK
  <2>3. i.process = call[r].processId
    BY <2>1
  <2> HIDE DEF i
  <2>4. started'[r] = <<i>>
    BY <2>1, <2>2
  <2>5. DOMAIN started'[r] = 1 .. 1 /\ started'[r][1].process = call[r].processId
    BY <2>3, <2>4
  <2> QED
    BY <2>5 DEF InstancesOf
<1>5. call[r].processId \in Processes
  BY <1>1, <1>2, NamesAssumption DEF Found, TypeOK, NoUrl
<1> QED
  BY <1>3, <1>4, <1>5 DEF Invoke, Answer

(* Every step is a step of the promise, or is not seen there. *)
LEMMA PromiseStep == IInv /\ [Next]_vars => [Promise!Next]_(Promise!vars)
<1> SUFFICES ASSUME IInv, [Next]_vars PROVE [Promise!Next]_(Promise!vars)
  OBVIOUS
<1>1. ASSUME phases' = phases, asks' = asks, effects' = effects,
             lost' = lost, answer' = answer
      PROVE  UNCHANGED Promise!vars
  BY <1>1 DEF Promise!vars, phases, asks, effects
<1>2. ASSUME NEW r \in Requests, Receive(r) \/ Handler(r)
      PROVE  [Promise!Next]_(Promise!vars)
  <2>1. /\ asks' = asks
        /\ phases' = [phases EXCEPT ![r] = Phase(r)']
        /\ effects' = [effects EXCEPT ![r] = InstancesOf(r)']
    BY <1>2, ViewOfStep
  <2>2. phases[r] = Phase(r) /\ effects[r] = InstancesOf(r) /\ asks[r] = call[r].processId
    BY DEF phases, effects, asks
  <2>3. DOMAIN phases = Requests /\ DOMAIN effects = Requests
    BY DEF phases, effects
  <2>4. ASSUME started' = started PROVE effects' = effects
    BY <2>4 DEF effects, InstancesOf
  <2>5. ASSUME Phase(r) \in {"waiting", "open"}, Phase(r)' = "answered",
               UNCHANGED <<lost, started>>, answer' = [answer EXCEPT ![r] = "FAIL"]
        PROVE  Promise!Next
    <3>1. Promise!Refuse(r)
      BY <2>1, <2>2, <2>4, <2>5
         DEF Promise!Refuse, Promise!Close, phases, effects, asks
    <3> QED
      BY <3>1 DEF Promise!Next
  <2>6. CASE ~ Invoke(r)
    <3>1. /\ UNCHANGED <<lost, started>>
          /\ \/ /\ Phase(r) = "waiting" /\ Phase(r)' = "open" /\ answer' = answer
             \/ /\ Phase(r) \in {"waiting", "open"} /\ Phase(r)' = "answered"
                /\ answer' = [answer EXCEPT ![r] = "FAIL"]
             \/ /\ Phase(r)' = Phase(r) /\ answer' = answer
      BY <1>2, <2>6, BeforeTheCall DEF Handler
    <3>2. ASSUME Phase(r) = "waiting", Phase(r)' = "open", answer' = answer
          PROVE  Promise!Next
      <4>1. Promise!Open(r)
        BY <2>1, <2>2, <2>4, <3>1, <3>2 DEF Promise!Open, phases, effects, asks
      <4> QED
        BY <4>1 DEF Promise!Next
    <3>3. ASSUME Phase(r)' = Phase(r), answer' = answer PROVE UNCHANGED Promise!vars
      <4>1. phases' = phases
        BY <2>1, <2>2, <2>3, <3>3 DEF phases
      <4> QED
        BY <1>1, <2>1, <2>4, <3>1, <3>3, <4>1
    <3> QED
      BY <2>5, <3>1, <3>2, <3>3
  <2>7. CASE Invoke(r)
    <3>1. /\ Phase(r) = "open" /\ Phase(r)' = "answered"
          /\ \/ /\ UNCHANGED <<lost, started>>
                /\ answer' = [answer EXCEPT ![r] = "FAIL"]
             \/ /\ call[r].processId \in Processes
                /\ InstancesOf(r)' = <<call[r].processId>>
                /\ \/ answer' = [answer EXCEPT ![r] = "SUCCESS"] /\ lost' = lost
                   \/ answer' = [answer EXCEPT ![r] = "FAIL"] /\ lost' = lost \cup {r}
      BY <2>7, TheCall
    <3>2. ASSUME call[r].processId \in Processes, InstancesOf(r)' = <<call[r].processId>>
          PROVE  Promise!StartInstance(r)
      BY <2>1, <2>2, <3>1, <3>2 DEF Promise!StartInstance, phases, effects, asks
    <3>3. ASSUME NEW s, answer' = [answer EXCEPT ![r] = s] PROVE Promise!Close(r, s)
      BY <2>1, <2>2, <3>1, <3>3 DEF Promise!Close, phases, asks
    <3>4. Promise!Succeed(r) \/ Promise!LoseReply(r) \/ Promise!Next
      BY <2>5, <3>1, <3>2, <3>3 DEF Promise!Succeed, Promise!LoseReply
    <3> QED
      BY <3>4 DEF Promise!Next
  <2> QED
    BY <2>6, <2>7
<1>3. ASSUME NEW p \in Processes, Redeploy(p) PROVE UNCHANGED Promise!vars
  <2>1. UNCHANGED <<call, pc, started, lost, answer>>
    BY <1>3 DEF Redeploy
  <2> QED
    BY <1>1, <2>1 DEF phases, asks, effects, Phase, InstancesOf
<1>4. CASE UNCHANGED vars
  BY <1>1, <1>4 DEF phases, asks, effects, Phase, InstancesOf
<1> QED
  BY <1>2, <1>3, <1>4 DEF Next

(* A request takes effect once, on the process it asked for, in the step that
   answers it, whatever happens between its steps (BpsProcess.startProcess). *)
THEOREM PromiseKept == Spec => PromiseSpec
<1>1. Spec => Promise!Init /\ [][Promise!Next]_(Promise!vars)
  BY PromiseInit, PromiseStep, Inductive, PTL DEF Spec
<1> QED
  BY <1>1 DEF PromiseSpec, Promise!Spec
-----------------------------------------------------------------------------
(* Filling in the template: MessageFill                                    *)

ParamsOf(r) == {r.params} \cup {r.value[e] : e \in r.elements}

FillCalls(r) == [element : r.elements, params : ParamsOf(r), child : Nat \ {0}]

\* The text an element is to have in the end.
Expected(r, e) == IF r.kids[e] = <<>> /\ Fill!IsText(r.value[e])
                  THEN r.value[e].text ELSE r.text[e]

\* An element whose call has ended has its text, and its children had a call
\* unless there was nothing for them.
Finished(r, T, V, e) ==
    /\ T[e] = Expected(r, e)
    /\ \A j \in DOMAIN r.kids[e] : r.kids[e][j] \in V \/ r.value[r.kids[e][j]] = Fill!NoText

\* A call has the value of its element at hand and has made those of the
\* children before its own.
CallOK(r, V, c) ==
    /\ Fill!Get(c.params, r.name[c.element]) = r.value[c.element]
    /\ \A j \in 1..(c.child - 1) :
          j \in DOMAIN r.kids[c.element] => r.kids[c.element][j] \in V

Filling(r, T, C, V) ==
    /\ C \in Seq(FillCalls(r)) /\ V \subseteq r.elements /\ r.root \in V
    /\ DOMAIN T = r.elements
    /\ \A e \in r.elements : T[e] = r.text[e] \/ T[e] = Expected(r, e)
    /\ \A i \in DOMAIN C : CallOK(r, V, C[i])
    /\ \A e \in V : Finished(r, T, V, e) \/ \E i \in DOMAIN C : C[i].element = e

FillInv == request \in Bodies /\ Filling(request, text, calls, visited)

LEMMA NothingInNoText ==
    /\ ~Fill!IsMap(Fill!NoText) /\ ~Fill!IsText(Fill!NoText)
    /\ \A n : Fill!Get(Fill!NoText, n) = Fill!NoText
BY DEF Fill!IsMap, Fill!IsText, Fill!Get, Fill!NoText

(* An element's value, of its parent's.                                    *)
LEMMA ChildValue ==
    ASSUME NEW r, Fill!WellFormed(r), NEW e \in r.elements, NEW j \in DOMAIN r.kids[e]
    PROVE  LET child == r.kids[e][j] IN
           child \in r.elements /\ r.value[child] = Fill!Get(r.value[e], r.name[child])
BY DEF Fill!WellFormed

(* The call at the end ends, its element with its text.                    *)
LEMMA CallEnds ==
    ASSUME NEW r, NEW T, NEW C, NEW V, Filling(r, T, C, V), C # <<>>,
           NEW U, DOMAIN U = r.elements,
           \A e \in r.elements : e # C[Len(C)].element => U[e] = T[e],
           Finished(r, U, V, C[Len(C)].element)
    PROVE  Filling(r, U, SubSeq(C, 1, Len(C) - 1), V)
<1>1. C \in Seq(FillCalls(r)) /\ V \subseteq r.elements
  BY DEF Filling
<1>2. PICK n \in Nat \ {0} : n = Len(C)
  BY <1>1
<1> DEFINE B == SubSeq(C, 1, n - 1)
           last == C[n].element
<1>3. DOMAIN C = 1..n /\ n \in 1..n /\ C[n] \in FillCalls(r)
  BY <1>1, <1>2
<1>4. /\ B \in Seq(FillCalls(r)) /\ DOMAIN B = 1..(n - 1)
      /\ \A i \in 1..(n - 1) : B[i] = C[i] /\ i \in 1..n
  BY <1>1, <1>2
<1> HIDE DEF B
<1>5. last \in r.elements /\ U[last] = Expected(r, last) /\ Finished(r, U, V, last)
  BY <1>2, <1>3 DEF FillCalls, Finished
<1>6. \A e \in r.elements : e # last => U[e] = T[e]
  BY <1>2
<1> HIDE DEF last
<1>7. \A e \in r.elements : U[e] = r.text[e] \/ U[e] = Expected(r, e)
  BY <1>5, <1>6 DEF Filling
<1>8. \A i \in DOMAIN B : CallOK(r, V, B[i])
  BY <1>3, <1>4 DEF Filling
<1>9. ASSUME NEW e \in V PROVE Finished(r, U, V, e) \/ \E i \in DOMAIN B : B[i].element = e
  <2>1. CASE e = last
    BY <1>5, <2>1
  <2>2. CASE e # last /\ Finished(r, T, V, e)
    BY <1>1, <1>6, <2>2 DEF Finished
  <2>3. CASE e # last /\ \E i \in DOMAIN C : C[i].element = e
    <3>1. PICK i \in 1..n : C[i].element = e
      BY <1>3, <2>3
    <3>2. i # n
      BY <2>3, <3>1 DEF last
    <3>3. i \in 1..(n - 1)
      BY <3>2
    <3> QED
      BY <1>4, <3>1, <3>3
  <2> QED
    BY <2>1, <2>2, <2>3 DEF Filling
<1>10. B = SubSeq(C, 1, Len(C) - 1)
  BY <1>2 DEF B
<1> QED
  BY <1>4, <1>7, <1>8, <1>9, <1>10 DEF Filling

(* A call begins.                                                          *)
LEMMA CallBegins ==
    ASSUME NEW r, NEW T, NEW C, NEW V, Filling(r, T, C, V),
           NEW d \in FillCalls(r), CallOK(r, V, d)
    PROVE  Filling(r, T, Append(C, d), V \cup {d.element})
<1>1. C \in Seq(FillCalls(r)) /\ V \subseteq r.elements
  BY DEF Filling
<1>2. PICK n \in Nat : n = Len(C)
  BY <1>1
<1> DEFINE B == Append(C, d)
           W == V \cup {d.element}
<1>3. /\ B \in Seq(FillCalls(r)) /\ DOMAIN B = 1..(n + 1) /\ DOMAIN C = 1..n
      /\ B[n + 1] = d /\ \A i \in 1..n : B[i] = C[i]
  BY <1>1, <1>2
<1>4. d.element \in r.elements
  BY DEF FillCalls
<1> HIDE DEF B, W
<1>5. ASSUME NEW b, CallOK(r, V, b) PROVE CallOK(r, W, b)
  BY <1>5 DEF CallOK, W
<1>6. ASSUME NEW i \in DOMAIN B PROVE CallOK(r, W, B[i])
  <2>1. i \in 1..n \/ i = n + 1
    BY <1>3
  <2>2. CASE i \in 1..n
    BY <1>3, <1>5, <2>2 DEF Filling
  <2>3. CASE i = n + 1
    BY <1>3, <1>5, <2>3
  <2> QED
    BY <2>1, <2>2, <2>3
<1>7. ASSUME NEW e \in W PROVE Finished(r, T, W, e) \/ \E i \in DOMAIN B : B[i].element = e
  <2>1. CASE e = d.element
    <3>1. n + 1 \in DOMAIN B
      BY <1>3
    <3> QED
      BY <1>3, <2>1, <3>1
  <2>2. CASE Finished(r, T, V, e)
    BY <2>2 DEF Finished, W
  <2>3. CASE \E i \in DOMAIN C : C[i].element = e
    <3>1. PICK i \in 1..n : C[i].element = e
      BY <1>3, <2>3
    <3>2. i \in DOMAIN B
      BY <1>3
    <3> QED
      BY <1>3, <3>1, <3>2
  <2> QED
    BY <2>1, <2>2, <2>3 DEF Filling, W
<1>8. W \subseteq r.elements /\ r.root \in W
  BY <1>1, <1>4 DEF Filling, W
<1>9. Filling(r, T, B, W)
  BY <1>3, <1>6, <1>7, <1>8 DEF Filling
<1> QED
  BY <1>9 DEF B, W

(* The calls go on with the same elements.                                 *)
LEMMA CallsGoOn ==
    ASSUME NEW r, NEW T, NEW C, NEW V, Filling(r, T, C, V),
           NEW B \in Seq(FillCalls(r)), DOMAIN B = DOMAIN C,
           \A i \in DOMAIN C : B[i].element = C[i].element /\ CallOK(r, V, B[i])
    PROVE  Filling(r, T, B, V)
BY DEF Filling

(* The call at the end, as the handler sees it.                            *)
LEMMA ThisCall ==
    ASSUME FillInv, Fill!RequestsOK, calls # <<>>
    PROVE  LET c == calls[Len(calls)] IN
           /\ Len(calls) \in Nat \ {0} /\ Fill!This = c /\ c \in FillCalls(request)
           /\ Fill!Children = request.kids[c.element] /\ CallOK(request, visited, c)
           /\ Fill!CurrentParams(c) = request.value[c.element]
           /\ Len(Fill!Children) \in Nat /\ DOMAIN Fill!Children = 1..Len(Fill!Children)
           /\ \A i \in DOMAIN Fill!Children : Fill!Children[i] \in request.elements
<1> DEFINE c == calls[Len(calls)]
<1>1. calls \in Seq(FillCalls(request)) /\ Fill!WellFormed(request)
  BY DEF FillInv, Filling, Fill!RequestsOK
<1>2. Len(calls) \in Nat \ {0} /\ Len(calls) \in DOMAIN calls
  BY <1>1
<1>3. c \in FillCalls(request) /\ CallOK(request, visited, c)
  BY <1>1, <1>2 DEF FillInv, Filling
<1>4. Fill!This = c
  BY DEF Fill!This, Fill!Last
<1>5. Fill!Children = request.kids[c.element]
  BY <1>4 DEF Fill!Children
<1>6. Fill!Children \in Seq(request.elements)
  BY <1>1, <1>3, <1>5 DEF FillCalls, Fill!WellFormed
<1>7. Fill!CurrentParams(c) = request.value[c.element]
  BY <1>3 DEF Fill!CurrentParams, CallOK
<1> QED
  BY <1>2, <1>3, <1>4, <1>5, <1>6, <1>7

LEMMA FillStep ==
    ASSUME Fill!RequestsOK, FillInv, [Fill!Next]_(Fill!fillvars)
    PROVE  FillInv'
<1>1. request' = request
  BY DEF Fill!Next, Fill!SetParams, Fill!SetText, Fill!Return, Fill!fillvars
<1> DEFINE r == request
           n == Len(calls)
           c == calls[Len(calls)]
<1>2. Fill!WellFormed(r) /\ Filling(r, text, calls, visited) /\ request \in Bodies
  BY DEF FillInv, Fill!RequestsOK
<1>3. calls \in Seq(FillCalls(r))
  BY <1>2 DEF Filling
<1>4. SUFFICES Filling(r, text', calls', visited')
  BY <1>1, <1>2 DEF FillInv
<1>5. CASE Fill!SetParams
  <2> DEFINE child == Fill!Children[c.child]
             past == [calls EXCEPT ![n].child = @ + 1]
             d == [c EXCEPT !.child = @ + 1]
             new == [element |-> child, params |-> Fill!CurrentParams(c), child |-> 1]
  <2>1. calls # <<>>
    BY <1>5 DEF Fill!SetParams
  <2>2. /\ n \in Nat \ {0} /\ Fill!This = c /\ c \in FillCalls(r)
        /\ Fill!Children = r.kids[c.element] /\ CallOK(r, visited, c)
        /\ Fill!CurrentParams(c) = r.value[c.element]
        /\ Len(Fill!Children) \in Nat /\ DOMAIN Fill!Children = 1..Len(Fill!Children)
        /\ \A i \in DOMAIN Fill!Children : Fill!Children[i] \in r.elements
    BY <2>1, ThisCall
  <2>3. /\ c.child <= Len(Fill!Children) /\ text' = text
        /\ calls' = Append(past, new) /\ visited' = visited \cup {child}
    BY <1>5, <2>2 DEF Fill!SetParams, Fill!PastChild, Fill!Call
  <2>4. c.child \in DOMAIN r.kids[c.element] /\ child \in r.elements
        /\ c.element \in r.elements /\ child = r.kids[c.element][c.child]
    BY <2>2, <2>3 DEF FillCalls
  <2>5. d \in FillCalls(r) /\ d.element = c.element /\ d.params = c.params /\ d.child = c.child + 1
    BY <2>2 DEF FillCalls
  <2>6. /\ new \in FillCalls(r) /\ new.element = child /\ new.child = 1
        /\ new.params = Fill!Get(c.params, r.name[c.element])
    <3>1. Fill!CurrentParams(c) \in ParamsOf(r)
      BY <2>2, <2>4 DEF ParamsOf
    <3> QED
      BY <2>4, <3>1 DEF FillCalls, Fill!CurrentParams
  <2> DEFINE B == Append(calls, new)
             W == visited \cup {child}
  <2>7. PICK k \in Nat \ {0} : k = Len(calls)
    BY <2>2
  <2>8. past = [calls EXCEPT ![k] = d]
    BY <2>7
  <2> HIDE DEF d, child, new
  <2>9. /\ past \in Seq(FillCalls(r)) /\ Len(past) = k
        /\ \A i \in 1..k : past[i] = IF i = k THEN d ELSE calls[i]
    BY <1>3, <2>5, <2>7, <2>8, ExceptSeq
  <2>10. c = calls[k]
    BY <2>7
  <2> HIDE DEF past, c
  <2>11. /\ calls' \in Seq(FillCalls(r)) /\ DOMAIN calls' = 1..(k + 1)
         /\ calls'[k + 1] = new /\ \A i \in 1..k : calls'[i] = past[i]
    BY <2>3, <2>6, <2>9
  <2>12. /\ DOMAIN B = 1..(k + 1) /\ B[k + 1] = new
         /\ \A i \in 1..k : B[i] = calls[i]
    BY <1>3, <2>6, <2>7
  <2>13. CallOK(r, visited, new)
    <3>1. r.value[child] = Fill!Get(r.value[c.element], r.name[child])
      BY <1>2, <2>4, ChildValue
    <3>2. new.params = r.value[c.element]
      BY <2>2, <2>6 DEF CallOK
    <3>3. new.child - 1 = 0
      BY <2>6
    <3> QED
      BY <2>6, <3>1, <3>2, <3>3 DEF CallOK
  <2>14. Filling(r, text, B, W)
    BY <1>2, <2>6, <2>13, CallBegins
  <2>15. CallOK(r, W, d)
    <3>1. c.child \in Nat
      BY <2>2 DEF FillCalls
    <3>2. \A j \in 1..(d.child - 1) : j \in 1..(c.child - 1) \/ j = c.child
      BY <2>5, <3>1
    <3> QED
      BY <2>2, <2>4, <2>5, <3>2 DEF CallOK
  <2> HIDE DEF B
  <2>16. ASSUME NEW i \in DOMAIN B
         PROVE  calls'[i].element = B[i].element /\ CallOK(r, W, calls'[i])
    <3>1. CallOK(r, W, B[i])
      BY <2>14 DEF Filling
    <3>2. (i \in 1..k /\ i # k) \/ i = k \/ i = k + 1
      BY <2>12
    <3>3. CASE i \in 1..k /\ i # k
      BY <2>9, <2>11, <2>12, <3>1, <3>3
    <3>4. CASE i = k
      <4>1. k \in 1..k
        OBVIOUS
      <4>2. calls'[k] = d /\ B[k] = c
        BY <2>9, <2>10, <2>11, <2>12, <4>1
      <4> QED
        BY <2>5, <2>15, <3>4, <4>2
    <3>5. CASE i = k + 1
      BY <2>11, <2>12, <3>1, <3>5
    <3> QED
      BY <3>2, <3>3, <3>4, <3>5
  <2>17. Filling(r, text, calls', W)
    <3>1. DOMAIN calls' = DOMAIN B
      BY <2>11, <2>12
    <3> HIDE DEF W
    <3> QED
      BY <2>11, <2>14, <2>16, <3>1, CallsGoOn
  <2> QED
    BY <2>3, <2>17
<1>6. CASE Fill!SetText
  <2>1. calls # <<>> /\ visited' = visited /\ calls' = SubSeq(calls, 1, Len(calls) - 1)
    BY <1>6 DEF Fill!SetText, Fill!Front
  <2>2. /\ Fill!This = c /\ c \in FillCalls(r) /\ Fill!Children = r.kids[c.element]
        /\ Fill!CurrentParams(c) = r.value[c.element]
    BY <2>1, ThisCall
  <2>3. /\ r.kids[c.element] = <<>>
        /\ text' = IF Fill!IsText(r.value[c.element])
                   THEN [text EXCEPT ![c.element] = r.value[c.element].text] ELSE text
    BY <1>6, <2>2 DEF Fill!SetText
  <2>4. c.element \in r.elements
    BY <2>2 DEF FillCalls
  <2>5. /\ DOMAIN text' = r.elements
        /\ \A e \in r.elements : e # c.element => text'[e] = text[e]
        /\ text'[c.element] = Expected(r, c.element)
    <3>1. /\ DOMAIN text = r.elements
          /\ text[c.element] = r.text[c.element] \/ text[c.element] = Expected(r, c.element)
      BY <1>2, <2>4 DEF Filling
    <3>2. CASE Fill!IsText(r.value[c.element])
      BY <2>3, <2>4, <3>1, <3>2 DEF Expected
    <3>3. CASE ~Fill!IsText(r.value[c.element])
      BY <2>3, <2>4, <3>1, <3>3 DEF Expected
    <3> QED
      BY <3>2, <3>3
  <2>6. Finished(r, text', visited, c.element)
    BY <2>3, <2>5 DEF Finished
  <2>7. Filling(r, text', SubSeq(calls, 1, Len(calls) - 1), visited)
    BY <1>2, <2>1, <2>5, <2>6, CallEnds
  <2> QED
    BY <2>1, <2>7
<1>7. CASE Fill!Return
  <2>1. /\ calls # <<>> /\ visited' = visited /\ calls' = SubSeq(calls, 1, Len(calls) - 1)
        /\ text' = text
        /\ Fill!IsMap(Fill!This.params) =>
              Fill!Children # <<>> /\ Fill!This.child > Len(Fill!Children)
    BY <1>7 DEF Fill!Return, Fill!Front
  <2>2. /\ Fill!This = c /\ c \in FillCalls(r) /\ Fill!Children = r.kids[c.element]
        /\ CallOK(r, visited, c)
        /\ Len(Fill!Children) \in Nat /\ DOMAIN Fill!Children = 1..Len(Fill!Children)
    BY <2>1, ThisCall
  <2>3. c.element \in r.elements /\ c.child \in Nat \ {0}
    BY <2>2 DEF FillCalls
  <2>4. /\ DOMAIN text = r.elements
        /\ text[c.element] = r.text[c.element] \/ text[c.element] = Expected(r, c.element)
    BY <1>2, <2>3 DEF Filling
  <2> HIDE DEF c
  <2>5. Finished(r, text, visited, c.element)
    <3>1. CASE Fill!IsMap(c.params)
      <4>1. r.kids[c.element] # <<>> /\ c.child > Len(r.kids[c.element])
        BY <2>1, <2>2, <3>1
      <4>2. \A j \in DOMAIN r.kids[c.element] : j \in 1..(c.child - 1)
        BY <2>2, <2>3, <4>1
      <4> QED
        BY <2>2, <2>4, <4>1, <4>2 DEF Finished, CallOK, Expected
    <3>2. CASE ~Fill!IsMap(c.params)
      <4>1. r.value[c.element] = Fill!NoText
        <5>1. Fill!Get(c.params, r.name[c.element]) = Fill!NoText
          BY <3>2 DEF Fill!Get
        <5> QED
          BY <2>2, <5>1 DEF CallOK
      <4>2. Expected(r, c.element) = r.text[c.element]
        BY <4>1, NothingInNoText DEF Expected
      <4>3. \A j \in DOMAIN r.kids[c.element] : r.value[r.kids[c.element][j]] = Fill!NoText
        BY <1>2, <2>3, <4>1, ChildValue, NothingInNoText
      <4> QED
        BY <2>4, <4>2, <4>3 DEF Finished
    <3> QED
      BY <3>1, <3>2
  <2>6. Filling(r, text, SubSeq(calls, 1, Len(calls) - 1), visited)
    BY <1>2, <2>1, <2>4, <2>5, CallEnds DEF c
  <2> QED
    BY <2>1, <2>6
<1>8. CASE UNCHANGED Fill!fillvars
  BY <1>2, <1>8 DEF Fill!fillvars
<1> QED
  BY <1>5, <1>6, <1>7, <1>8 DEF Fill!Next

(* Each leaf of a request holds the string its path leads to in the        *)
(* parameters, and nothing else of the template changes, for templates and *)
(* parameters of any size and depth (setParams).                           *)
THEOREM FilledByPathTheorem == MessageSpec => []FilledByPath
<1> DEFINE Inv == stage = "filling" => FillInv
<1>0. Fill!RequestsOK
  BY MessagesAssumption
<1>1. FillInv => Fill!FilledByPath
  <2> SUFFICES ASSUME FillInv, calls = <<>>, NEW e \in request.elements
               PROVE  text[e] = Expected(request, e)
    BY DEF Fill!FilledByPath, Expected
  <2>1. Fill!WellFormed(request) /\ Filling(request, text, calls, visited)
    BY <1>0 DEF FillInv, Fill!RequestsOK
  <2> DEFINE S == {f \in request.elements : f \in visited \/ request.value[f] = Fill!NoText}
  <2>2. \A f \in visited : Finished(request, text, visited, f)
    BY <2>1 DEF Filling
  <2>3. request.root \in S
    BY <2>1 DEF Filling, Fill!WellFormed
  <2>4. ASSUME NEW f \in S, NEW i \in DOMAIN request.kids[f] PROVE request.kids[f][i] \in S
    <3>1. request.kids[f][i] \in request.elements
      BY <2>1, ChildValue
    <3>2. CASE f \in visited
      BY <2>2, <3>1, <3>2 DEF Finished
    <3>3. CASE request.value[f] = Fill!NoText
      BY <2>1, <3>1, <3>3, ChildValue, NothingInNoText
    <3> QED
      BY <3>2, <3>3
  <2>5. S = request.elements
    <3> HIDE DEF S
    <3>1. S \in SUBSET request.elements
      BY DEF S
    <3> QED
      BY <2>1, <2>3, <2>4, <3>1 DEF Fill!WellFormed
  <2>6. CASE e \in visited
    BY <2>2, <2>6 DEF Finished
  <2>7. CASE request.value[e] = Fill!NoText
    BY <2>1, <2>7, NothingInNoText DEF Filling, Expected
  <2> QED
    BY <2>5, <2>6, <2>7
<1>2. Fill!Init => FillInv
  <2> SUFFICES ASSUME Fill!Init PROVE FillInv
    OBVIOUS
  <2> DEFINE c == [element |-> request.root, params |-> request.params, child |-> 1]
  <2>1. /\ request \in Bodies /\ text = request.text /\ calls = <<c>>
        /\ visited = {request.root} /\ Fill!WellFormed(request)
    BY <1>0 DEF Fill!Init, Fill!Call, Fill!RequestsOK
  <2>2. c \in FillCalls(request) /\ CallOK(request, visited, c) /\ c.element = request.root
    <3>1. request.params \in ParamsOf(request) /\ request.root \in request.elements
      BY <2>1 DEF ParamsOf, Fill!WellFormed
    <3>2. c.child - 1 = 0
      OBVIOUS
    <3> QED
      BY <2>1, <3>1, <3>2 DEF FillCalls, CallOK, Fill!WellFormed
  <2> HIDE DEF c
  <2>3. calls \in Seq(FillCalls(request)) /\ DOMAIN calls = {1} /\ calls[1] = c
    BY <2>1, <2>2
  <2> QED
    BY <2>1, <2>2, <2>3 DEF FillInv, Filling, Fill!WellFormed
<1>3. FillInv /\ [Fill!Next]_(Fill!fillvars) => FillInv'
  BY <1>0, FillStep
<1>4. MessageInit => Inv
  BY <1>2 DEF MessageInit
<1>5. Inv /\ [MessageNext]_messagevars => Inv'
  <2> SUFFICES ASSUME Inv, [MessageNext]_messagevars, stage' = "filling" PROVE FillInv'
    OBVIOUS
  <2>1. stage = "filling" /\ [Fill!Next]_(Fill!fillvars)
    BY DEF MessageNext, FillIn, Convert, messagevars, fillside, Fill!fillvars
  <2> QED
    BY <1>3, <2>1
<1>6. Inv => FilledByPath
  BY <1>1 DEF FilledByPath
<1> HIDE DEF Inv
<1> QED
  BY <1>4, <1>5, <1>6, PTL DEF MessageSpec

-----------------------------------------------------------------------------
(* Converting the reply: MessageJson                                       *)

LEMMA OneFurther ==
    ASSUME NEW i \in Nat, NEW k \in Nat
    PROVE  /\ i < k + 1 <=> i < k \/ i = k
           /\ i >= k + 1 <=> i >= k /\ i # k
           /\ i < k + 1 <=> i <= k
OBVIOUS

LEMMA JsonIsMap ==
    ASSUME NEW r, Json!WellFormed(r), NEW c \in r.elements
    PROVE  Json!IsMap(r.json[c])
<1>1. PICK map : map = r.json[c].map
  OBVIOUS
<1>2. r.json[c] = [map |-> map]
  BY <1>1 DEF Json!WellFormed, Json!JsonOf
<1> QED
  BY <1>2 DEF Json!IsMap

(* A child and what it counts as.                                          *)
LEMMA ChildKind ==
    ASSUME NEW r, Json!WellFormed(r), NEW e \in r.elements, NEW k \in DOMAIN r.kids[e]
    PROVE  LET c == r.kids[e][k] IN
           /\ c \in r.elements /\ r.name[c] \in r.names /\ k \in Nat \ {0}
           /\ Len(r.kids[e]) \in Nat /\ k <= Len(r.kids[e])
           /\ \A n : k \in Json!TextsOf(r, e, n) <=> r.name[c] = n /\ r.text[c] # ""
           /\ \A n : k \in Json!NodesOf(r, e, n) <=>
                        r.name[c] = n /\ r.text[c] = "" /\ r.kids[c] # <<>>
<1>1. r.kids[e] \in Seq(r.elements) /\ r.name \in [r.elements -> r.names]
  BY DEF Json!WellFormed
<1>2. r.kids[e][k] \in r.elements /\ k \in Nat \ {0} /\ Len(r.kids[e]) \in Nat
      /\ k <= Len(r.kids[e])
  BY <1>1
<1>3. r.name[r.kids[e][k]] \in r.names
  BY <1>1, <1>2
<1>4. \A n : k \in Json!TextsOf(r, e, n) <=>
                r.name[r.kids[e][k]] = n /\ r.text[r.kids[e][k]] # ""
  BY DEF Json!TextsOf
<1>5. \A n : k \in Json!NodesOf(r, e, n) <=>
                /\ r.name[r.kids[e][k]] = n
                /\ r.text[r.kids[e][k]] = "" /\ r.kids[r.kids[e][k]] # <<>>
  BY DEF Json!NodesOf
<1> QED
  BY <1>2, <1>3, <1>4, <1>5

\* order is the increasing sequence of N.
Places(T, N, order) ==
    /\ T \subseteq Nat /\ N \subseteq Nat /\ order \in Seq(N)
    /\ \A i \in N : \E j \in DOMAIN order : order[j] = i
    /\ \A i, j \in DOMAIN order : i < j => order[i] < order[j]

LEMMA PlacesOf ==
    ASSUME NEW r, Json!WellFormed(r), NEW e \in r.elements, NEW n \in r.names
    PROVE  Places(Json!TextsOf(r, e, n), Json!NodesOf(r, e, n), r.order[e][n])
<1>1. r.kids[e] \in Seq(r.elements)
  BY DEF Json!WellFormed
<1>2. DOMAIN r.kids[e] \subseteq Nat
  BY <1>1
<1>3. Json!TextsOf(r, e, n) \subseteq Nat /\ Json!NodesOf(r, e, n) \subseteq Nat
  BY <1>2, Zenon DEF Json!TextsOf, Json!NodesOf
<1> QED
  BY <1>3 DEF Json!WellFormed, Places

LEMMA PlaceTyped ==
    ASSUME NEW T, NEW N, NEW order, Places(T, N, order)
    PROVE  /\ Len(order) \in Nat /\ DOMAIN order = 1..Len(order)
           /\ \A j \in DOMAIN order : j \in Nat \ {0} /\ order[j] \in N /\ order[j] \in Nat
<1>1. order \in Seq(N) /\ N \subseteq Nat
  BY DEF Places
<1>2. Len(order) \in Nat /\ DOMAIN order = 1..Len(order)
  BY <1>1
<1>3. \A j \in DOMAIN order : order[j] \in N
  BY <1>1
<1>4. \A j \in DOMAIN order : j \in Nat \ {0}
  BY <1>2
<1>5. \A j \in DOMAIN order : order[j] \in Nat
  BY <1>1, <1>3, Zenon
<1> QED
  BY <1>2, <1>3, <1>4, <1>5

(* The place after those before k is that of k.                            *)
LEMMA NextPlace ==
    ASSUME NEW T, NEW N, NEW order, Places(T, N, order), NEW k \in N,
           NEW m \in Nat, \A j \in DOMAIN order : order[j] < k <=> j <= m
    PROVE  /\ m + 1 \in DOMAIN order /\ order[m + 1] = k
           /\ \A j \in DOMAIN order : order[j] < k + 1 <=> j <= m + 1
<1>1. /\ Len(order) \in Nat /\ DOMAIN order = 1..Len(order)
      /\ \A j \in DOMAIN order : j \in Nat \ {0} /\ order[j] \in N /\ order[j] \in Nat
  BY PlaceTyped
<1>2. \A i, j \in DOMAIN order : i < j => order[i] < order[j]
  BY DEF Places
<1>3. k \in Nat
  BY DEF Places
<1>4. PICK j0 \in DOMAIN order : order[j0] = k
  BY DEF Places
<1>5. j0 \in Nat /\ j0 <= Len(order) /\ j0 > m
  BY <1>1, <1>3, <1>4
<1>6. m + 1 \in DOMAIN order
  BY <1>1, <1>5
<1>7. ~(m + 1 < j0)
  <2>1. m + 1 < j0 => order[m + 1] < k
    BY <1>2, <1>4, <1>6
  <2>2. ~(order[m + 1] < k)
    BY <1>6
  <2> QED
    BY <2>1, <2>2
<1>8. order[m + 1] = k
  <2>1. j0 = m + 1
    BY <1>5, <1>7
  <2> QED
    BY <1>4, <2>1
<1>9. ASSUME NEW j \in DOMAIN order PROVE order[j] < k + 1 <=> j <= m + 1
  <2>1. j \in Nat /\ order[j] \in Nat
    BY <1>1
  <2>2. m + 1 < j => k < order[j]
    BY <1>2, <1>6, <1>8
  <2>3. order[j] < k <=> j <= m
    OBVIOUS
  <2>4. j = m + 1 => order[j] = k
    BY <1>8
  <2> QED
    BY <1>3, <2>1, <2>2, <2>3, <2>4
<1> QED
  BY <1>6, <1>8, <1>9

(* If nothing is before k, k has the first place.                          *)
LEMMA FirstPlace ==
    ASSUME NEW T, NEW N, NEW order, Places(T, N, order), NEW k \in N,
           \A i \in N : ~(i < k)
    PROVE  /\ 1 \in DOMAIN order /\ order[1] = k
           /\ \A j \in DOMAIN order : order[j] < k + 1 <=> j <= 1
<1>1. \A j \in DOMAIN order : j \in Nat \ {0} /\ order[j] \in N
  BY PlaceTyped
<1>2. \A j \in DOMAIN order : order[j] < k <=> j <= 0
  BY <1>1
<1> QED
  BY <1>2, NextPlace

(* Texts up to the k-th child, which is none of them.                      *)
LEMMA TextsBefore ==
    ASSUME NEW T, T \subseteq Nat, NEW k \in Nat, k \notin T
    PROVE  \A i \in T : (i < k + 1 <=> i < k) /\ (i >= k + 1 <=> i >= k) /\ (~(i < k) => i >= k + 1)
OBVIOUS

LEMMA OneMore ==
    ASSUME NEW S, NEW L \in Seq(S), NEW x
    PROVE  Append(L, x) = [j \in 1..(Len(L) + 1) |-> IF j <= Len(L) THEN L[j] ELSE x]
<1>1. PICK B : B = Append(L, x)
  OBVIOUS
<1>2. PICK k \in Nat : k = Len(L)
  OBVIOUS
<1>3. L \in Seq(S \cup {x})
  OBVIOUS
<1>4. /\ B \in Seq(S \cup {x}) /\ Len(B) = k + 1 /\ B[k + 1] = x
      /\ \A j \in 1..k : B[j] = L[j]
  BY <1>1, <1>2, <1>3, AppendProperties
<1>5. B = [j \in 1..(k + 1) |-> B[j]]
  BY <1>4
<1>6. \A j \in 1..(k + 1) : B[j] = IF j <= k THEN L[j] ELSE x
  <2> SUFFICES ASSUME NEW j \in 1..(k + 1) PROVE B[j] = IF j <= k THEN L[j] ELSE x
    OBVIOUS
  <2>1. CASE j <= k
    BY <1>4, <2>1
  <2>2. CASE j = k + 1
    BY <1>4, <2>2
  <2> QED
    BY <2>1, <2>2
<1> QED
  BY <1>1, <1>2, <1>5, <1>6

LEMMA NodesAreMaps ==
    ASSUME NEW r, Json!WellFormed(r), NEW e \in r.elements, NEW n \in r.names,
           NEW j \in DOMAIN r.order[e][n]
    PROVE  Json!IsMap(r.json[r.kids[e][r.order[e][n][j]]])
<1>1. PICK i : i \in Json!NodesOf(r, e, n) /\ i = r.order[e][n][j]
  BY PlacesOf, PlaceTyped
<1>2. i \in DOMAIN r.kids[e]
  BY <1>1 DEF Json!NodesOf
<1>3. r.kids[e][i] \in r.elements
  BY <1>2, ChildKind
<1> QED
  BY <1>1, <1>3, JsonIsMap

LEMMA KindsOfValue ==
    ASSUME NEW r, Json!WellFormed(r), NEW e \in r.elements, NEW n \in r.names,
           NEW k, NEW v
    PROVE  /\ Json!FromText(r, e, k, n, v) => ~Json!IsMap(v) /\ ~Json!IsList(v)
           /\ Json!FromNodes(r, e, k, n, v) => Json!IsMap(v) \/ Json!IsList(v)
<1>1. Json!FromText(r, e, k, n, v) => ~Json!IsMap(v) /\ ~Json!IsList(v)
  BY DEF Json!FromText, Json!IsMap, Json!IsList
<1>2. ASSUME Json!FromNodes(r, e, k, n, v) PROVE Json!IsMap(v) \/ Json!IsList(v)
  <2> DEFINE order == r.order[e][n]
  <2>1. PICK m \in DOMAIN order : v = Json!NodeValue(r, e, order, m)
    BY <1>2 DEF Json!FromNodes
  <2>2. PICK json : json = r.json[r.kids[e][order[m]]] /\ Json!IsMap(json)
    BY NodesAreMaps
  <2> HIDE DEF order
  <2>4. CASE m = 1
    BY <2>1, <2>2, <2>4 DEF Json!NodeValue
  <2>3. CASE m # 1
    BY <2>1, <2>3 DEF Json!NodeValue, Json!IsList
  <2> QED
    BY <2>3, <2>4
<1> QED
  BY <1>1, <1>2

(* What becomes of a name at a child of another name.                      *)
LEMMA OtherChild ==
    ASSUME NEW r, Json!WellFormed(r), NEW e \in r.elements, NEW n \in r.names,
           NEW k \in Nat, k \notin Json!TextsOf(r, e, n), k \notin Json!NodesOf(r, e, n),
           NEW v
    PROVE  /\ Json!FromText(r, e, k, n, v) => Json!FromText(r, e, k + 1, n, v)
           /\ Json!FromNodes(r, e, k, n, v) => Json!FromNodes(r, e, k + 1, n, v)
<1> DEFINE order == r.order[e][n]
           T == Json!TextsOf(r, e, n)
           N == Json!NodesOf(r, e, n)
<1>1. Places(T, N, order)
  BY PlacesOf
<1>2. k \notin T /\ k \notin N
  OBVIOUS
<1> HIDE DEF T, N, order
<1>3. \A i \in T : (i < k + 1 <=> i < k) /\ (i >= k + 1 <=> i >= k)
  BY <1>1, <1>2, TextsBefore DEF Places
<1>4. ASSUME NEW j \in DOMAIN order PROVE order[j] < k + 1 <=> order[j] < k
  <2>1. order[j] \in N /\ order[j] \in Nat
    BY <1>1, PlaceTyped
  <2> QED
    BY <1>2, <2>1
<1>5. Json!FromText(r, e, k, n, v) => Json!FromText(r, e, k + 1, n, v)
  BY <1>3 DEF Json!FromText, T
<1>6. Json!FromNodes(r, e, k, n, v) => Json!FromNodes(r, e, k + 1, n, v)
  BY <1>3, <1>4 DEF Json!FromNodes, T, order
<1> QED
  BY <1>5, <1>6

(* A text is what its name has from there on.                              *)
LEMMA TextChild ==
    ASSUME NEW r, Json!WellFormed(r), NEW e \in r.elements, NEW n \in r.names,
           NEW k \in Json!TextsOf(r, e, n)
    PROVE  Json!FromText(r, e, k + 1, n, [text |-> r.read[r.kids[e][k]]])
<1> DEFINE T == Json!TextsOf(r, e, n)
<1>1. T \subseteq Nat /\ k \in T
  BY PlacesOf DEF Places
<1> HIDE DEF T
<1>2. k < k + 1 /\ \A j \in T : j < k + 1 => j <= k
  <2>1. k \in Nat
    BY <1>1
  <2> QED
    BY <1>1, <2>1, OneFurther
<1> QED
  BY <1>1, <1>2 DEF Json!FromText, T

(* A text hides a child with children.                                     *)
LEMMA HiddenChild ==
    ASSUME NEW r, Json!WellFormed(r), NEW e \in r.elements, NEW n \in r.names,
           NEW k \in Nat, k \notin Json!TextsOf(r, e, n),
           NEW v, Json!FromText(r, e, k, n, v)
    PROVE  Json!FromText(r, e, k + 1, n, v)
<1> DEFINE T == Json!TextsOf(r, e, n)
<1>1. T \subseteq Nat /\ k \notin T
  BY PlacesOf DEF Places
<1> HIDE DEF T
<1>2. \A i \in T : i < k + 1 <=> i < k
  BY <1>1, TextsBefore
<1> QED
  BY <1>2 DEF Json!FromText, T

(* The first child of its name, with children.                             *)
LEMMA FirstChild ==
    ASSUME NEW r, Json!WellFormed(r), NEW e \in r.elements, NEW n \in r.names,
           NEW k \in Json!NodesOf(r, e, n), k \notin Json!TextsOf(r, e, n),
           n \notin Json!NamesIn(r, e, k)
    PROVE  Json!FromNodes(r, e, k + 1, n, r.json[r.kids[e][k]])
<1> DEFINE order == r.order[e][n]
           T == Json!TextsOf(r, e, n)
           N == Json!NodesOf(r, e, n)
<1>1. Places(T, N, order)
  BY PlacesOf
<1>2. k \in N /\ k \notin T /\ \A i \in T \cup N : ~(i < k)
  BY DEF Json!NamesIn
<1> HIDE DEF T, N, order
<1>3. /\ 1 \in DOMAIN order /\ order[1] = k
      /\ \A j \in DOMAIN order : order[j] < k + 1 <=> j <= 1
  BY <1>1, <1>2, FirstPlace
<1>4. \A i \in T : i >= k + 1
  <2>1. k \in Nat /\ T \subseteq Nat
    BY <1>1, <1>2 DEF Places
  <2> QED
    BY <1>2, <2>1, TextsBefore
<1>5. r.json[r.kids[e][k]] = Json!NodeValue(r, e, order, 1)
  BY <1>3 DEF Json!NodeValue
<1> QED
  BY <1>3, <1>4, <1>5 DEF Json!FromNodes, T, order

\* What a name has after another child with children.
Joined(v, json) == IF Json!IsMap(v) THEN [list |-> <<v, json>>]
                   ELSE [list |-> Append(v.list, json)]

(* Their value with one more.                                              *)
LEMMA JoinedValue ==
    ASSUME NEW r, NEW e, NEW order, NEW m \in Nat \ {0},
           \A j \in 1..m : Json!IsMap(r.json[r.kids[e][order[j]]])
    PROVE  Joined(Json!NodeValue(r, e, order, m), r.json[r.kids[e][order[m + 1]]])
              = Json!NodeValue(r, e, order, m + 1)
<1> DEFINE J(j) == r.json[r.kids[e][order[j]]]
           json == J(m + 1)
           v == Json!NodeValue(r, e, order, m)
<1>1. v = IF m = 1 THEN J(1) ELSE [list |-> [j \in 1..m |-> J(j)]]
  BY DEF Json!NodeValue
<1>2. Json!NodeValue(r, e, order, m + 1) = [list |-> [j \in 1..(m + 1) |-> J(j)]]
  BY DEF Json!NodeValue
<1>3. Json!IsMap(J(1))
  OBVIOUS
<1> HIDE DEF J, v
<1>4. CASE m = 1
  <2>1. Json!IsMap(v) /\ v = J(1) /\ json = J(2)
    BY <1>1, <1>3, <1>4
  <2>2. PICK F : F = [j \in 1..2 |-> J(j)]
    OBVIOUS
  <2>3. F[1] = v /\ F[2] = json
    BY <2>1, <2>2
  <2>4. <<v, json>> = F
    BY <2>2, <2>3
  <2>5. Joined(v, json) = Json!NodeValue(r, e, order, m + 1)
    BY <1>2, <1>4, <2>1, <2>2, <2>4 DEF Joined
  <2> QED
    BY <2>5 DEF v, J
<1>5. CASE m # 1
  <2>1. PICK L : L = [j \in 1..m |-> J(j)]
    OBVIOUS
  <2>2. v = [list |-> L] /\ ~Json!IsMap(v)
    BY <1>1, <1>5, <2>1 DEF Json!IsMap
  <2>3. L \in Seq({J(j) : j \in 1..m}) /\ Len(L) = m
    BY <2>1
  <2>4. Append(L, json) = [j \in 1..(m + 1) |-> IF j <= m THEN L[j] ELSE json]
    BY <2>3, OneMore
  <2>5. \A j \in 1..(m + 1) : (IF j <= m THEN L[j] ELSE json) = J(j)
    BY <2>1
  <2>6. Append(L, json) = [j \in 1..(m + 1) |-> J(j)]
    BY <2>4, <2>5
  <2>7. Joined(v, json) = Json!NodeValue(r, e, order, m + 1)
    BY <1>2, <2>2, <2>6 DEF Joined
  <2> QED
    BY <2>7 DEF v, J
<1> QED
  BY <1>4, <1>5

(* Another child of its name, with children.                               *)
LEMMA NextChild ==
    ASSUME NEW r, Json!WellFormed(r), NEW e \in r.elements, NEW n \in r.names,
           NEW k \in Json!NodesOf(r, e, n), k \notin Json!TextsOf(r, e, n),
           NEW v, Json!FromNodes(r, e, k, n, v)
    PROVE  Json!FromNodes(r, e, k + 1, n, Joined(v, r.json[r.kids[e][k]]))
<1> DEFINE order == r.order[e][n]
           T == Json!TextsOf(r, e, n)
           N == Json!NodesOf(r, e, n)
           json == r.json[r.kids[e][k]]
<1>1. Places(T, N, order)
  BY PlacesOf
<1>2. k \in N /\ k \notin T /\ \A i \in T : i >= k
  BY DEF Json!FromNodes
<1>3. PICK m \in DOMAIN order :
         /\ \A j \in DOMAIN order : order[j] < k <=> j <= m
         /\ v = Json!NodeValue(r, e, order, m)
  BY DEF Json!FromNodes
<1>4. \A j \in DOMAIN order : Json!IsMap(r.json[r.kids[e][order[j]]])
  BY NodesAreMaps
<1> HIDE DEF T, N, order
<1>5. m \in Nat \ {0} /\ DOMAIN order = 1..Len(order) /\ Len(order) \in Nat
  BY <1>1, PlaceTyped
<1>6. /\ m + 1 \in DOMAIN order /\ order[m + 1] = k
      /\ \A j \in DOMAIN order : order[j] < k + 1 <=> j <= m + 1
  BY <1>1, <1>2, <1>3, <1>5, NextPlace
<1>7. \A i \in T : i >= k + 1
  <2>1. k \in Nat /\ T \subseteq Nat
    BY <1>1, <1>2 DEF Places
  <2>2. \A i \in T : i >= k + 1 <=> i >= k
    BY <1>2, <2>1, TextsBefore
  <2> QED
    BY <1>2, <2>2
<1>8. \A j \in 1..m : j \in DOMAIN order
  BY <1>5
<1>9. Joined(v, json) = Json!NodeValue(r, e, order, m + 1)
  BY <1>3, <1>4, <1>5, <1>6, <1>8, JoinedValue
<1> HIDE DEF json
<1> QED
  BY <1>6, <1>7, <1>9 DEF Json!FromNodes, T, order, json

\* v is what the children named n before the k-th come to.
Comes(r, e, k, n, v) == Json!FromText(r, e, k, n, v) \/ Json!FromNodes(r, e, k, n, v)

\* The k-th child is one of those n stands for.
Counts(r, e, n, k) == k \in Json!TextsOf(r, e, n) \cup Json!NodesOf(r, e, n)

LEMMA CountsForName ==
    ASSUME NEW r, NEW e, NEW k, NEW n, Counts(r, e, n, k)
    PROVE  n = r.name[r.kids[e][k]]
BY DEF Counts, Json!TextsOf, Json!NodesOf

LEMMA NodeKind ==
    ASSUME NEW r, Json!WellFormed(r), NEW e \in r.elements, NEW n,
           NEW k \in Json!NodesOf(r, e, n)
    PROVE  /\ n = r.name[r.kids[e][k]] /\ n \in r.names /\ k \in Nat
           /\ k \notin Json!TextsOf(r, e, n) /\ Counts(r, e, n, k)
<1>1. k \in DOMAIN r.kids[e] /\ n = r.name[r.kids[e][k]] /\ k \notin Json!TextsOf(r, e, n)
  BY DEF Json!TextsOf, Json!NodesOf
<1>2. r.name[r.kids[e][k]] \in r.names /\ k \in Nat
  BY <1>1, ChildKind
<1> QED
  BY <1>1, <1>2 DEF Counts

(* The names among the children up to the k-th.                            *)
LEMMA NamesAfter ==
    ASSUME NEW r, Json!WellFormed(r), NEW e \in r.elements, NEW k \in DOMAIN r.kids[e]
    PROVE  Json!NamesIn(r, e, k + 1) = Json!NamesIn(r, e, k) \cup {n \in r.names : Counts(r, e, n, k)}
<1>1. ASSUME NEW n \in r.names
      PROVE  n \in Json!NamesIn(r, e, k + 1) <=> n \in Json!NamesIn(r, e, k) \/ Counts(r, e, n, k)
  <2> DEFINE S == Json!TextsOf(r, e, n) \cup Json!NodesOf(r, e, n)
  <2>1. S \subseteq Nat
    BY PlacesOf DEF Places
  <2>2. k \in Nat
    BY ChildKind
  <2> HIDE DEF S
  <2>3. (\E i \in S : i < k + 1) <=> (\E i \in S : i < k) \/ k \in S
    BY <2>1, <2>2, OneFurther
  <2> QED
    BY <2>3 DEF Json!NamesIn, Counts, S
<1>2. Json!NamesIn(r, e, k + 1) \subseteq r.names /\ Json!NamesIn(r, e, k) \subseteq r.names
  BY DEF Json!NamesIn
<1> QED
  BY <1>1, <1>2

LEMMA PlaceIsNat ==
    ASSUME NEW r, Json!WellFormed(r), NEW e \in r.elements, NEW k \in DOMAIN r.kids[e]
    PROVE  k \in Nat
BY ChildKind

LEMMA MadeDomain ==
    ASSUME NEW r, NEW e, NEW k, NEW map, Json!MadeOf(r, e, k, map)
    PROVE  DOMAIN map = Json!NamesIn(r, e, k)
<1>1. map = [n \in Json!NamesIn(r, e, k) |-> map[n]]
  BY DEF Json!MadeOf
<1> QED
  BY <1>1, Zenon

LEMMA MadeValue ==
    ASSUME NEW r, NEW e, NEW k, NEW map, Json!MadeOf(r, e, k, map),
           NEW n \in Json!NamesIn(r, e, k)
    PROVE  Comes(r, e, k, n, map[n])
BY Zenon DEF Json!MadeOf, Comes

LEMMA MadeIf ==
    ASSUME NEW r, NEW e, NEW k, NEW map, map = [n \in Json!NamesIn(r, e, k) |-> map[n]],
           \A n \in Json!NamesIn(r, e, k) : Comes(r, e, k, n, map[n])
    PROVE  Json!MadeOf(r, e, k, map)
BY Zenon DEF Json!MadeOf, Comes

(* A name's value at a child of another name is still right after it.      *)
LEMMA OtherNamesKept ==
    ASSUME NEW r, Json!WellFormed(r), NEW e \in r.elements, NEW k \in DOMAIN r.kids[e],
           NEW map, Json!MadeOf(r, e, k, map),
           NEW x \in Json!NamesIn(r, e, k), ~Counts(r, e, x, k)
    PROVE  Comes(r, e, k + 1, x, map[x])
<1>1. Comes(r, e, k, x, map[x])
  BY MadeValue
<1>2. x \in r.names /\ k \notin Json!TextsOf(r, e, x) /\ k \notin Json!NodesOf(r, e, x)
  BY DEF Json!NamesIn, Counts
<1>3. k \in Nat
  BY PlaceIsNat, Zenon
<1> QED
  BY <1>1, <1>2, <1>3, OtherChild DEF Comes


(* The k-th child joins the map.                                           *)
LEMMA MadeWith ==
    ASSUME NEW r, Json!WellFormed(r), NEW e \in r.elements, NEW k \in DOMAIN r.kids[e],
           NEW map, Json!MadeOf(r, e, k, map), NEW n, n = r.name[r.kids[e][k]],
           Counts(r, e, n, k), NEW v,
           Comes(r, e, k + 1, n, v)
    PROVE  Json!MadeOf(r, e, k + 1, Json!Put(map, n, v))
<1> DEFINE P == Json!Put(map, n, v)
           D == Json!NamesIn(r, e, k)
           E == Json!NamesIn(r, e, k + 1)
<1>1. DOMAIN map = D
  BY MadeDomain
<1>2. P = [x \in D \cup {n} |-> IF x = n THEN v ELSE map[x]]
  BY <1>1 DEF Json!Put
<1>3. n \in r.names
  BY ChildKind
<1>4. \A x : Counts(r, e, x, k) => x = n
  BY CountsForName
<1>5. E = D \cup {n}
  <2>1. {x \in r.names : Counts(r, e, x, k)} = {n}
    BY <1>3, <1>4
  <2> QED
    BY <2>1, NamesAfter
<1>6. ASSUME NEW x \in D, x # n
      PROVE  Comes(r, e, k + 1, x, map[x])
  <2>1. ~Counts(r, e, x, k)
    BY <1>4, <1>6, Zenon
  <2> QED
    BY <2>1, OtherNamesKept
<1> HIDE DEF P, D, E
<1>7. P = [x \in E |-> P[x]]
  BY <1>2, <1>5
<1>8. ASSUME NEW x \in E
      PROVE  Comes(r, e, k + 1, x, P[x])
  <2>1. CASE x = n
    <3>1. P[x] = v
      BY <1>2, <2>1
    <3> QED
      BY <2>1, <3>1, Zenon
  <2>2. CASE x # n
    <3>1. x \in D /\ P[x] = map[x]
      BY <1>2, <1>5, <2>2
    <3>2. Comes(r, e, k + 1, x, map[x])
      BY <1>6, <2>2, <3>1, Zenon
    <3> QED
      BY <3>1, <3>2, Zenon
  <2> QED
    BY <2>1, <2>2
<1> QED
  BY <1>7, <1>8, MadeIf DEF P, E

(* A text joins the map.                                                   *)
LEMMA MadePutting ==
    ASSUME NEW r, Json!WellFormed(r), NEW e \in r.elements, NEW k \in DOMAIN r.kids[e],
           NEW map, Json!MadeOf(r, e, k, map), NEW c, c = r.kids[e][k], r.text[c] # ""
    PROVE  Json!MadeOf(r, e, k + 1, Json!Put(map, r.name[c], [text |-> r.read[c]]))
<1> DEFINE v == [text |-> r.read[c]]
           n == r.name[c]
<1>1. k \in Json!TextsOf(r, e, n)
  BY DEF Json!TextsOf
<1>2. n \in r.names
  BY ChildKind
<1>3. Json!FromText(r, e, k + 1, n, v)
  BY <1>1, <1>2, TextChild
<1> HIDE DEF v, n
<1>4. Comes(r, e, k + 1, n, v)
  BY <1>3 DEF Comes
<1>5. Counts(r, e, n, k)
  BY <1>1 DEF Counts
<1>6. n = r.name[r.kids[e][k]]
  BY DEF n
<1>7. Json!MadeOf(r, e, k + 1, Json!Put(map, n, v))
  BY <1>4, <1>5, <1>6, MadeWith
<1> QED
  BY <1>7 DEF v, n

(* A child that counts for nothing.                                        *)
LEMMA MadeWithout ==
    ASSUME NEW r, Json!WellFormed(r), NEW e \in r.elements, NEW k \in DOMAIN r.kids[e],
           NEW map, Json!MadeOf(r, e, k, map), \A n \in r.names : ~Counts(r, e, n, k)
    PROVE  Json!MadeOf(r, e, k + 1, map)
<1>1. Json!NamesIn(r, e, k + 1) = Json!NamesIn(r, e, k)
  <2> DEFINE S == {n \in r.names : Counts(r, e, n, k)}
  <2>1. S = {}
    OBVIOUS
  <2>2. Json!NamesIn(r, e, k + 1) = Json!NamesIn(r, e, k) \cup S
    BY NamesAfter
  <2> HIDE DEF S
  <2> QED
    BY <2>1, <2>2
<1>2. \A x \in Json!NamesIn(r, e, k) : ~Counts(r, e, x, k)
  BY DEF Json!NamesIn
<1>3. \A x \in Json!NamesIn(r, e, k) :
         Comes(r, e, k + 1, x, map[x])
  BY <1>2, OtherNamesKept
<1>4. map = [x \in Json!NamesIn(r, e, k) |-> map[x]]
  BY DEF Json!MadeOf
<1> QED
  BY <1>1, <1>3, <1>4, MadeIf

(* A child hidden by a text of its name.                                   *)
LEMMA MadeHiding ==
    ASSUME NEW r, Json!WellFormed(r), NEW e \in r.elements, NEW k \in DOMAIN r.kids[e],
           NEW map, Json!MadeOf(r, e, k, map), NEW n, k \in Json!NodesOf(r, e, n),
           n \in DOMAIN map, ~Json!IsMap(map[n]), ~Json!IsList(map[n])
    PROVE  Json!MadeOf(r, e, k + 1, map)
<1> DEFINE D == Json!NamesIn(r, e, k)
<1>1. n \in D /\ n \in r.names /\ k \in Nat /\ k \notin Json!TextsOf(r, e, n)
  BY MadeDomain, NodeKind
<1>2. \A x : Counts(r, e, x, k) => x = n
  BY CountsForName, NodeKind
<1>3. Json!NamesIn(r, e, k + 1) = D
  <2> DEFINE S == {x \in r.names : Counts(r, e, x, k)}
  <2>1. S \subseteq D
    BY <1>1, <1>2
  <2>2. Json!NamesIn(r, e, k + 1) = D \cup S
    BY NamesAfter
  <2> HIDE DEF D, S
  <2> QED
    BY <2>1, <2>2
<1>5. Json!FromText(r, e, k + 1, n, map[n])
  <2>1. Json!FromText(r, e, k, n, map[n])
    <3>1. Comes(r, e, k, n, map[n])
      BY <1>1, MadeValue
    <3> QED
      BY <1>1, <3>1, KindsOfValue DEF Comes
  <2> QED
    BY <1>1, <2>1, HiddenChild
<1>6. ASSUME NEW x \in D
      PROVE  Comes(r, e, k + 1, x, map[x])
  <2>2. CASE Counts(r, e, x, k)
    <3>1. x = n
      BY <1>2, <2>2
    <3> QED
      BY <1>5, <3>1 DEF Comes
  <2>3. CASE ~Counts(r, e, x, k)
    BY <2>3, OtherNamesKept, Zenon
  <2> QED
    BY <2>2, <2>3
<1>7. map = [x \in D |-> map[x]]
  BY DEF Json!MadeOf
<1> HIDE DEF D
<1> QED
  BY <1>3, <1>6, <1>7, MadeIf DEF D

(* A child with children joins the map.                                    *)
LEMMA MadeAdding ==
    ASSUME NEW r, Json!WellFormed(r), NEW e \in r.elements, NEW k \in DOMAIN r.kids[e],
           NEW map, Json!MadeOf(r, e, k, map), NEW n, k \in Json!NodesOf(r, e, n),
           ~(n \in DOMAIN map /\ ~Json!IsMap(map[n]) /\ ~Json!IsList(map[n]))
    PROVE  Json!MadeOf(r, e, k + 1, Json!Add(map, n, r.json[r.kids[e][k]]))
<1> DEFINE json == r.json[r.kids[e][k]]
<1>1. n \in r.names /\ n = r.name[r.kids[e][k]] /\ k \notin Json!TextsOf(r, e, n)
  BY NodeKind
<1>2. Counts(r, e, n, k)
  BY NodeKind
<1>3. DOMAIN map = Json!NamesIn(r, e, k)
  BY MadeDomain
<1> HIDE DEF json
<1>4. CASE n \notin DOMAIN map
  <2>1. Comes(r, e, k + 1, n, json)
    <3>1. n \notin Json!NamesIn(r, e, k)
      BY <1>3, <1>4, Zenon
    <3> QED
      BY <1>1, <3>1, FirstChild DEF json, Comes
  <2>2. Json!MadeOf(r, e, k + 1, Json!Put(map, n, json))
    BY <1>1, <1>2, <2>1, MadeWith
  <2> QED
    BY <1>4, <2>2 DEF Json!Add, json
<1>5. CASE n \in DOMAIN map
  <2>1. Json!FromNodes(r, e, k, n, map[n])
    <3>1. Comes(r, e, k, n, map[n])
      BY <1>3, <1>5, MadeValue, Zenon
    <3> QED
      BY <1>1, <1>5, <3>1, KindsOfValue DEF Comes
  <2>2. Comes(r, e, k + 1, n, Joined(map[n], json))
    BY <1>1, <2>1, NextChild DEF json, Comes
  <2>3. Json!MadeOf(r, e, k + 1, Json!Put(map, n, Joined(map[n], json)))
    BY <1>1, <1>2, <2>2, MadeWith
  <2>4. Json!Add(map, n, json) = Json!Put(map, n, Joined(map[n], json))
    BY <1>5 DEF Json!Add, Joined
  <2> QED
    BY <2>3, <2>4 DEF json
<1> QED
  BY <1>4, <1>5

(* What the children come to is one value.                                 *)
LEMMA OneValue ==
    ASSUME NEW r, Json!WellFormed(r), NEW e \in r.elements, NEW n \in r.names, NEW k,
           NEW v, NEW w,
           Comes(r, e, k, n, v),
           Comes(r, e, k, n, w),
           k \in Nat
    PROVE  v = w
<1> DEFINE T == Json!TextsOf(r, e, n)
           order == r.order[e][n]
<1>1. T \subseteq Nat
  BY PlacesOf DEF Places
<1>2. \A j \in DOMAIN order : j \in Nat
  BY PlacesOf, PlaceTyped
<1>3. CASE Json!FromText(r, e, k, n, v) /\ Json!FromText(r, e, k, n, w)
  <2>1. PICK i \in T : /\ i < k /\ \A j \in T : j < k => j <= i
                       /\ v = [text |-> r.read[r.kids[e][i]]]
    BY <1>3 DEF Json!FromText
  <2>2. PICK l \in T : /\ l < k /\ \A j \in T : j < k => j <= l
                       /\ w = [text |-> r.read[r.kids[e][l]]]
    BY <1>3 DEF Json!FromText
  <2>3. i = l
    <3>1. i <= l /\ l <= i
      BY <2>1, <2>2
    <3>2. i \in Nat /\ l \in Nat
      BY <1>1
    <3> QED
      BY <3>1, <3>2
  <2> QED
    BY <2>1, <2>2, <2>3
<1>4. CASE Json!FromNodes(r, e, k, n, v) /\ Json!FromNodes(r, e, k, n, w)
  <2>1. PICK m \in DOMAIN order : /\ \A j \in DOMAIN order : order[j] < k <=> j <= m
                                  /\ v = Json!NodeValue(r, e, order, m)
    BY <1>4, Zenon DEF Json!FromNodes
  <2>2. PICK l \in DOMAIN order : /\ \A j \in DOMAIN order : order[j] < k <=> j <= l
                                  /\ w = Json!NodeValue(r, e, order, l)
    BY <1>4, Zenon DEF Json!FromNodes
  <2> HIDE DEF order
  <2>3. m = l
    <3>1. m \in Nat /\ l \in Nat
      BY <1>2
    <3>2. order[m] < k /\ order[l] < k
      BY <2>1, <2>2, <3>1
    <3>3. m <= l /\ l <= m
      BY <2>1, <2>2, <3>2
    <3> QED
      BY <3>1, <3>3
  <2> QED
    BY <2>1, <2>2, <2>3
<1>5. ~(\E x, y : Json!FromText(r, e, k, n, x) /\ Json!FromNodes(r, e, k, n, y))
  <2>1. SUFFICES ASSUME NEW i \in T, i < k, \A j \in T : j >= k PROVE FALSE
    BY DEF Json!FromText, Json!FromNodes
  <2>2. i \in Nat /\ i >= k
    BY <1>1, <2>1
  <2> QED
    BY <2>1, <2>2
<1> QED
  BY <1>3, <1>4, <1>5, Zenon DEF Comes

LEMMA OneMap ==
    ASSUME NEW r, Json!WellFormed(r), NEW e \in r.elements, NEW k \in Nat,
           NEW a, NEW b, Json!MadeOf(r, e, k, a), Json!MadeOf(r, e, k, b)
    PROVE  a = b
<1> DEFINE D == Json!NamesIn(r, e, k)
<1>1. a = [n \in D |-> a[n]] /\ b = [n \in D |-> b[n]]
  BY DEF Json!MadeOf
<1>2. ASSUME NEW n \in D PROVE a[n] = b[n]
  <2>1. n \in r.names
    BY DEF Json!NamesIn
  <2>2. /\ Comes(r, e, k, n, a[n])
        /\ Comes(r, e, k, n, b[n])
    BY MadeValue
  <2> QED
    BY <2>1, <2>2, OneValue
<1> HIDE DEF D
<1> QED
  BY <1>1, <1>2

(* Before the first child there is nothing.                                *)
LEMMA MadeOfNone ==
    ASSUME NEW r, Json!WellFormed(r), NEW e \in r.elements
    PROVE  Json!MadeOf(r, e, 1, Json!EmptyMap)
<1>1. ASSUME NEW n, NEW i \in Json!TextsOf(r, e, n) \cup Json!NodesOf(r, e, n) PROVE ~(i < 1)
  <2>1. i \in DOMAIN r.kids[e]
    BY DEF Json!TextsOf, Json!NodesOf
  <2>2. i \in Nat \ {0}
    BY <2>1, ChildKind
  <2> QED
    BY <2>2
<1>2. Json!NamesIn(r, e, 1) = {}
  BY <1>1 DEF Json!NamesIn
<1> QED
  BY <1>2 DEF Json!MadeOf, Json!EmptyMap

JsonValues(r) ==
    {[text |-> r.read[c]] : c \in r.elements}
    \cup {Json!NodeValue(r, e, r.order[e][n], m) : e \in r.elements, n \in r.names, m \in Nat}

JsonCalls(r) == [element : r.elements, child : Nat \ {0},
                 map : UNION {[S -> JsonValues(r)] : S \in SUBSET r.names}]

\* A call has the map of the children before the one it is at.
MapRight(r, c) == /\ c.child <= Len(r.kids[c.element]) + 1
                  /\ Json!MadeOf(r, c.element, c.child, c.map)

\* Call c waits for the map of its child e.
WaitsFor(r, c, e) ==
    LET n == r.name[e] IN
    /\ c.child \in Json!NodesOf(r, c.element, n) /\ e = r.kids[c.element][c.child]
    /\ ~(n \in DOMAIN c.map /\ ~Json!IsMap(c.map[n]) /\ ~Json!IsList(c.map[n]))

Converting(r, C) ==
    /\ C \in Seq(JsonCalls(r))
    /\ \A i \in DOMAIN C : MapRight(r, C[i])
    /\ \A i \in DOMAIN C : i > 1 => WaitsFor(r, C[i - 1], C[i].element)
    /\ C # <<>> => C[1].element = r.root

JsonInv ==
    /\ reply \in Replies /\ Converting(reply, converting)
    /\ converting = <<>> =>
          response = Json!JsonOf([n \in {reply.name[reply.root]} |-> reply.json[reply.root]])

LEMMA MadeTyped ==
    ASSUME NEW r, Json!WellFormed(r), NEW e \in r.elements, NEW k,
           NEW map, Json!MadeOf(r, e, k, map)
    PROVE  map \in UNION {[S -> JsonValues(r)] : S \in SUBSET r.names}
<1> DEFINE D == Json!NamesIn(r, e, k)
<1>1. ASSUME NEW n \in D PROVE map[n] \in JsonValues(r)
  <2>1. Comes(r, e, k, n, map[n])
    BY MadeValue
  <2>2. n \in r.names
    BY DEF Json!NamesIn
  <2>3. CASE Json!FromText(r, e, k, n, map[n])
    <3>1. PICK i \in Json!TextsOf(r, e, n) : map[n] = [text |-> r.read[r.kids[e][i]]]
      BY <2>3 DEF Json!FromText
    <3>2. i \in DOMAIN r.kids[e]
      BY DEF Json!TextsOf
    <3>3. PICK c \in r.elements : c = r.kids[e][i]
      BY <3>2, ChildKind
    <3>4. map[n] = [text |-> r.read[c]]
      BY <3>1, <3>3
    <3>5. map[n] \in {[text |-> r.read[x]] : x \in r.elements}
      BY <3>4
    <3> QED
      BY <3>5 DEF JsonValues
  <2>4. CASE Json!FromNodes(r, e, k, n, map[n])
    <3>1. PICK m \in DOMAIN r.order[e][n] : map[n] = Json!NodeValue(r, e, r.order[e][n], m)
      BY <2>4, Zenon DEF Json!FromNodes
    <3>2. m \in Nat
      BY <2>2, PlacesOf, PlaceTyped
    <3>3. map[n] \in {Json!NodeValue(r, f, r.order[f][x], l) :
                        f \in r.elements, x \in r.names, l \in Nat}
      BY <2>2, <3>1, <3>2
    <3> QED
      BY <3>3 DEF JsonValues
  <2> QED
    BY <2>1, <2>3, <2>4 DEF Comes
<1>2. D \in SUBSET r.names
  BY DEF Json!NamesIn
<1>3. map = [n \in D |-> map[n]]
  BY DEF Json!MadeOf
<1> HIDE DEF D
<1>4. map \in [D -> JsonValues(r)]
  BY <1>1, <1>3
<1> QED
  BY <1>2, <1>4

LEMMA CallRight ==
    ASSUME NEW r, NEW C, Converting(r, C), NEW i \in DOMAIN C
    PROVE  /\ MapRight(r, C[i]) /\ C[i].element \in r.elements
           /\ C[i].child \in Nat \ {0}
<1>1. C \in Seq(JsonCalls(r)) /\ MapRight(r, C[i])
  BY DEF Converting
<1>2. C[i] \in JsonCalls(r)
  BY <1>1
<1> QED
  BY <1>1, <1>2 DEF JsonCalls

(* The call at the end is done with its child.                             *)
LEMMA ChildDone ==
    ASSUME NEW r, Json!WellFormed(r), NEW C, Converting(r, C), C # <<>>,
           NEW c, c = C[Len(C)], c.child \in DOMAIN r.kids[c.element],
           NEW map, Json!MadeOf(r, c.element, c.child + 1, map)
    PROVE  Converting(r, Json!DoneWith(C, map))
<1> DEFINE d == [c EXCEPT !.child = @ + 1, !.map = map]
<1>1. C \in Seq(JsonCalls(r))
  BY DEF Converting
<1>2. PICK n \in Nat \ {0} : n = Len(C)
  BY <1>1
<1>3. DOMAIN C = 1..n /\ n \in 1..n
  BY <1>1, <1>2
<1>4. c = C[n] /\ c \in JsonCalls(r)
  BY <1>1, <1>2, <1>3
<1>5. c.element \in r.elements /\ c.child \in Nat \ {0}
  BY <1>4 DEF JsonCalls
<1>6. c.child + 1 <= Len(r.kids[c.element]) + 1
  <2>1. c.child <= Len(r.kids[c.element]) /\ Len(r.kids[c.element]) \in Nat
    BY <1>5, ChildKind
  <2> QED
    BY <1>5, <2>1
<1>7. /\ d \in JsonCalls(r) /\ d.element = c.element /\ d.child = c.child + 1
      /\ d.map = map
  <2>1. map \in UNION {[S -> JsonValues(r)] : S \in SUBSET r.names}
    BY <1>5, MadeTyped
  <2>2. c.child + 1 \in Nat \ {0}
    BY <1>5
  <2> HIDE DEF JsonValues
  <2> QED
    BY <1>4, <2>1, <2>2 DEF JsonCalls
<1>8. Json!DoneWith(C, map) = [C EXCEPT ![n] = d]
  <2>1. Json!DoneWith(C, map)
           = [C EXCEPT ![Len(C)] = [C[Len(C)] EXCEPT !.child = @ + 1, !.map = map]]
    BY DEF Json!DoneWith, Json!Last
  <2>2. [C[Len(C)] EXCEPT !.child = @ + 1, !.map = map] = d
    OBVIOUS
  <2> HIDE DEF d
  <2> QED
    BY <1>2, <2>1, <2>2, Zenon
<1> HIDE DEF d
<1>9. PICK B : B = [C EXCEPT ![n] = d]
  OBVIOUS
<1>10. /\ B \in Seq(JsonCalls(r)) /\ Len(B) = n
       /\ \A i \in 1..n : B[i] = IF i = n THEN d ELSE C[i]
  BY <1>1, <1>2, <1>3, <1>7, <1>9, ExceptSeq
<1>11. DOMAIN B = 1..n
  BY <1>10
<1>12. MapRight(r, d)
  BY <1>6, <1>7 DEF MapRight
<1>13. ASSUME NEW i \in 1..n PROVE MapRight(r, B[i])
  <2>1. CASE i = n
    BY <1>10, <1>12, <2>1
  <2>2. CASE i # n
    BY <1>3, <1>10, <2>2 DEF Converting
  <2> QED
    BY <2>1, <2>2
<1>14. \A i \in 1..n : B[i].element = C[i].element
  BY <1>4, <1>7, <1>10
<1>15. ASSUME NEW i \in 1..n, i > 1 PROVE WaitsFor(r, B[i - 1], B[i].element)
  <2>1. i - 1 \in 1..n /\ i - 1 # n
    BY <1>15
  <2>2. B[i - 1] = C[i - 1]
    BY <1>10, <2>1
  <2>3. WaitsFor(r, C[i - 1], C[i].element)
    BY <1>3, <1>15 DEF Converting
  <2> QED
    BY <1>14, <2>2, <2>3
<1>16. B[1].element = r.root
  <2>1. C[1].element = r.root /\ 1 \in 1..n
    BY <1>2 DEF Converting
  <2> QED
    BY <1>14, <2>1
<1>17. Converting(r, B)
  BY <1>10, <1>11, <1>13, <1>15, <1>16 DEF Converting
<1> QED
  BY <1>8, <1>9, <1>17

(* The call at the end makes one for its child.                            *)
LEMMA ChildBegun ==
    ASSUME NEW r, Json!WellFormed(r), NEW C, Converting(r, C), C # <<>>,
           NEW e \in r.elements, WaitsFor(r, C[Len(C)], e)
    PROVE  Converting(r, Append(C, Json!Call(e))) /\ Append(C, Json!Call(e)) # <<>>
<1>1. C \in Seq(JsonCalls(r))
  BY DEF Converting
<1>2. PICK n \in Nat \ {0} : n = Len(C)
  BY <1>1
<1> DEFINE d == Json!Call(e)
<1>3. Json!MadeOf(r, e, 1, Json!EmptyMap)
  BY MadeOfNone
<1>4. /\ d \in JsonCalls(r) /\ d.element = e /\ d.child = 1 /\ d.map = Json!EmptyMap
  <2>1. Json!EmptyMap \in UNION {[S -> JsonValues(r)] : S \in SUBSET r.names}
    BY <1>3, MadeTyped
  <2> QED
    BY <2>1 DEF Json!Call, JsonCalls
<1>5. MapRight(r, d)
  <2>1. Len(r.kids[e]) \in Nat
    BY DEF Json!WellFormed
  <2>2. 1 <= Len(r.kids[e]) + 1
    BY <2>1
  <2> QED
    BY <1>3, <1>4, <2>2 DEF MapRight
<1> HIDE DEF d
<1>6. PICK B : B = Append(C, d)
  OBVIOUS
<1>7. /\ B \in Seq(JsonCalls(r)) /\ DOMAIN B = 1..(n + 1) /\ DOMAIN C = 1..n
      /\ B[n + 1] = d /\ \A i \in 1..n : B[i] = C[i]
  BY <1>1, <1>2, <1>4, <1>6
<1>8. ASSUME NEW i \in DOMAIN B
      PROVE  MapRight(r, B[i]) /\ (i > 1 => WaitsFor(r, B[i - 1], B[i].element))
  <2>1. i \in 1..n \/ i = n + 1
    BY <1>7
  <2>2. CASE i \in 1..n
    <3>1. B[i] = C[i] /\ MapRight(r, C[i])
      BY <1>7, <2>2 DEF Converting
    <3>2. ASSUME i > 1 PROVE WaitsFor(r, B[i - 1], B[i].element)
      <4>1. i - 1 \in 1..n
        BY <2>2, <3>2
      <4>2. WaitsFor(r, C[i - 1], C[i].element)
        BY <1>7, <2>2, <3>2 DEF Converting
      <4> QED
        BY <1>7, <3>1, <4>1, <4>2
    <3> QED
      BY <3>1, <3>2
  <2>3. CASE i = n + 1
    <3>1. B[i] = d /\ i - 1 = n /\ B[n] = C[n]
      BY <1>7, <2>3
    <3>2. WaitsFor(r, C[n], d.element)
      BY <1>2, <1>4
    <3> QED
      BY <1>5, <3>1, <3>2
  <2> QED
    BY <2>1, <2>2, <2>3
<1>9. B[1].element = r.root
  <2>1. C[1].element = r.root /\ 1 \in 1..n
    BY <1>2 DEF Converting
  <2> QED
    BY <1>7, <2>1
<1>10. Converting(r, B) /\ B # <<>>
  BY <1>7, <1>8, <1>9 DEF Converting
<1> QED
  BY <1>6, <1>10 DEF d

(* The call at the end ends.                                               *)
LEMMA ChildEnded ==
    ASSUME NEW r, NEW C, Converting(r, C), Len(C) > 1
    PROVE  LET B == SubSeq(C, 1, Len(C) - 1) IN
           /\ Converting(r, B) /\ B # <<>> /\ Len(B) = Len(C) - 1 /\ B[Len(B)] = C[Len(C) - 1]
<1>1. C \in Seq(JsonCalls(r))
  BY DEF Converting
<1>2. PICK n \in Nat \ {0} : n = Len(C) /\ n > 1
  BY <1>1
<1>3. PICK B : B = SubSeq(C, 1, n - 1)
  OBVIOUS
<1>4. /\ B \in Seq(JsonCalls(r)) /\ DOMAIN B = 1..(n - 1) /\ Len(B) = n - 1
      /\ \A i \in 1..(n - 1) : B[i] = C[i]
  BY <1>1, <1>2, <1>3
<1>5. DOMAIN C = 1..n
  BY <1>1, <1>2
<1>6. ASSUME NEW i \in DOMAIN B
      PROVE  MapRight(r, B[i]) /\ (i > 1 => WaitsFor(r, B[i - 1], B[i].element))
  <2>1. i \in 1..n /\ B[i] = C[i] /\ (i > 1 => i - 1 \in 1..(n - 1))
    BY <1>4
  <2>2. MapRight(r, C[i]) /\ (i > 1 => WaitsFor(r, C[i - 1], C[i].element))
    BY <1>5, <2>1 DEF Converting
  <2>3. i > 1 => B[i - 1] = C[i - 1]
    BY <1>4, <2>1
  <2> QED
    BY <2>1, <2>2, <2>3
<1>7. B[1].element = r.root /\ B # <<>> /\ B[n - 1] = C[n - 1]
  <2>1. 1 \in 1..(n - 1) /\ n - 1 \in 1..(n - 1)
    BY <1>2
  <2>2. C[1].element = r.root
    BY <1>2 DEF Converting
  <2> QED
    BY <1>4, <2>1, <2>2
<1>8. Converting(r, B)
  BY <1>4, <1>6, <1>7 DEF Converting
<1> QED
  BY <1>2, <1>3, <1>4, <1>7, <1>8

LEMMA SeqDomain ==
    ASSUME NEW S, NEW q \in Seq(S)
    PROVE  Len(q) \in Nat /\ DOMAIN q = 1..Len(q)
OBVIOUS

(* The call at the end, as the handler sees it.                            *)
LEMMA ThisElement ==
    ASSUME JsonInv, Json!RepliesOK, converting # <<>>
    PROVE  LET c == converting[Len(converting)] IN
           /\ Len(converting) \in Nat \ {0} /\ Json!This = c
           /\ Json!Children = reply.kids[c.element]
           /\ c.element \in reply.elements /\ c.child \in Nat \ {0}
           /\ Len(reply.kids[c.element]) \in Nat
           /\ DOMAIN reply.kids[c.element] = 1..Len(reply.kids[c.element])
           /\ MapRight(reply, c)
<1> DEFINE c == converting[Len(converting)]
<1>1. converting \in Seq(JsonCalls(reply)) /\ Json!WellFormed(reply)
  BY DEF JsonInv, Converting, Json!RepliesOK
<1>2. Len(converting) \in Nat \ {0} /\ Len(converting) \in DOMAIN converting
  BY <1>1
<1>3. MapRight(reply, c) /\ c.element \in reply.elements /\ c.child \in Nat \ {0}
  BY <1>2, CallRight DEF JsonInv
<1>4. Json!This = c
  BY DEF Json!This, Json!Last
<1>5. Json!Children = reply.kids[c.element]
  BY <1>4 DEF Json!Children
<1> HIDE DEF c
<1>6. PICK kids \in Seq(reply.elements) : kids = reply.kids[c.element]
  BY <1>1, <1>3 DEF Json!WellFormed
<1>7. Len(kids) \in Nat /\ DOMAIN kids = 1..Len(kids)
  BY SeqDomain
<1> QED
  BY <1>2, <1>3, <1>4, <1>5, <1>6, <1>7 DEF c

(* The same for a call in the loop.                                        *)
LEMMA ThisChild ==
    ASSUME JsonInv, Json!RepliesOK, Json!InLoop
    PROVE  LET c == converting[Len(converting)] IN
           /\ c.element \in reply.elements /\ c.child \in DOMAIN reply.kids[c.element]
           /\ Json!This = c /\ Json!Child = reply.kids[c.element][c.child]
           /\ Json!Name = reply.name[Json!Child] /\ Json!Child \in reply.elements
           /\ Json!Name \in reply.names
           /\ Json!MadeOf(reply, c.element, c.child, c.map)
<1>1. converting # <<>> /\ Json!WellFormed(reply)
  BY DEF Json!InLoop, JsonInv, Json!RepliesOK
<1> DEFINE c == converting[Len(converting)]
<1>2. /\ Json!This = c /\ Json!Children = reply.kids[c.element]
      /\ c.element \in reply.elements /\ c.child \in Nat \ {0}
      /\ Len(reply.kids[c.element]) \in Nat
      /\ DOMAIN reply.kids[c.element] = 1..Len(reply.kids[c.element])
      /\ MapRight(reply, c)
  BY <1>1, ThisElement
<1> HIDE DEF c
<1>3. c.child \in DOMAIN reply.kids[c.element]
  BY <1>2 DEF Json!InLoop
<1>4. Json!Child = reply.kids[c.element][c.child]
  BY <1>2 DEF Json!Child
<1>5. Json!Child \in reply.elements /\ reply.name[Json!Child] \in reply.names
  BY <1>1, <1>2, <1>3, <1>4, ChildKind
<1>6. Json!Name = reply.name[Json!Child]
  BY DEF Json!Name
<1>7. Json!MadeOf(reply, c.element, c.child, c.map)
  BY <1>2 DEF MapRight
<1> QED
  BY <1>2, <1>3, <1>4, <1>5, <1>6, <1>7 DEF c

(* The map of a call at its end.                                           *)
LEMMA MapAtEnd ==
    ASSUME NEW r, Json!WellFormed(r), NEW c, MapRight(r, c), c.element \in r.elements,
           c.child \in Nat, c.child > Len(r.kids[c.element])
    PROVE  Json!JsonOf(c.map) = r.json[c.element]
<1> DEFINE e == c.element
           k == Len(r.kids[e]) + 1
           json == r.json[e].map
<1>1. Len(r.kids[e]) \in Nat
  BY DEF Json!WellFormed
<1>2. c.child = k /\ k \in Nat
  BY <1>1 DEF MapRight
<1>3. Json!MadeOf(r, e, k, c.map)
  BY <1>2 DEF MapRight
<1>4. r.json[e] = Json!JsonOf(json) /\ Json!MadeOf(r, e, k, json)
  BY DEF Json!WellFormed
<1> HIDE DEF e, k, json
<1>5. c.map = json
  BY <1>2, <1>3, <1>4, OneMap DEF e
<1> QED
  BY <1>4, <1>5 DEF e

LEMMA JsonStep ==
    ASSUME Json!RepliesOK, JsonInv, [Json!Next]_(Json!jsonvars)
    PROVE  JsonInv'
<1>1. reply' = reply
  BY DEF Json!Next, Json!PutText, Json!Skip, Json!IterateElement, Json!Return,
         Json!Xml2Json, Json!jsonvars
<1> DEFINE r == reply
           n == Len(converting)
           c == converting[Len(converting)]
<1>2. Json!WellFormed(r) /\ Converting(r, converting) /\ reply \in Replies
  BY DEF JsonInv, Json!RepliesOK
<1>3. ASSUME NEW C, Converting(r, C), C # <<>>, converting' = C PROVE JsonInv'
  BY <1>1, <1>2, <1>3 DEF JsonInv
<1>4. ASSUME Json!InLoop, NEW map, Json!MadeOf(r, c.element, c.child + 1, map),
             converting' = Json!DoneWith(converting, map)
      PROVE  JsonInv'
  <2>1. converting # <<>> /\ c.child \in DOMAIN r.kids[c.element]
    BY <1>4, ThisChild DEF Json!InLoop
  <2>2. Converting(r, Json!DoneWith(converting, map))
    BY <1>2, <1>4, <2>1, ChildDone
  <2>3. Json!DoneWith(converting, map) # <<>>
    <3>1. converting \in Seq(JsonCalls(r))
      BY <1>2 DEF Converting
    <3> QED
      BY <2>1, <3>1 DEF Json!DoneWith
  <2> QED
    BY <1>3, <1>4, <2>2, <2>3
<1>5. CASE Json!PutText
  <2>1. Json!InLoop /\ r.text[Json!Child] # ""
    BY <1>5 DEF Json!PutText
  <2>2. /\ c.element \in r.elements /\ c.child \in DOMAIN r.kids[c.element]
        /\ Json!This = c /\ Json!Child = r.kids[c.element][c.child]
        /\ Json!Name = r.name[Json!Child] /\ Json!Name \in r.names
        /\ Json!MadeOf(r, c.element, c.child, c.map)
    BY <2>1, ThisChild
  <2> DEFINE map == Json!Put(c.map, Json!Name, [text |-> r.read[Json!Child]])
  <2>3. converting' = Json!DoneWith(converting, map)
    BY <1>5, <2>2 DEF Json!PutText
  <2> HIDE DEF c
  <2>4. Json!MadeOf(r, c.element, c.child + 1, map)
    BY <1>2, <2>1, <2>2, MadePutting
  <2> QED
    BY <1>4, <2>1, <2>3, <2>4 DEF c
<1>6. CASE Json!Skip
  <2>1. Json!InLoop /\ r.text[Json!Child] = "" /\ (r.kids[Json!Child] = <<>> \/ Json!Dropped)
    BY <1>6 DEF Json!Skip
  <2>2. /\ c.element \in r.elements /\ c.child \in DOMAIN r.kids[c.element]
        /\ Json!This = c /\ Json!Child = r.kids[c.element][c.child]
        /\ Json!Name = r.name[Json!Child] /\ Json!Name \in r.names
        /\ Json!MadeOf(r, c.element, c.child, c.map)
    BY <2>1, ThisChild
  <2>3. converting' = Json!DoneWith(converting, c.map)
    BY <1>6, <2>2 DEF Json!Skip
  <2> HIDE DEF c
  <2>4. Json!MadeOf(r, c.element, c.child + 1, c.map)
    <3>1. CASE r.kids[Json!Child] = <<>>
      <4>1. \A x \in r.names : ~Counts(r, c.element, x, c.child)
        BY <2>1, <2>2, <3>1 DEF Counts, Json!TextsOf, Json!NodesOf
      <4> QED
        BY <1>2, <2>2, <4>1, MadeWithout, Zenon
    <3>2. CASE r.kids[Json!Child] # <<>>
      <4>1. c.child \in Json!NodesOf(r, c.element, Json!Name)
        BY <2>1, <2>2, <3>2 DEF Json!NodesOf
      <4>2. /\ Json!Name \in DOMAIN c.map
            /\ ~Json!IsMap(c.map[Json!Name]) /\ ~Json!IsList(c.map[Json!Name])
        BY <2>1, <2>2, <3>2 DEF Json!Dropped
      <4> QED
        BY <1>2, <2>2, <4>1, <4>2, MadeHiding
    <3> QED
      BY <3>1, <3>2
  <2> QED
    BY <1>4, <2>1, <2>3, <2>4 DEF c
<1>7. CASE Json!IterateElement
  <2>1. Json!InLoop /\ r.text[Json!Child] = "" /\ r.kids[Json!Child] # <<>> /\ ~Json!Dropped
    BY <1>7 DEF Json!IterateElement
  <2>2. /\ c.element \in r.elements /\ c.child \in DOMAIN r.kids[c.element]
        /\ Json!This = c /\ Json!Child = r.kids[c.element][c.child]
        /\ Json!Name = r.name[Json!Child] /\ Json!Child \in r.elements
    BY <2>1, ThisChild
  <2>3. converting' = Append(converting, Json!Call(Json!Child)) /\ converting # <<>>
    BY <1>7, <2>1 DEF Json!IterateElement, Json!InLoop
  <2> HIDE DEF c
  <2>4. c.child \in Json!NodesOf(r, c.element, Json!Name)
    BY <2>1, <2>2 DEF Json!NodesOf
  <2>5. WaitsFor(r, c, Json!Child)
    BY <2>1, <2>2, <2>4 DEF WaitsFor, Json!Dropped
  <2>6. /\ Converting(r, Append(converting, Json!Call(Json!Child)))
        /\ Append(converting, Json!Call(Json!Child)) # <<>>
    BY <1>2, <2>2, <2>3, <2>5, ChildBegun DEF c
  <2> QED
    BY <1>3, <2>3, <2>6
<1>8. CASE Json!Return
  <2> DEFINE B == SubSeq(converting, 1, n - 1)
             p == converting[n - 1]
             e == c.element
             map == Json!Add(p.map, r.name[e], Json!JsonOf(c.map))
  <2>1. n > 1 /\ converting # <<>>
    <3>1. Len(<<>>) = 0
      OBVIOUS
    <3> QED
      BY <1>8, <3>1 DEF Json!Return
  <2>2. /\ n \in Nat \ {0} /\ Json!This = c /\ Json!Children = r.kids[e]
        /\ e \in r.elements /\ c.child \in Nat \ {0} /\ MapRight(r, c)
    BY <2>1, ThisElement
  <2>3. Converting(r, B) /\ B # <<>> /\ B[Len(B)] = p
    BY <1>2, <2>1, ChildEnded
  <2>4. c.child > Len(r.kids[e]) /\ converting' = Json!DoneWith(B, map)
    <3>1. Json!Front(converting) = B /\ Json!Last(B) = p
      BY <2>3 DEF Json!Front, Json!Last
    <3> QED
      BY <1>8, <2>2, <3>1 DEF Json!Return
  <2>5. Json!JsonOf(c.map) = r.json[e]
    BY <1>2, <2>2, <2>4, MapAtEnd
  <2>6. WaitsFor(r, p, e)
    <3>1. converting \in Seq(JsonCalls(r))
      BY <1>2 DEF Converting
    <3>2. n \in DOMAIN converting
      BY <2>1, <2>2, <3>1
    <3> QED
      BY <1>2, <2>1, <3>2 DEF Converting
  <2>7. /\ p.element \in r.elements /\ MapRight(r, p)
    <3>1. converting \in Seq(JsonCalls(r))
      BY <1>2 DEF Converting
    <3>2. PICK i \in DOMAIN converting : i = n - 1
      BY <2>1, <2>2, <3>1
    <3> HIDE DEF n
    <3>3. converting[i].element \in r.elements /\ MapRight(r, converting[i])
      BY <1>2, CallRight, Zenon
    <3> QED
      BY <3>2, <3>3
  <2> HIDE DEF B, p, c, e
  <2>8. /\ p.child \in Json!NodesOf(r, p.element, r.name[e]) /\ e = r.kids[p.element][p.child]
        /\ ~(/\ r.name[e] \in DOMAIN p.map
             /\ ~Json!IsMap(p.map[r.name[e]]) /\ ~Json!IsList(p.map[r.name[e]]))
    BY <2>6 DEF WaitsFor
  <2>9. p.child \in DOMAIN r.kids[p.element]
    BY <2>8 DEF Json!NodesOf
  <2>10. Json!MadeOf(r, p.element, p.child + 1, map)
    BY <1>2, <2>5, <2>7, <2>8, <2>9, MadeAdding DEF MapRight
  <2> HIDE DEF map
  <2>11. Converting(r, Json!DoneWith(B, map))
    BY <1>2, <2>3, <2>9, <2>10, ChildDone
  <2>12. Json!DoneWith(B, map) # <<>>
    <3>1. B \in Seq(JsonCalls(r))
      BY <2>3 DEF Converting
    <3> QED
      BY <2>3, <3>1 DEF Json!DoneWith
  <2> QED
    BY <1>3, <2>4, <2>11, <2>12
<1>9. CASE Json!Xml2Json
  <2>1. n = 1 /\ converting # <<>>
    <3>1. n = 1
      BY <1>9 DEF Json!Xml2Json
    <3>2. Len(<<>>) = 0
      OBVIOUS
    <3> QED
      BY <3>1, <3>2
  <2>2. /\ Json!This = c /\ Json!Children = r.kids[c.element]
        /\ c.element \in r.elements /\ c.child \in Nat \ {0} /\ MapRight(r, c)
    BY <2>1, ThisElement
  <2>3. /\ c.child > Len(r.kids[c.element]) /\ converting' = <<>>
        /\ response' = Json!JsonOf([x \in {r.name[c.element]} |-> Json!JsonOf(c.map)])
    BY <1>9, <2>2 DEF Json!Xml2Json
  <2>4. Json!JsonOf(c.map) = r.json[c.element]
    BY <1>2, <2>2, <2>3, MapAtEnd
  <2>5. c.element = r.root
    BY <1>2, <2>1 DEF Converting
  <2>6. response' = Json!JsonOf([x \in {r.name[r.root]} |-> r.json[r.root]])
    BY <2>3, <2>4, <2>5
  <2>7. Converting(r, <<>>)
    BY DEF Converting
  <2> QED
    BY <1>1, <1>2, <2>3, <2>6, <2>7 DEF JsonInv
<1>10. CASE UNCHANGED Json!jsonvars
  BY <1>10 DEF Json!jsonvars, JsonInv
<1> QED
  BY <1>5, <1>6, <1>7, <1>8, <1>9, <1>10 DEF Json!Next

(* The response has every element with children, in order and at every     *)
(* depth, a list exactly when there are several of one name, and of the    *)
(* texts of a name the last, for replies of any size (Xml2JsonUtil).       *)
THEOREM ConvertedAsReferencedTheorem == MessageSpec => []ConvertedAsReferenced
<1> DEFINE Inv == stage = "converting" => JsonInv
<1>0. Json!RepliesOK
  BY MessagesAssumption
<1>1. JsonInv => Json!ConvertedAsReferenced
  BY DEF JsonInv, Json!ConvertedAsReferenced
<1>2. Json!Init => JsonInv
  <2> SUFFICES ASSUME Json!Init PROVE JsonInv
    OBVIOUS
  <2> DEFINE d == Json!Call(reply.root)
  <2>1. reply \in Replies /\ converting = <<d>> /\ Json!WellFormed(reply)
    BY <1>0 DEF Json!Init, Json!RepliesOK
  <2>2. reply.root \in reply.elements
    BY <2>1 DEF Json!WellFormed
  <2>3. Json!MadeOf(reply, reply.root, 1, Json!EmptyMap)
    BY <2>1, <2>2, MadeOfNone
  <2>4. /\ d \in JsonCalls(reply) /\ d.element = reply.root /\ d.child = 1
        /\ d.map = Json!EmptyMap
    <3>1. Json!EmptyMap \in UNION {[S -> JsonValues(reply)] : S \in SUBSET reply.names}
      BY <2>1, <2>2, <2>3, MadeTyped
    <3> QED
      BY <2>2, <3>1 DEF Json!Call, JsonCalls
  <2>5. MapRight(reply, d)
    <3>1. Len(reply.kids[reply.root]) \in Nat
      BY <2>1, <2>2 DEF Json!WellFormed
    <3>2. 1 <= Len(reply.kids[reply.root]) + 1
      BY <3>1
    <3> QED
      BY <2>3, <2>4, <3>2 DEF MapRight
  <2> HIDE DEF d
  <2>6. /\ converting \in Seq(JsonCalls(reply)) /\ DOMAIN converting = {1}
        /\ converting[1] = d /\ converting # <<>>
    BY <2>1, <2>4
  <2>7. Converting(reply, converting)
    BY <2>4, <2>5, <2>6 DEF Converting
  <2> QED
    BY <2>1, <2>6, <2>7 DEF JsonInv
<1>3. JsonInv /\ [Json!Next]_(Json!jsonvars) => JsonInv'
  BY <1>0, JsonStep
<1>4. MessageInit => Inv
  BY <1>2 DEF MessageInit
<1>5. Inv /\ [MessageNext]_messagevars => Inv'
  <2> SUFFICES ASSUME Inv, [MessageNext]_messagevars, stage' = "converting" PROVE JsonInv'
    OBVIOUS
  <2>1. stage = "converting" /\ [Json!Next]_(Json!jsonvars)
    BY DEF MessageNext, FillIn, Convert, messagevars, jsonside, Json!jsonvars
  <2> QED
    BY <1>3, <2>1
<1>6. Inv => ConvertedAsReferenced
  BY <1>1 DEF ConvertedAsReferenced
<1> HIDE DEF Inv
<1> QED
  BY <1>4, <1>5, <1>6, PTL DEF MessageSpec
=============================================================================
