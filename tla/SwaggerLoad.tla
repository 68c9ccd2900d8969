----------------------------- MODULE SwaggerLoad -----------------------------
(***************************************************************************)
(* How the API browser loads a description and shows it (api-doc/):        *)
(* SwaggerUi.load makes a SwaggerClient, which fetches the description,    *)
(* then what the description refers to - the documents of remote $refs for *)
(* Swagger 2.0, the declaration of every resource for 1.x - builds its     *)
(* groups of operations and calls SwaggerUi.render.                        *)
(*                                                                         *)
(* One thread runs everything; what interleaves are the answers of the     *)
(* browser's requests and the loads the user asks for before they are in.  *)
(* A handler that throws ends there: what it has assigned stays assigned.  *)
(***************************************************************************)
EXTENDS Integers, Sequences, FiniteSets

CONSTANTS
    MaxLoads,      \* bound: loads the user asks for
    MaxOverlap,    \* bound: loads whose requests are out at the same time
    Descriptions,  \* documents a server may answer the first request with
    Declarations,  \* documents it may answer a 1.x resource with
    Models,        \* names of models
    Reserved       \* tags that are the name of a field of SwaggerClient

(***************************************************************************)
(* A declaration has the models it defines and its number of operations.   *)
(* A description is a declaration of its own (1.x with operations), named  *)
(* by the end of its path and registered under all of it; a list of the    *)
(* names of resources (1.x); or a 2.0 document: models, the remote         *)
(* references to models of other hosts, those hosts in some order, and the *)
(* tags of each operation in order.                                        *)
(***************************************************************************)
DescriptionType(d) ==
    \/ /\ d.kind = "declaration" /\ d.models \subseteq Models /\ d.operations \in Nat
       /\ d.name \in STRING /\ d.newName \in STRING
    \/ d.kind = "listing" /\ d.resources \in Seq(STRING)
    \/ /\ d.kind = "2.0" /\ d.models \subseteq Models
       /\ \A r \in d.refs : /\ r.name \in Models /\ r.as \in {"$ref", "inline"}
                            /\ r.host # "own"
       /\ d.hosts \in Seq({r.host : r \in d.refs})
       /\ \A r \in d.refs : \E i \in DOMAIN d.hosts : d.hosts[i] = r.host
       /\ \A i, j \in DOMAIN d.hosts : d.hosts[i] = d.hosts[j] => i = j
       /\ d.operations \in Seq(Seq(STRING))

ASSUME DocumentsAssumption ==
    /\ MaxLoads \in Nat \ {0} /\ MaxOverlap \in Nat \ {0}
    /\ \A d \in Descriptions : DescriptionType(d)
    /\ \A d \in Declarations : d.models \subseteq Models /\ d.operations \in Nat

VARIABLES
    api,        \* SwaggerUi.api: the client made last, 0 before the first
    clients,    \* what each client has fetched and built
    models,     \* the models object each client was initialised with; the
                \* global `models` is that of the client made last
    requests,   \* sent and not answered
    page,       \* what is in #swagger-ui-container
    mainView,   \* SwaggerUi.mainView is set
    message,    \* #message-bar
    overlapped  \* history: clients made while requests of others were out

vars == <<api, clients, models, requests, page, mainView, message, overlapped>>

Clients == 1..MaxLoads
NoDoc   == [kind |-> "none"]
Nothing == [client |-> 0, groups |-> <<>>, models |-> {}]

\* A client as its constructor leaves it.  apisArray is undefined (FALSE, <<>>)
\* until a description is in.  A 1.x client keeps each resource in a field of its
\* name; replaced are the names that are fields by now.
SwaggerClient ==
    [doc |-> NoDoc, hasApis |-> FALSE, apisArray |-> <<>>, isBuilt |-> FALSE,
     models |-> {}, resourceCount |-> 0, expectedResourceCount |-> -1,
     replaced |-> {}, resolvedRefs |-> {}, processedCalls |-> 0,
     answers |-> {}, failed |-> {}, broken |-> FALSE]
        \* history: what was answered and what was not, a handler that threw

Init ==
    /\ api = 0 /\ clients = [c \in Clients |-> SwaggerClient]
    /\ models = [c \in Clients |-> {}]
    /\ requests = {} /\ overlapped = {}
    /\ page = Nothing /\ mainView = FALSE /\ message = ""

Request(c, k, i) == [client |-> c, kind |-> k, item |-> i]

\* No resource has taken the place of one of these fields or methods.
Keeps(client, fields) == client.replaced \cap fields = {}

\* Nor of one of those that the end of a load and the page use.
Intact(client) ==
    Keeps(client, {"apis", "apisArray", "modelsArray", "securityDefinitions",
                   "selfReflect", "setConsolidatedModels", "success"})

-----------------------------------------------------------------------------
(* SwaggerUi.load, SwaggerClient.initialize, SwaggerClient.build           *)

\* Once another client is made, one that waits for no answer is garbage.
Waiting(c) == \E r \in requests : r.client = c

\* Seeded fault: the models object is made once and never replaced.
ModelsKept == [c \in Clients |-> IF Waiting(c) \/ c = api THEN models[c]
                                 ELSE IF c = api + 1 /\ api > 0 THEN models[api] ELSE {}]

\* SwaggerClient.initialize: this.models = models = {}.
NewModels == [c \in Clients |-> IF Waiting(c) THEN models[c] ELSE {}]

\* The page is cleared through the last view, if there is one.
Load ==
    /\ api < MaxLoads /\ Cardinality({c \in Clients : Waiting(c)}) < MaxOverlap
    /\ api' = api + 1
    /\ page' = IF mainView THEN Nothing ELSE page
    /\ message' = "fetching"
    /\ requests' = requests \cup {Request(api', "description", 0)}
    /\ overlapped' = {c \in overlapped : Waiting(c)}
                       \cup (IF requests # {} THEN {api'} ELSE {})
    /\ clients' = [c \in Clients |-> IF Waiting(c) THEN clients[c] ELSE SwaggerClient]
    /\ models' = NewModels
    /\ UNCHANGED mainView

-----------------------------------------------------------------------------
(* SwaggerUi.render: the view is made of the client made last, whichever   *)
(* client calls.  If that has no apisArray yet the loop over it throws:    *)
(* the frame of the page is there, mainView and the message are not set.   *)

\* SwaggerClient.models: another object once a 1.x client has finished, before
\* that a resource if one has its name.
ModelsOf(client, table) ==
    IF client.isBuilt /\ client.doc.kind # "2.0" THEN client.models
    ELSE {m \in table : Keeps(client, {"models"})}

\* A row for each operation; rendering again adds none.
ResourceView(group) == [name |-> group.name, operations |-> group.operations]

\* The status codes of the operations are described with swaggerUi.api.models.
StatusCodeModels(client, table) == ModelsOf(client, table)

\* A resource instead of the array has no length: there are no groups.
Resources(client) == IF Keeps(client, {"apisArray"}) THEN client.apisArray ELSE <<>>

MainView(c, client, table) ==
    [client |-> c, groups |-> [i \in DOMAIN Resources(client) |->
                                  ResourceView(Resources(client)[i])],
     models |-> StatusCodeModels(client, table)]

\* A resource instead of the security definitions may have a field that is
\* undefined; the view reads the type of each and throws before it shows anything.
Render(all, tables) ==
    IF all[api].hasApis
    THEN \/ /\ page' = MainView(api, all[api], tables[api])
            /\ mainView' = TRUE /\ message' = ""
         \/ /\ ~Keeps(all[api], {"securityDefinitions"})
            /\ message' = "rendering" /\ UNCHANGED <<page, mainView>>
    ELSE /\ page' = [Nothing EXCEPT !.client = api]
         /\ message' = "rendering"
         /\ UNCHANGED mainView

\* Seeded fault: the view is that of the client whose load succeeded.
SuccessOfCaller(c, all, tables) ==
    /\ page' = MainView(c, all[c], tables[c])
    /\ mainView' = TRUE /\ message' = ""

Success(c, all, tables) == Render(all, tables)

\* SwaggerClient.fail: SwaggerUi.onLoadFailure, then throw.
Fail == /\ message' = "fail"
        /\ UNCHANGED <<page, mainView>>

Silent == UNCHANGED <<page, mainView, message>>

-----------------------------------------------------------------------------
(* Swagger 2.0: SwaggerClient.buildFromSpec                                *)

\* this[tag] is a field of the client and no group: operationGroup.apis is
\* undefined and the build throws there.
Collides(tags, k) == \E j \in 1..k : tags[j] \in Reserved

TagCollides(d) ==
    \E o \in DOMAIN d.operations : Collides(d.operations[o], Len(d.operations[o]))

\* An operation joins the group of its tag; a group is appended to apisArray at
\* its first operation.
AddToGroup(groups, tag, o) ==
    IF \E i \in DOMAIN groups : groups[i].name = tag
    THEN [i \in DOMAIN groups |->
             IF groups[i].name = tag
             THEN [groups[i] EXCEPT !.operations = Append(@, o)] ELSE groups[i]]
    ELSE Append(groups, [name |-> tag, operations |-> <<o>>])

\* The loops over the tags of an operation and over the operations, up to the
\* tag that throws.
Bind(groups, tags, o) ==
    LET bound[k \in 0..Len(tags)] ==
            IF k = 0 THEN groups
            ELSE IF Collides(tags, k) THEN bound[k - 1]
            ELSE AddToGroup(bound[k - 1], tags[k], o)
    IN bound[Len(tags)]

Groups(operations) ==
    LET grouped[n \in 0..Len(operations)] ==
            IF n = 0 THEN <<>>
            ELSE IF \E m \in 1..(n - 1) : Collides(operations[m], Len(operations[m]))
            THEN grouped[n - 1]
            ELSE Bind(grouped[n - 1], operations[n], n)
    IN grouped[Len(operations)]

\* Where a definition of client c comes from.
From(n, c, h) == [name |-> n, client |-> c, host |-> h]

\* The definitions go to the global models object, that of the client made
\* last, and replace those of the same name.
AddDefinitions(c, definitions) ==
    [models EXCEPT ![api] =
        {m \in @ : \A d \in definitions : d.name # m.name} \cup definitions]

BuildFromSpec(c, client, definitions) ==
    LET d == client.doc
        built == [client EXCEPT !.hasApis = TRUE, !.apisArray = Groups(d.operations),
                     !.isBuilt = ~TagCollides(d), !.broken = TagCollides(d)]
    IN /\ clients' = [clients EXCEPT ![c] = built]
       /\ models' = AddDefinitions(c, definitions)
       /\ IF built.isBuilt THEN Success(c, clients', models') ELSE Silent

-----------------------------------------------------------------------------
(* Resolver: the documents of the hosts that remote references name        *)

Local(c, d) == {From(n, c, "own") : n \in d.models}

\* Resolver.resolve: without remote references the build follows at once.
Resolve(c, client) ==
    LET hosts == client.doc.hosts
    IN IF hosts = <<>> THEN BuildFromSpec(c, client, Local(c, client.doc))
                            /\ requests' = requests \ {Request(c, "description", 0)}
       ELSE /\ clients' = [clients EXCEPT ![c] = client]
            /\ requests' = (requests \ {Request(c, "description", 0)})
                 \cup {Request(c, "reference", hosts[i]) : i \in DOMAIN hosts}
            /\ UNCHANGED models /\ Silent

\* `host` and `opt` belong to the function: when the answers come in, every
\* handler sees those of the last host.
HostSeen(d, h) == d.hosts[Len(d.hosts)]

\* The response handler: what it looks for is looked up in what h answered.
\* A later answer replaces an earlier one.
Looked(client, h, found) ==
    LET seen == HostSeen(client.doc, h)
        hits == {r.name : r \in {q \in client.doc.refs : q.host = seen}} \cap found
    IN {r \in client.resolvedRefs : r.host # seen \/ r.name \notin hits}
         \cup {[host |-> seen, name |-> n, answeredBy |-> h] : n \in hits}

\* Resolver.finish: a resolved "$ref" becomes a definition of its name, an
\* "inline" one is copied into the parameter.
Definitions(c, client) ==
    LET added == {r \in client.resolvedRefs :
                     \E q \in client.doc.refs :
                        q.as = "$ref" /\ q.host = r.host /\ q.name = r.name}
    IN {d \in Local(c, client.doc) : \A r \in added : r.name # d.name}
         \cup {From(r.name, c, r.answeredBy) : r \in added}

\* Seeded fault: one answer too many is waited for.
AllProcessedBeyond(client) == client.processedCalls > Len(client.doc.hosts)

AllProcessed(client) == client.processedCalls = Len(client.doc.hosts)

\* Host h answers with the models found, or not at all (found = {}).
ReferenceAnswered(c, h, found) ==
    LET heard == [clients[c] EXCEPT
                     !.processedCalls = @ + 1,
                     !.resolvedRefs = Looked(clients[c], h, found),
                     !.answers = @ \cup {[host |-> h, name |-> n] : n \in found}]
    IN /\ Request(c, "reference", h) \in requests
       /\ requests' = requests \ {Request(c, "reference", h)}
       /\ IF AllProcessed(heard) THEN BuildFromSpec(c, heard, Definitions(c, heard))
          ELSE /\ clients' = [clients EXCEPT ![c] = heard]
               /\ UNCHANGED models /\ Silent
       /\ UNCHANGED <<api, overlapped>>

-----------------------------------------------------------------------------
(* Swagger 1.x: buildFrom1_2Spec, buildFrom1_1Spec, SwaggerResource        *)

Numbered(n) == [i \in 1..n |-> i]

\* SwaggerResource.addModels: the first definition of a name stays, in the
\* models object all resources of the client share.
AddModels(c, names) ==
    models[c] \cup {From(n, c, "own") :
                       n \in {x \in names : \A m \in models[c] : m.name # x}}

\* SwaggerClient.selfReflect: what is in this.apis becomes a field, the resources
\* that failed too.  If a resource is in the place of this.apis, nothing of the
\* listing is.
Reflected(client) ==
    client.replaced \cup
        IF client.doc.kind = "declaration" THEN {client.doc.newName}
        ELSE {client.doc.resources[i] :
                 i \in {j \in DOMAIN client.doc.resources : Keeps(client, {"apis"})}}

\* Something that selfReflect, setConsolidatedModels (with these models) or the
\* call of success needs is a resource and cannot be called, pushed to or read.
Throws(client, reflected, defined) ==
    \/ ~Keeps(client, {"selfReflect"})
    \/ ~Keeps(reflected, {"setConsolidatedModels", "success"})
    \/ ~Keeps(reflected, {"modelsArray"}) /\ Keeps(reflected, {"apis"}) /\ defined # {}

\* SwaggerClient.finish: selfReflect, setConsolidatedModels, success.  Without
\* finish, or a success that is a function, it does nothing.  What throws
\* afterwards leaves the client built, and its models or a part of them; a
\* resource in the place of this.apis throws if one of its own fields is null or
\* undefined and has no models otherwise.
Finish(c, client) ==
    LET reflected == [client EXCEPT !.replaced = Reflected(client), !.isBuilt = TRUE]
        called    == Keeps(client, {"finish", "success"})
    IN \/ /\ ~called /\ Silent
          /\ clients' = [clients EXCEPT ![c] = [client EXCEPT !.broken = TRUE]]
       \/ /\ called /\ ~Throws(client, reflected, models'[c])
          /\ clients' = [clients EXCEPT ![c] = [reflected EXCEPT !.models =
                            {m \in models'[c] : Keeps(reflected, {"apis"})}]]
          /\ Success(c, clients', models')
       \/ /\ called
          /\ Throws(client, reflected, models'[c]) \/ ~Keeps(reflected, {"apis"})
          /\ \E kept \in SUBSET models'[c] :
                clients' = [clients EXCEPT ![c] =
                               [reflected EXCEPT !.models = kept, !.broken = TRUE]]
          /\ Silent

\* A description that has operations is its only resource, and pushed to apisArray.
BuildDeclaration(c, client) ==
    LET made == [client EXCEPT !.hasApis = TRUE, !.replaced = {client.doc.name},
                    !.apisArray = <<[name |-> client.doc.name,
                                     operations |-> Numbered(client.doc.operations)]>>]
    IN /\ models' = [models EXCEPT ![c] = AddModels(c, client.doc.models)]
       /\ IF Keeps(made, {"apisArray"}) THEN Finish(c, made)
          ELSE /\ clients' = [clients EXCEPT ![c] = [made EXCEPT !.broken = TRUE]]
               /\ Silent
       /\ requests' = requests \ {Request(c, "description", 0)}

\* One request per resource; without resources nothing ever finishes.
BuildListing(c, client) ==
    LET resources == client.doc.resources
    IN /\ clients' = [clients EXCEPT ![c] =
              [client EXCEPT !.hasApis = TRUE,
                  !.expectedResourceCount = Len(resources),
                  !.broken = resources = <<>>,
                  !.apisArray = [i \in DOMAIN resources |->
                                   [name |-> resources[i], operations |-> <<>>]]]]
       /\ requests' = (requests \ {Request(c, "description", 0)})
            \cup {Request(c, "resource", i) : i \in DOMAIN resources}
       /\ message' = IF resources = <<>> THEN message ELSE "fetching"
       /\ UNCHANGED <<models, page, mainView>>

AllCounted(client) == client.resourceCount = client.expectedResourceCount

\* SwaggerResource.addApiDeclaration: the resource takes the field of its name.  A
\* relative path is resolved against the basePath of the client, and if that is a
\* resource the handler throws.  Of the counters nothing finishes.
AddApiDeclaration(c, i, declaration) ==
    LET client  == [clients[c] EXCEPT !.resourceCount = @ + 1]
        counted == [client EXCEPT
                       !.replaced = @ \cup {client.doc.resources[i]},
                       !.answers = @ \cup {<<i, declaration.operations>>},
                       !.apisArray[i].operations = Numbered(declaration.operations)]
        counts  == Keeps(counted, {"resourceCount", "expectedResourceCount"})
    IN \/ /\ models' = [models EXCEPT ![c] = AddModels(c, declaration.models)]
          /\ IF counts /\ AllCounted(counted) THEN Finish(c, counted)
             ELSE /\ clients' = [clients EXCEPT ![c] =
                                   [counted EXCEPT !.broken = @ \/ ~counts]]
                  /\ Silent
       \/ /\ ~Keeps(client, {"basePath"})
          /\ clients' = [clients EXCEPT ![c] =
                            [client EXCEPT !.failed = @ \cup {i}, !.broken = TRUE]]
          /\ UNCHANGED models /\ Silent

ResourceAnswered(c, i) ==
    /\ Request(c, "resource", i) \in requests
    /\ requests' = requests \ {Request(c, "resource", i)}
    /\ \E declaration \in Declarations : AddApiDeclaration(c, i, declaration)
    /\ UNCHANGED <<api, overlapped>>

\* The resource counts as answered, the failure is shown - if fail and failure
\* are still functions - and nothing finishes if it was the last.
ResourceFailed(c, i) ==
    /\ Request(c, "resource", i) \in requests
    /\ requests' = requests \ {Request(c, "resource", i)}
    /\ clients' = [clients EXCEPT ![c].resourceCount = @ + 1,
                                     ![c].failed = @ \cup {i}, ![c].broken = TRUE]
    /\ IF Keeps(clients[c], {"fail", "failure"}) THEN Fail ELSE Silent
    /\ UNCHANGED <<api, models, overlapped>>

-----------------------------------------------------------------------------
(* The answers of the first request                                        *)

DescriptionAnswered(c, d) ==
    LET client == [clients[c] EXCEPT !.doc = d]
    IN /\ Request(c, "description", 0) \in requests
       /\ \/ d.kind = "2.0" /\ Resolve(c, client)
          \/ d.kind = "declaration" /\ BuildDeclaration(c, client)
          \/ d.kind = "listing" /\ BuildListing(c, client)
       /\ UNCHANGED <<api, overlapped>>

DescriptionFailed(c) ==
    /\ Request(c, "description", 0) \in requests
    /\ requests' = requests \ {Request(c, "description", 0)}
    /\ clients' = [clients EXCEPT ![c].broken = TRUE]
    /\ Fail
    /\ UNCHANGED <<api, models, overlapped>>

\* A text that is no JSON: JSON.parse throws in the handler.
Malformed(c) ==
    /\ \E r \in requests : r.client = c /\ r.kind # "reference"
                           /\ requests' = requests \ {r}
    /\ clients' = [clients EXCEPT ![c].broken = TRUE]
    /\ Silent
    /\ UNCHANGED <<api, models, overlapped>>

Answered(c) ==
    \/ /\ Request(c, "description", 0) \in requests
       /\ \E d \in Descriptions : DescriptionAnswered(c, d)
    \/ \E r \in requests :
           /\ r.client = c /\ r.kind = "reference"
           /\ \E found \in SUBSET Models : ReferenceAnswered(c, r.item, found)
    \/ \E r \in requests :
           /\ r.client = c /\ r.kind = "resource"
           /\ ResourceAnswered(c, r.item) \/ ResourceFailed(c, r.item)
    \/ DescriptionFailed(c)
    \/ Malformed(c)

Quiet == api = MaxLoads /\ requests = {} /\ UNCHANGED vars

Next == Load \/ (\E c \in Clients : Answered(c)) \/ Quiet

Spec == Init /\ [][Next]_vars

\* The browser ends every request, with an answer or an error; nobody need ask
\* for another load.
FairSpec == Spec /\ \A c \in Clients : WF_vars(Answered(c))

-----------------------------------------------------------------------------
(* Properties                                                              *)

\* The groups page shows are those of the description: of a 2.0 document each
\* operation once under each of its tags and nothing else, of a listing each
\* resource with what it was answered, empty only if its request failed or its
\* declaration could not be used.
ShowsDescription(c, groups) ==
    LET d == clients[c].doc
        Under(tag) == {o \in DOMAIN d.operations :
                          \E k \in DOMAIN d.operations[o] : d.operations[o][k] = tag}
        Within(g) == {g.operations[k] : k \in DOMAIN g.operations}
    IN CASE d.kind = "2.0" ->
              /\ \A g, h \in DOMAIN groups : groups[g].name = groups[h].name => g = h
              /\ \A g \in DOMAIN groups : Within(groups[g]) = Under(groups[g].name)
              /\ \A o \in DOMAIN d.operations : \A k \in DOMAIN d.operations[o] :
                    \E g \in DOMAIN groups : groups[g].name = d.operations[o][k]
         [] d.kind = "listing" ->
              /\ DOMAIN groups = DOMAIN d.resources
              /\ \A i \in DOMAIN groups :
                    IF i \in clients[c].failed THEN groups[i].operations = <<>>
                    ELSE <<i, Len(groups[i].operations)>> \in clients[c].answers
         [] d.kind = "declaration" ->
              /\ Len(groups) = 1
              /\ Len(groups[1].operations) = d.operations

\* As soon as the API asked for last is built, every request made for it has
\* ended and the page shows it and shows it whole, whatever loads that were
\* asked for earlier do later (SwaggerUi.render takes this.api, not the client
\* that succeeded), unless one of its resources has taken the place of a field
\* that the end of the load uses (this.api[this.name] = this); before that the
\* page shows no operations of another API.
ShownWhole ==
    api # 0 =>
        /\ page.groups # <<>> => page.client = api
        /\ clients[api].isBuilt => \A r \in requests : r.client # api
        /\ clients[api].isBuilt /\ Intact(clients[api]) =>
              page.client = api /\ ShowsDescription(api, page.groups)

\* Once the API asked for last is built (and none of its resources stands in the
\* way), the answers that still come in are those of loads asked for earlier:
\* they leave it and the operations shown as they are (the page may be drawn
\* again, of the same client), and when no load overlaps it nothing that was
\* shown changes until the next load.
BuiltStays ==
    [][api # 0 /\ api' = api /\ clients[api].isBuilt /\ Intact(clients[api]) =>
          /\ clients'[api] = clients[api]
          /\ page'.client = page.client /\ page'.groups = page.groups
          /\ api \notin overlapped => UNCHANGED <<page, models, message>>]_vars

\* Names of the models that come to a 2.0 document from elsewhere: those it refers
\* to at its last host, as far as any host has answered with one of that name.
FoundElsewhere(client) ==
    {r.name : r \in {q \in client.doc.refs :
        /\ q.as = "$ref" /\ q.host = client.doc.hosts[Len(client.doc.hosts)]
        /\ \E a \in client.answers : a.name = q.name}}

\* The models the page describes operations and status codes with come from the
\* description it shows, none of its own is missing, and of a 2.0 document those
\* and only those are from elsewhere that were found there: of one host what
\* it has of the references to it; of several hosts what any of them has of the
\* references to the last, whose loop variable the handlers share (Resolver).
\* Loads that overlap are excused - the build of the earlier one writes into the
\* global models object of the later one - and a resource in the place of a field.
ModelsOwn ==
    page.groups # <<>> /\ page.client \notin overlapped =>
        LET client == clients[page.client] IN
        /\ \A m \in page.models : m.client = page.client
        /\ \A m, n \in page.models : m.name = n.name => m = n
        /\ client.doc.kind # "listing" /\ Intact(client) =>
              client.doc.models \subseteq {m.name : m \in page.models}
        /\ client.doc.kind = "2.0" =>
              {m.name : m \in {n \in page.models : n.host # "own"}} = FoundElsewhere(client)

\* Every load ends: its API is built (and then shown), or somebody asks for
\* another, or something that was fetched failed or could not be used - a
\* missing answer, a text that is no JSON, an empty listing, a tag that is the
\* name of a field, a resource that has taken the place of one in use.
LoadSettles ==
    \A c \in Clients :
        api = c ~> api # c \/ clients[c].isBuilt \/ clients[c].broken
=============================================================================
