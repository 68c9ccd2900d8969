------------------------- MODULE SwaggerLoad_proofs -------------------------
(***************************************************************************)
(* The safety invariants of SwaggerLoad, for any descriptions, numbers of  *)
(* loads and of loads at a time, names of models and tags.                 *)
(***************************************************************************)
EXTENDS SwaggerLoad, FiniteSetTheorems, WellFoundedInduction, TLAPS

Hosts == UNION {{d.hosts[i] : i \in DOMAIN d.hosts} :
                   d \in {e \in Descriptions : e.kind = "2.0"}}

\* A definition of a model, and a group of operations: those of a tag, of a
\* resource or of a description that is a declaration.
Definition == [name : Models, client : Clients, host : Hosts \cup {"own"}]

Group == [name : STRING, operations : Seq(Nat)]

Resolved == [host : Hosts, name : Models, answeredBy : Hosts]

ClientType ==
    [doc : Descriptions \cup {NoDoc}, hasApis : BOOLEAN, apisArray : Seq(Group),
     isBuilt : BOOLEAN, models : SUBSET Definition, resourceCount : Nat,
     expectedResourceCount : Int, replaced : SUBSET STRING,
     resolvedRefs : SUBSET Resolved, processedCalls : Nat,
     answers : SUBSET ((Nat \X Nat) \cup [host : Hosts, name : Models]),
     failed : SUBSET Nat, broken : BOOLEAN]

PageType == [client : 0..MaxLoads, groups : Seq(Group), models : SUBSET Definition]

TypeOK ==
    /\ api \in 0..MaxLoads /\ mainView \in BOOLEAN
    /\ clients \in [Clients -> ClientType]
    /\ models \in [Clients -> SUBSET Definition]
    /\ requests \subseteq [client : 1..api, kind : {"description", "reference", "resource"},
                           item : {0} \cup Hosts \cup Nat]
    /\ page \in PageType

\* What is out for client c.
Out(c, kind, out) == {r.item : r \in {q \in out : q.client = c /\ q.kind = kind}}

\* A reference to the last host that some host has answered.
Found(x, n) == /\ \E q \in x.doc.refs : q.host = x.doc.hosts[Len(x.doc.hosts)] /\ q.name = n
               /\ \E a \in x.answers : a.name = n

\* The answers about the references of x: one for each that was found.
Looking(x) ==
    /\ \A r \in x.resolvedRefs :
          r.host = x.doc.hosts[Len(x.doc.hosts)] /\ Found(x, r.name)
    /\ \A r, s \in x.resolvedRefs : r.name = s.name => r = s
    /\ \A n : Found(x, n) => \E r \in x.resolvedRefs : r.name = n

\* What a client has looked for depends on its document and the answers alone.
LEMMA LookingSame ==
    ASSUME NEW x, NEW y, Looking(x), y.doc = x.doc,
           y.resolvedRefs = x.resolvedRefs, y.answers = x.answers
    PROVE  Looking(y)
<1>1. ASSUME NEW n PROVE Found(y, n) <=> Found(x, n)
  BY DEF Found
<1>2. ASSUME NEW r \in y.resolvedRefs
      PROVE  r.host = y.doc.hosts[Len(y.doc.hosts)] /\ Found(y, r.name)
  BY <1>1, Zenon DEF Looking
<1>3. ASSUME NEW n, Found(y, n) PROVE \E r \in y.resolvedRefs : r.name = n
  BY <1>1, <1>3, Zenon DEF Looking
<1>4. \A r, s \in y.resolvedRefs : r.name = s.name => r = s
  BY Zenon DEF Looking
<1> QED
  BY <1>2, <1>3, <1>4, Zenon DEF Looking

\* A 2.0 document: the references out and those answered.
Spec20(c, x, out) ==
    /\ Out(c, "resource", out) = {}
    /\ Out(c, "reference", out) \subseteq {x.doc.hosts[i] : i \in DOMAIN x.doc.hosts}
    /\ x.processedCalls + Cardinality(Out(c, "reference", out)) <= Len(x.doc.hosts)
    /\ Looking(x) /\ x.replaced = {}
    /\ x.isBuilt => /\ x.processedCalls = Len(x.doc.hosts)
                    /\ ~TagCollides(x.doc) /\ x.apisArray = Groups(x.doc.operations)

\* The resources of x that were answered, and those that were or failed.
Answers(x, i) == \E n \in Nat : <<i, n>> \in x.answers

Heard(x) == {i \in 1..Len(x.doc.resources) : i \in x.failed \/ Answers(x, i)}

\* A listing: the resources out and those heard of.
Listing(c, x, out) ==
    /\ Out(c, "reference", out) = {}
    /\ Out(c, "resource", out) \subseteq 1..Len(x.doc.resources)
    /\ Out(c, "resource", out) \cap Heard(x) = {}
    /\ DOMAIN x.apisArray = 1..Len(x.doc.resources)
    /\ x.hasApis /\ x.expectedResourceCount = Len(x.doc.resources)
    /\ x.resourceCount = Cardinality(Heard(x))
    /\ x.isBuilt => x.resourceCount = Len(x.doc.resources)
    /\ \A i \in 1..Len(x.doc.resources) :
          /\ ~Answers(x, i) => x.apisArray[i].operations = <<>>
          /\ Answers(x, i) => i \notin x.failed /\ <<i, Len(x.apisArray[i].operations)>> \in x.answers

\* A declaration is built as soon as it is in.
Declaration(c, x, out) ==
    /\ Out(c, "reference", out) = {} /\ Out(c, "resource", out) = {}
    /\ Len(x.apisArray) = 1 /\ Len(x.apisArray[1].operations) = x.doc.operations

\* A client and what is out for it.
Progress(c, x, out) ==
    /\ Request(c, "description", 0) \in out => x = SwaggerClient
    /\ Out(c, "description", out) \subseteq {0}
    /\ c > api => x = SwaggerClient
    /\ \A r \in out : r.client = c => ~x.isBuilt
    /\ x.isBuilt => x.hasApis /\ x.doc # NoDoc
    /\ x.doc = NoDoc => Out(c, "reference", out) = {} /\ Out(c, "resource", out) = {}
    /\ x.doc.kind = "2.0" => Spec20(c, x, out)
    /\ x.doc.kind = "listing" => Listing(c, x, out)
    /\ x.doc.kind = "declaration" => Declaration(c, x, out)

\* Definitions that come from client c, one of each name.
Own(c, defined) == /\ \A m \in defined : m.client = c
                   /\ \A m, n \in defined : m.name = n.name => m = n

\* The names of the models that are from elsewhere.
Elsewhere(defined) == {m.name : m \in {n \in defined : n.host # "own"}}

\* The models a client describes its operations with, when it is built.
Described(c, x, table) ==
    /\ Own(c, table)
    /\ x.isBuilt => /\ Own(c, ModelsOf(x, table))
                    /\ x.doc.kind # "listing" /\ Intact(x) =>
                          x.doc.models \subseteq {m.name : m \in ModelsOf(x, table)}
                    /\ x.doc.kind = "2.0" => Elsewhere(table) = FoundElsewhere(x)

\* Client x of a 2.0 document, or of none yet, still waits: no model is defined.
Empty(x, out, table) == out # {} /\ x.doc.kind \in {"none", "2.0"} => table = {}

\* While no other load is out the API asked for last has its own models.
Undisturbed ==
    api # 0 /\ api \notin overlapped =>
        /\ \A r \in requests : r.client = api
        /\ Described(api, clients[api], models[api])
        /\ Empty(clients[api], requests, models[api])

\* The groups of a client as the page shows them.
View(x) == [i \in DOMAIN Resources(x) |-> ResourceView(Resources(x)[i])]

\* The page shows nothing but the API asked for last, and that once it is built.
PageOK ==
    /\ page.groups # <<>> => page.client = api /\ api # 0 /\ mainView
    /\ api # 0 =>
          /\ clients[api].isBuilt /\ Intact(clients[api]) =>
                page.client = api
                /\ page.groups = View(clients[api])
          /\ page.groups # <<>> /\ api \notin overlapped =>
                clients[api].isBuilt /\ page.models = ModelsOf(clients[api], models[api])

IInv == /\ TypeOK /\ Undisturbed /\ PageOK
        /\ \A c \in Clients : Progress(c, clients[c], requests)

-----------------------------------------------------------------------------
(* The groups of a 2.0 document                                            *)

Within(group) == {group.operations[k] : k \in DOMAIN group.operations}

\* The groups are those of the pairs of a tag and an operation bound so far.
Grouped(groups, bound) ==
    /\ groups \in Seq(Group)
    /\ \A i, j \in DOMAIN groups : groups[i].name = groups[j].name => i = j
    /\ \A i \in DOMAIN groups : \A o \in Nat :
          o \in Within(groups[i]) <=> <<groups[i].name, o>> \in bound
    /\ \A tag \in STRING : \A o \in Nat :
          <<tag, o>> \in bound => \E i \in DOMAIN groups : groups[i].name = tag

LEMMA AppendWithin ==
    ASSUME NEW g \in Group, NEW o \in Nat,
           NEW h, h = [g EXCEPT !.operations = Append(@, o)]
    PROVE  /\ h \in Group /\ h.name = g.name
           /\ \A p \in Nat : p \in Within(h) <=> p \in Within(g) \/ p = o
<1>1. PICK s \in Seq(Nat) : s = g.operations
  BY DEF Group
<1>2. PICK t : t = Append(s, o)
  OBVIOUS
<1>3. /\ t \in Seq(Nat) /\ Len(s) \in Nat /\ Len(t) = Len(s) + 1
      /\ t[Len(s) + 1] = o /\ \A k \in 1..Len(s) : t[k] = s[k]
      /\ DOMAIN s = 1..Len(s) /\ DOMAIN t = 1..Len(t)
  BY <1>1, <1>2
<1>4. h = [g EXCEPT !.operations = t]
  BY <1>1, <1>2
<1>5. h \in Group /\ h.name = g.name /\ h.operations = t
  BY <1>3, <1>4 DEF Group
<1>6. ASSUME NEW p \in Nat PROVE p \in Within(h) <=> p \in Within(g) \/ p = o
  <2>1. p \in Within(h) <=> \E k \in 1..Len(t) : t[k] = p
    BY <1>3, <1>5 DEF Within
  <2>2. p \in Within(g) <=> \E k \in 1..Len(s) : s[k] = p
    BY <1>1, <1>3 DEF Within
  <2>3. 1..Len(t) = (1..Len(s)) \cup {Len(s) + 1}
    BY <1>3
  <2> QED
    BY <1>3, <2>1, <2>2, <2>3
<1> QED
  BY <1>5, <1>6

(* An operation more under one tag. *)
LEMMA AddToGroupKeeps ==
    ASSUME NEW groups, NEW bound, Grouped(groups, bound),
           NEW tag \in STRING, NEW o \in Nat
    PROVE  Grouped(AddToGroup(groups, tag, o), bound \cup {<<tag, o>>})
<1>1. groups \in Seq(Group) /\ Len(groups) \in Nat /\ DOMAIN groups = 1..Len(groups)
  BY DEF Grouped
<1>2. PICK new : new = AddToGroup(groups, tag, o)
  OBVIOUS
<1>3. CASE \E i \in DOMAIN groups : groups[i].name = tag
  <2>1. new = [i \in DOMAIN groups |->
                  IF groups[i].name = tag
                  THEN [groups[i] EXCEPT !.operations = Append(@, o)] ELSE groups[i]]
    BY <1>2, <1>3, Zenon DEF AddToGroup
  <2>2. DOMAIN new = DOMAIN groups
    BY <2>1
  <2>3. ASSUME NEW i \in DOMAIN groups
        PROVE  /\ new[i] \in Group /\ new[i].name = groups[i].name
               /\ \A p \in Nat : p \in Within(new[i]) <=>
                     p \in Within(groups[i]) \/ (groups[i].name = tag /\ p = o)
    <3>1. groups[i] \in Group
      BY <1>1
    <3>2. CASE groups[i].name = tag
      <4>1. new[i] = [groups[i] EXCEPT !.operations = Append(@, o)]
        BY <2>1, <3>2
      <4> QED
        BY <3>1, <3>2, <4>1, AppendWithin
    <3>3. CASE groups[i].name # tag
      <4>1. new[i] = groups[i]
        BY <2>1, <3>3
      <4> QED
        BY <3>1, <3>3, <4>1
    <3> QED
      BY <3>2, <3>3
  <2>4. new \in Seq(Group)
    <3>1. new = [i \in 1..Len(groups) |-> new[i]] /\ \A i \in 1..Len(groups) : new[i] \in Group
      BY <1>1, <2>1, <2>2, <2>3
    <3>2. new \in [1..Len(groups) -> Group]
      BY <3>1
    <3> QED
      BY <1>1, <3>2
  <2>5. \A i, j \in DOMAIN new : new[i].name = new[j].name => i = j
    BY <2>2, <2>3 DEF Grouped
  <2>6. ASSUME NEW i \in DOMAIN new, NEW p \in Nat
        PROVE  p \in Within(new[i]) <=> <<new[i].name, p>> \in bound \cup {<<tag, o>>}
    BY <2>2, <2>3 DEF Grouped
  <2>7. ASSUME NEW t \in STRING, NEW p \in Nat, <<t, p>> \in bound \cup {<<tag, o>>}
        PROVE  \E i \in DOMAIN new : new[i].name = t
    BY <1>3, <2>2, <2>3, <2>7 DEF Grouped
  <2> QED
    BY <1>2, <2>4, <2>5, <2>6, <2>7 DEF Grouped
<1>4. CASE ~\E i \in DOMAIN groups : groups[i].name = tag
  <2>1. PICK g : g = [name |-> tag, operations |-> <<o>>]
    OBVIOUS
  <2>2. g \in Group /\ g.name = tag /\ \A p \in Nat : p \in Within(g) <=> p = o
    BY <2>1 DEF Group, Within
  <2>3. new = Append(groups, g)
    BY <1>2, <1>4, <2>1, Zenon DEF AddToGroup
  <2>4. PICK last \in Nat : last = Len(groups) + 1
    BY <1>1
  <2>5. /\ new \in Seq(Group) /\ DOMAIN new = (DOMAIN groups) \cup {last}
        /\ last \notin DOMAIN groups /\ new[last] = g
        /\ \A i \in DOMAIN groups : new[i] = groups[i]
    BY <1>1, <2>2, <2>3, <2>4
  <2>6. \A i, j \in DOMAIN new : new[i].name = new[j].name => i = j
    BY <1>4, <2>2, <2>5 DEF Grouped
  <2>7. ASSUME NEW i \in DOMAIN new, NEW p \in Nat
        PROVE  p \in Within(new[i]) <=> <<new[i].name, p>> \in bound \cup {<<tag, o>>}
    <3>1. CASE i = last
      <4>1. <<tag, p>> \notin bound
        BY <1>4 DEF Grouped
      <4> QED
        BY <2>2, <2>5, <3>1, <4>1
    <3>2. CASE i \in DOMAIN groups
      <4>1. new[i] = groups[i] /\ groups[i].name # tag
        BY <1>4, <2>5, <3>2
      <4> QED
        BY <3>2, <4>1 DEF Grouped
    <3> QED
      BY <2>5, <3>1, <3>2
  <2>8. ASSUME NEW t \in STRING, NEW p \in Nat, <<t, p>> \in bound \cup {<<tag, o>>}
        PROVE  \E i \in DOMAIN new : new[i].name = t
    BY <2>2, <2>5, <2>8 DEF Grouped
  <2> QED
    BY <1>2, <2>5, <2>6, <2>7, <2>8 DEF Grouped
<1> QED
  BY <1>3, <1>4

(* What holds of 0 and goes on holds of every number: no set of numbers is *)
(* without a least one.                                                    *)
LEMMA Induction ==
    ASSUME NEW T \in SUBSET Nat, 0 \in T, \A n \in T : n + 1 \in T
    PROVE  T = Nat
<1> DEFINE R == {p \in Nat \X Nat : p[1] < p[2]}
           B == Nat \ T
<1>1. IsWellFoundedOn(R, Nat)
  BY NatLessThanWellFounded DEF OpToRel
<1>2. SUFFICES ASSUME B # {} PROVE FALSE
  OBVIOUS
<1> HIDE DEF R
<1>3. PICK x \in B : \A y \in B : ~ (<<y, x>> \in R)
  BY <1>1, <1>2, WFMin
<1>4. x \in Nat /\ x # 0 /\ x - 1 \in Nat /\ (x - 1) + 1 = x
  BY <1>3
<1>5. x - 1 \in B
  BY <1>3, <1>4
<1>6. <<x - 1, x>> \in R
  BY <1>4 DEF R
<1> QED
  BY <1>3, <1>5, <1>6


\* g is what is bound before and after each tag of an operation.
Binding(g, n, groups, tags, o) ==
    g = [k \in 0..n |-> IF k = 0 THEN groups
                        ELSE IF Collides(tags, k) THEN g[k - 1]
                        ELSE AddToGroup(g[k - 1], tags[k], o)]

LEMMA BindingExists ==
    ASSUME NEW groups, NEW tags, NEW o, NEW n \in Nat
    PROVE  \E g : Binding(g, n, groups, tags, o)
<1> DEFINE Step(k, b) == IF Collides(tags, k) THEN b ELSE AddToGroup(b, tags[k], o)
           T == {m \in Nat : \E g : Binding(g, m, groups, tags, o)}
<1>1. 0 \in T
  <2> DEFINE g == [k \in 0..0 |-> groups]
  <2>1. Binding(g, 0, groups, tags, o)
    BY DEF Binding
  <2> QED
    BY <2>1
<1>2. ASSUME NEW m \in T PROVE m + 1 \in T
  <2>1. PICK g : Binding(g, m, groups, tags, o)
    OBVIOUS
  <2>2. g = [k \in 0..m |-> IF k = 0 THEN groups ELSE Step(k, g[k - 1])]
    BY <2>1, Zenon DEF Binding
  <2> DEFINE h == [k \in 0..(m + 1) |-> IF k = m + 1 THEN Step(m + 1, g[m]) ELSE g[k]]
  <2> HIDE DEF Step
  <2>3. ASSUME NEW k \in 0..(m + 1)
        PROVE  h[k] = IF k = 0 THEN groups ELSE Step(k, h[k - 1])
    <3>1. CASE k = m + 1
      <4>1. h[k] = Step(m + 1, g[m]) /\ h[m] = g[m] /\ k # 0 /\ k - 1 = m
        BY <3>1
      <4> QED
        BY <3>1, <4>1
    <3>2. CASE k \in 0..m
      <4>1. h[k] = g[k] /\ (k # 0 => h[k - 1] = g[k - 1])
        BY <3>2
      <4>2. g[k] = IF k = 0 THEN groups ELSE Step(k, g[k - 1])
        BY <2>2, <3>2
      <4> QED
        BY <4>1, <4>2
    <3> QED
      BY <3>1, <3>2
  <2>4. h = [k \in 0..(m + 1) |-> h[k]]
    OBVIOUS
  <2> HIDE DEF h
  <2>5. h = [k \in 0..(m + 1) |-> IF k = 0 THEN groups ELSE Step(k, h[k - 1])]
    BY <2>3, <2>4
  <2>6. Binding(h, m + 1, groups, tags, o)
    BY <2>5, Zenon DEF Binding, Step
  <2> QED
    BY <2>6
<1> HIDE DEF T
<1>3. T = Nat
  BY <1>1, <1>2, Induction DEF T
<1> QED
  BY <1>3 DEF T

\* b is bound and the tags of operation o up to the k-th.
Joined(b, bound, tags, k, o) ==
    \A p : p \in b <=> p \in bound \/ \E j \in 1..k : p = <<tags[j], o>>

LEMMA BindingKeeps ==
    ASSUME NEW groups, NEW bound, Grouped(groups, bound),
           NEW tags \in Seq(STRING), NEW o \in Nat,
           NEW g, Binding(g, Len(tags), groups, tags, o)
    PROVE  \E b : /\ Grouped(g[Len(tags)], b)
                  /\ ~Collides(tags, Len(tags)) => Joined(b, bound, tags, Len(tags), o)
<1> DEFINE n == Len(tags)
           Bound(k) == \E b : /\ Grouped(g[k], b)
                              /\ ~Collides(tags, k) => Joined(b, bound, tags, k, o)
           T == {k \in Nat : k <= n => Bound(k)}
<1>1. n \in Nat /\ \A k \in 1..n : tags[k] \in STRING
  OBVIOUS
<1> HIDE DEF n
<1>2. ASSUME NEW k \in 0..n
      PROVE  g[k] = IF k = 0 THEN groups ELSE IF Collides(tags, k) THEN g[k - 1]
                    ELSE AddToGroup(g[k - 1], tags[k], o)
  BY DEF Binding, n
<1>3. 0 \in T
  <2>1. g[0] = groups
    BY <1>1, <1>2
  <2>2. Joined(bound, bound, tags, 0, o)
    BY DEF Joined
  <2> QED
    BY <2>1, <2>2
<1>4. ASSUME NEW k \in T PROVE k + 1 \in T
  <2>1. SUFFICES ASSUME k + 1 <= n PROVE Bound(k + 1)
    OBVIOUS
  <2>2. k + 1 \in 0..n /\ k + 1 # 0 /\ (k + 1) - 1 = k /\ k + 1 \in 1..n /\ k <= n
        /\ 1..(k + 1) = (1..k) \cup {k + 1}
    BY <1>1, <2>1
  <2>3. PICK b : Grouped(g[k], b) /\ (~Collides(tags, k) => Joined(b, bound, tags, k, o))
    BY <2>2
  <2>4. CASE Collides(tags, k + 1)
    <3>1. g[k + 1] = g[k]
      BY <1>2, <2>2, <2>4
    <3> QED
      BY <2>3, <2>4, <3>1
  <2>5. CASE ~Collides(tags, k + 1)
    <3>1. ~Collides(tags, k)
      BY <2>2, <2>5 DEF Collides
    <3>2. g[k + 1] = AddToGroup(g[k], tags[k + 1], o)
      BY <1>2, <2>2, <2>5
    <3>3. tags[k + 1] \in STRING
      BY <1>1, <2>2
    <3>4. Grouped(g[k + 1], b \cup {<<tags[k + 1], o>>})
      <4>1. Grouped(g[k], b)
        BY <2>3
      <4>2. Grouped(AddToGroup(g[k], tags[k + 1], o), b \cup {<<tags[k + 1], o>>})
        BY <3>3, <4>1, AddToGroupKeeps, Zenon
      <4> QED
        BY <3>2, <4>2, Zenon
    <3>5. Joined(b \cup {<<tags[k + 1], o>>}, bound, tags, k + 1, o)
      BY <2>2, <2>3, <3>1 DEF Joined
    <3> QED
      BY <3>4, <3>5
  <2> QED
    BY <2>4, <2>5
<1> HIDE DEF T
<1>5. n \in T
  BY <1>1, <1>3, <1>4, Induction DEF T
<1> QED
  BY <1>1, <1>5 DEF T, n

(* An operation joins the groups of all its tags. *)
LEMMA BindKeeps ==
    ASSUME NEW groups, NEW bound, Grouped(groups, bound),
           NEW tags \in Seq(STRING), NEW o \in Nat
    PROVE  \E b : /\ Grouped(Bind(groups, tags, o), b)
                  /\ ~Collides(tags, Len(tags)) => Joined(b, bound, tags, Len(tags), o)
<1> DEFINE g == CHOOSE bd : bd = [k \in 0..Len(tags) |->
                    IF k = 0 THEN groups ELSE IF Collides(tags, k) THEN bd[k - 1]
                    ELSE AddToGroup(bd[k - 1], tags[k], o)]
<1>1. Binding(g, Len(tags), groups, tags, o)
  <2>1. Len(tags) \in Nat
    OBVIOUS
  <2>2. \E h : Binding(h, Len(tags), groups, tags, o)
    BY <2>1, BindingExists
  <2> QED
    BY <2>2, Zenon DEF Binding
<1>2. Bind(groups, tags, o) = g[Len(tags)]
  BY DEF Bind
<1> HIDE DEF g
<1> QED
  BY <1>1, <1>2, BindingKeeps

\* Some operation up to the n-th has a tag that collides.
Stopped(ops, n) == \E m \in 1..n : Collides(ops[m], Len(ops[m]))

\* g is what is grouped before and after each operation.
Grouping(g, n, ops) ==
    g = [m \in 0..n |-> IF m = 0 THEN <<>>
                        ELSE IF \E l \in 1..(m - 1) : Collides(ops[l], Len(ops[l]))
                        THEN g[m - 1] ELSE Bind(g[m - 1], ops[m], m)]

LEMMA GroupingExists ==
    ASSUME NEW ops, NEW n \in Nat
    PROVE  \E g : Grouping(g, n, ops)
<1> DEFINE Step(m, b) == IF \E l \in 1..(m - 1) : Collides(ops[l], Len(ops[l]))
                         THEN b ELSE Bind(b, ops[m], m)
           T == {m \in Nat : \E g : Grouping(g, m, ops)}
<1>1. 0 \in T
  <2> DEFINE g == [m \in 0..0 |-> <<>>]
  <2>1. Grouping(g, 0, ops)
    BY DEF Grouping
  <2> QED
    BY <2>1
<1>2. ASSUME NEW m \in T PROVE m + 1 \in T
  <2>1. PICK g : Grouping(g, m, ops)
    OBVIOUS
  <2>2. g = [k \in 0..m |-> IF k = 0 THEN <<>> ELSE Step(k, g[k - 1])]
    BY <2>1, Zenon DEF Grouping
  <2> DEFINE h == [k \in 0..(m + 1) |-> IF k = m + 1 THEN Step(m + 1, g[m]) ELSE g[k]]
  <2> HIDE DEF Step
  <2>3. ASSUME NEW k \in 0..(m + 1)
        PROVE  h[k] = IF k = 0 THEN <<>> ELSE Step(k, h[k - 1])
    <3>1. CASE k = m + 1
      <4>1. h[k] = Step(m + 1, g[m]) /\ h[m] = g[m] /\ k # 0 /\ k - 1 = m
        BY <3>1
      <4> QED
        BY <3>1, <4>1
    <3>2. CASE k \in 0..m
      <4>1. h[k] = g[k] /\ (k # 0 => h[k - 1] = g[k - 1])
        BY <3>2
      <4>2. g[k] = IF k = 0 THEN <<>> ELSE Step(k, g[k - 1])
        BY <2>2, <3>2
      <4> QED
        BY <4>1, <4>2
    <3> QED
      BY <3>1, <3>2
  <2>4. h = [k \in 0..(m + 1) |-> h[k]]
    OBVIOUS
  <2> HIDE DEF h
  <2>5. h = [k \in 0..(m + 1) |-> IF k = 0 THEN <<>> ELSE Step(k, h[k - 1])]
    BY <2>3, <2>4
  <2>6. Grouping(h, m + 1, ops)
    BY <2>5, Zenon DEF Grouping, Step
  <2> QED
    BY <2>6
<1> HIDE DEF T
<1>3. T = Nat
  BY <1>1, <1>2, Induction DEF T
<1> QED
  BY <1>3 DEF T

\* b is the pairs of an operation up to the n-th and one of its tags.
Tagged(b, ops, n) ==
    \A p : p \in b <=> \E m \in 1..n : \E j \in 1..Len(ops[m]) : p = <<ops[m][j], m>>

LEMMA GroupingKeeps ==
    ASSUME NEW ops \in Seq(Seq(STRING)), NEW g, Grouping(g, Len(ops), ops)
    PROVE  \E b : /\ Grouped(g[Len(ops)], b)
                  /\ ~Stopped(ops, Len(ops)) => Tagged(b, ops, Len(ops))
<1> DEFINE n == Len(ops)
           Good(m) == \E b : /\ Grouped(g[m], b)
                             /\ ~Stopped(ops, m) => Tagged(b, ops, m)
           T == {m \in Nat : m <= n => Good(m)}
<1>1. n \in Nat /\ \A m \in 1..n : ops[m] \in Seq(STRING)
  OBVIOUS
<1> HIDE DEF n
<1>2. ASSUME NEW m \in 0..n
      PROVE  g[m] = IF m = 0 THEN <<>> ELSE IF Stopped(ops, m - 1) THEN g[m - 1]
                    ELSE Bind(g[m - 1], ops[m], m)
  BY DEF Grouping, Stopped, n
<1>3. 0 \in T
  <2>1. g[0] = <<>>
    BY <1>1, <1>2
  <2>2. Grouped(<<>>, {})
    BY DEF Grouped
  <2>3. Tagged({}, ops, 0)
    BY DEF Tagged
  <2> QED
    BY <2>1, <2>2, <2>3
<1>4. ASSUME NEW m \in T PROVE m + 1 \in T
  <2>1. SUFFICES ASSUME m + 1 <= n PROVE Good(m + 1)
    OBVIOUS
  <2>2. m + 1 \in 0..n /\ m + 1 # 0 /\ (m + 1) - 1 = m /\ m + 1 \in 1..n /\ m <= n
        /\ 1..(m + 1) = (1..m) \cup {m + 1} /\ m + 1 \in Nat
    BY <1>1, <2>1
  <2>3. PICK b : Grouped(g[m], b) /\ (~Stopped(ops, m) => Tagged(b, ops, m))
    BY <2>2
  <2>4. CASE Stopped(ops, m)
    <3>1. g[m + 1] = g[m]
      BY <1>2, <2>2, <2>4
    <3>2. Stopped(ops, m + 1)
      BY <2>2, <2>4 DEF Stopped
    <3> QED
      BY <2>3, <3>1, <3>2
  <2>5. CASE ~Stopped(ops, m)
    <3>1. g[m + 1] = Bind(g[m], ops[m + 1], m + 1)
      BY <1>2, <2>2, <2>5
    <3>2. ops[m + 1] \in Seq(STRING)
      BY <1>1, <2>2
    <3>3. Grouped(g[m], b) /\ m + 1 \in Nat
      BY <2>2, <2>3
    <3>4. PICK d : /\ Grouped(Bind(g[m], ops[m + 1], m + 1), d)
                   /\ ~Collides(ops[m + 1], Len(ops[m + 1])) =>
                         Joined(d, b, ops[m + 1], Len(ops[m + 1]), m + 1)
      BY <3>2, <3>3, BindKeeps, Zenon
    <3>5. ASSUME ~Stopped(ops, m + 1) PROVE Tagged(d, ops, m + 1)
      <4>1. ~Collides(ops[m + 1], Len(ops[m + 1]))
        BY <2>2, <3>5 DEF Stopped
      <4>2. Joined(d, b, ops[m + 1], Len(ops[m + 1]), m + 1) /\ Tagged(b, ops, m)
        BY <2>3, <2>5, <3>4, <4>1
      <4> QED
        BY <2>2, <4>2, Zenon DEF Joined, Tagged
    <3>6. Grouped(g[m + 1], d)
      BY <3>1, <3>4, Zenon
    <3> QED
      BY <3>5, <3>6
  <2> QED
    BY <2>4, <2>5
<1> HIDE DEF T
<1>5. n \in T
  BY <1>1, <1>3, <1>4, Induction DEF T
<1> QED
  BY <1>1, <1>5 DEF T, n

(* The groups are typed, and without a tag that collides they are those of *)
(* every operation and its tags.                                           *)
LEMMA GroupsFacts ==
    ASSUME NEW ops \in Seq(Seq(STRING))
    PROVE  \E b : /\ Grouped(Groups(ops), b)
                  /\ ~Stopped(ops, Len(ops)) => Tagged(b, ops, Len(ops))
<1> DEFINE g == CHOOSE gr : gr = [m \in 0..Len(ops) |->
                    IF m = 0 THEN <<>>
                    ELSE IF \E l \in 1..(m - 1) : Collides(ops[l], Len(ops[l]))
                    THEN gr[m - 1] ELSE Bind(gr[m - 1], ops[m], m)]
<1>1. Grouping(g, Len(ops), ops)
  <2>1. Len(ops) \in Nat
    OBVIOUS
  <2>2. \E h : Grouping(h, Len(ops), ops)
    BY <2>1, GroupingExists
  <2> QED
    BY <2>2, Zenon DEF Grouping
<1>2. Groups(ops) = g[Len(ops)]
  BY DEF Groups
<1> HIDE DEF g
<1> QED
  BY <1>1, <1>2, GroupingKeeps

LEMMA GroupsTyped ==
    ASSUME NEW d \in Descriptions, d.kind = "2.0"
    PROVE  Groups(d.operations) \in Seq(Group)
BY GroupsFacts, DocumentsAssumption DEF DescriptionType, Grouped

(* What ShowsDescription says of the groups of a 2.0 document. *)
GroupsOf(d, groups) ==
    /\ \A g, h \in DOMAIN groups : groups[g].name = groups[h].name => g = h
    /\ \A g \in DOMAIN groups :
          Within(groups[g]) =
             {o \in DOMAIN d.operations : \E k \in DOMAIN d.operations[o] :
                 d.operations[o][k] = groups[g].name}
    /\ \A o \in DOMAIN d.operations : \A k \in DOMAIN d.operations[o] :
          \E g \in DOMAIN groups : groups[g].name = d.operations[o][k]

LEMMA GroupsShow ==
    ASSUME NEW d \in Descriptions, d.kind = "2.0", ~TagCollides(d),
           NEW groups, groups = Groups(d.operations)
    PROVE  GroupsOf(d, groups)
<1>1. PICK ops \in Seq(Seq(STRING)) : ops = d.operations
  BY DocumentsAssumption DEF DescriptionType
<1>2. /\ Len(ops) \in Nat /\ DOMAIN ops = 1..Len(ops)
      /\ \A o \in DOMAIN ops : ops[o] \in Seq(STRING)
  OBVIOUS
<1>3. \A o \in DOMAIN ops : /\ DOMAIN ops[o] = 1..Len(ops[o])
                            /\ \A k \in DOMAIN ops[o] : ops[o][k] \in STRING
  BY <1>2
<1>4. ~Stopped(ops, Len(ops))
  BY <1>1, <1>2 DEF Stopped, TagCollides
<1>5. PICK b : Grouped(groups, b) /\ Tagged(b, ops, Len(ops))
  BY <1>1, <1>4, GroupsFacts
<1>6. \A p : p \in b <=> \E o \in DOMAIN ops : \E k \in DOMAIN ops[o] : p = <<ops[o][k], o>>
  BY <1>2, <1>3, <1>5, Zenon DEF Tagged
<1>7. ASSUME NEW g \in DOMAIN groups
      PROVE  Within(groups[g]) = {o \in DOMAIN ops : \E k \in DOMAIN ops[o] :
                                     ops[o][k] = groups[g].name}
  <2>1. groups[g] \in Group
    BY <1>5 DEF Grouped
  <2>2. \A o : o \in Within(groups[g]) => o \in Nat
    <3>1. PICK s \in Seq(Nat) : s = groups[g].operations
      BY <2>1 DEF Group
    <3> QED
      BY <3>1 DEF Within
  <2>3. \A o \in Nat : o \in Within(groups[g]) <=> <<groups[g].name, o>> \in b
    BY <1>5, Zenon DEF Grouped
  <2>4. DOMAIN ops \subseteq Nat
    BY <1>2
  <2>5. ASSUME NEW o \in Nat
        PROVE  <<groups[g].name, o>> \in b <=>
                  o \in DOMAIN ops /\ \E k \in DOMAIN ops[o] : ops[o][k] = groups[g].name
    BY <1>6
  <2> QED
    BY <2>2, <2>3, <2>4, <2>5
<1>8. ASSUME NEW o \in DOMAIN ops, NEW k \in DOMAIN ops[o]
      PROVE  \E g \in DOMAIN groups : groups[g].name = ops[o][k]
  <2>1. o \in Nat /\ ops[o][k] \in STRING
    BY <1>2, <1>3
  <2>2. <<ops[o][k], o>> \in b
    BY <1>6
  <2> QED
    BY <1>5, <2>1, <2>2 DEF Grouped
<1>9. \A g, h \in DOMAIN groups : groups[g].name = groups[h].name => g = h
  BY <1>5, Zenon DEF Grouped
<1> QED
  BY <1>1, <1>7, <1>8, <1>9 DEF GroupsOf

-----------------------------------------------------------------------------
(* A client and what is out for it                                         *)

LEMMA SwaggerClientTyped == SwaggerClient \in ClientType
<1>1. <<>> \in Seq(Group) /\ -1 \in Int
  OBVIOUS
<1> QED
  BY <1>1 DEF SwaggerClient, ClientType

LEMMA NothingTyped == Nothing \in PageType
<1>1. <<>> \in Seq(Group) /\ 0 \in 0..MaxLoads
  BY DocumentsAssumption
<1> QED
  BY <1>1 DEF Nothing, PageType

LEMMA FreshProgress ==
    ASSUME NEW c, NEW out, Out(c, "description", out) \subseteq {0},
           Out(c, "reference", out) = {}, Out(c, "resource", out) = {}
    PROVE  Progress(c, SwaggerClient, out)
BY DEF Progress, SwaggerClient, NoDoc

(* A step that leaves a client and its requests alone. *)
LEMMA ProgressSame ==
    ASSUME NEW c, clients'[c] = clients[c], api \in Int, api' \in Int, c \in Int, api <= api',
           \A r : r.client = c => (r \in requests <=> r \in requests'),
           Progress(c, clients[c], requests)
    PROVE  Progress(c, clients[c], requests)'
<1>1. ASSUME NEW kind PROVE Out(c, kind, requests') = Out(c, kind, requests)
  BY Zenon DEF Out
<1>2. Request(c, "description", 0).client = c
  BY DEF Request
<1>3. c > api' => c > api
  OBVIOUS
<1>4. Request(c, "description", 0) \in requests' <=> Request(c, "description", 0) \in requests
  BY <1>2
<1>5. \A r \in requests' : r.client = c => r \in requests
  OBVIOUS
<1>6. Spec20(c, clients[c], requests) => Spec20(c, clients[c], requests')
  BY <1>1 DEF Spec20
<1>7. Listing(c, clients[c], requests) => Listing(c, clients[c], requests')
  BY <1>1 DEF Listing
<1>8. Declaration(c, clients[c], requests) => Declaration(c, clients[c], requests')
  BY <1>1 DEF Declaration
<1>9. PICK x : x = clients[c]
  OBVIOUS
<1>10. Progress(c, x, requests)
  BY <1>9
<1>11. /\ Request(c, "description", 0) \in requests' => x = SwaggerClient
       /\ c > api' => x = SwaggerClient
       /\ \A r \in requests' : r.client = c => ~x.isBuilt
       /\ x.isBuilt => x.hasApis /\ x.doc # NoDoc
  BY <1>3, <1>4, <1>5, <1>10, Zenon DEF Progress
<1>12. /\ Out(c, "description", requests') \subseteq {0}
       /\ x.doc = NoDoc => Out(c, "reference", requests') = {} /\ Out(c, "resource", requests') = {}
       /\ x.doc.kind = "2.0" => Spec20(c, x, requests')
       /\ x.doc.kind = "listing" => Listing(c, x, requests')
       /\ x.doc.kind = "declaration" => Declaration(c, x, requests')
  BY <1>1, <1>6, <1>7, <1>8, <1>9, <1>10, Zenon DEF Progress
<1> QED
  BY <1>9, <1>11, <1>12, Zenon DEF Progress

-----------------------------------------------------------------------------
(* What every handler does to the rest of the state                        *)

LEMMA InitIInv == Init => IInv
<1> SUFFICES ASSUME Init PROVE IInv
  OBVIOUS
<1>1. /\ api = 0 /\ requests = {} /\ page = Nothing /\ mainView = FALSE
      /\ clients = [c \in Clients |-> SwaggerClient] /\ models = [c \in Clients |-> {}]
  BY Zenon DEF Init
<1>2. TypeOK
  <2>1. api \in 0..MaxLoads
    BY <1>1, DocumentsAssumption
  <2>2. clients \in [Clients -> ClientType] /\ page \in PageType
    BY <1>1, SwaggerClientTyped, NothingTyped
  <2> QED
    BY <1>1, <2>1, <2>2 DEF TypeOK
<1>3. \A c \in Clients : Progress(c, clients[c], requests)
  <2>1. \A c : \A kind : Out(c, kind, requests) = {}
    BY <1>1 DEF Out
  <2> QED
    BY <1>1, <2>1, FreshProgress
<1>4. PageOK
  BY <1>1 DEF PageOK, Nothing
<1> QED
  BY <1>1, <1>2, <1>3, <1>4 DEF IInv, Undisturbed

LEMMA ModelsOfTyped ==
    ASSUME NEW x \in ClientType, NEW table \in SUBSET Definition
    PROVE  ModelsOf(x, table) \in SUBSET Definition
BY DEF ModelsOf, ClientType

LEMMA ResourcesTyped ==
    ASSUME NEW x \in ClientType
    PROVE  Resources(x) \in Seq(Group)
<1>1. <<>> \in Seq(Group) /\ x.apisArray \in Seq(Group)
  BY DEF ClientType
<1> QED
  BY <1>1 DEF Resources

(* The view of a client has its groups.  *)
LEMMA MainViewFacts ==
    ASSUME NEW c \in Clients, NEW x \in ClientType, NEW table \in SUBSET Definition,
           NEW v, v = MainView(c, x, table)
    PROVE  /\ v \in PageType /\ v.client = c /\ v.models = ModelsOf(x, table)
           /\ v.groups = View(x)
<1>1. PICK s \in Seq(Group) : s = Resources(x)
  BY ResourcesTyped
<1>2. PICK t : t = [i \in DOMAIN s |-> ResourceView(s[i])]
  OBVIOUS
<1>3. t \in Seq(Group)
  <2>1. Len(s) \in Nat /\ DOMAIN s = 1..Len(s) /\ \A i \in DOMAIN s : s[i] \in Group
    OBVIOUS
  <2>2. \A g \in Group : ResourceView(g) \in Group
    BY DEF ResourceView, Group
  <2>3. t \in [1..Len(s) -> Group]
    BY <1>2, <2>1, <2>2
  <2> QED
    BY <2>1, <2>3
<1>4. v = [client |-> c, groups |-> t, models |-> ModelsOf(x, table)]
  BY <1>1, <1>2, Zenon DEF MainView, StatusCodeModels, View
<1>5. c \in 0..MaxLoads
  BY DocumentsAssumption DEF Clients
<1>6. v \in PageType
  BY <1>3, <1>4, <1>5, ModelsOfTyped DEF PageType
<1>7. t = View(x)
  BY <1>1, <1>2, Zenon DEF View
<1> QED
  BY <1>4, <1>6, <1>7

(* The step of a handler: of c, for which a request is out.  It leaves the *)
(* other clients and their requests alone; when it has built c it shows    *)
(* the page, unless a resource stands in the place of something it needs.  *)
Handles(c, x) ==
    /\ clients' = [clients EXCEPT ![c] = x] /\ UNCHANGED <<api, overlapped>>
    /\ \A r : r.client # c => (r \in requests <=> r \in requests')
    /\ \/ x.isBuilt /\ Success(c, clients', models')
       \/ ~(x.isBuilt /\ Intact(x)) /\ UNCHANGED <<page, mainView>>

LEMMA WaitingFacts ==
    ASSUME IInv, NEW c \in Clients, Waiting(c)
    PROVE  /\ ~clients[c].isBuilt /\ clients[c] \in ClientType /\ models[c] \in SUBSET Definition
           /\ Progress(c, clients[c], requests)
           /\ api \in Clients /\ c <= api /\ c \in Nat /\ api \in Nat
           /\ api \notin overlapped => c = api /\ Own(c, models[c])
                 /\ (clients[c].doc.kind \in {"none", "2.0"} => models[c] = {})
<1>1. PICK r \in requests : r.client = c
  BY DEF Waiting
<1>2. Progress(c, clients[c], requests) /\ TypeOK /\ Undisturbed
  BY DEF IInv
<1>3. ~clients[c].isBuilt
  BY <1>1, <1>2 DEF Progress
<1>4. clients[c] \in ClientType /\ models[c] \in SUBSET Definition
  BY <1>2 DEF TypeOK
<1>5. c \in 1..api
  <2>1. r \in [client : 1..api, kind : {"description", "reference", "resource"},
               item : {0} \cup Hosts \cup Nat]
    BY <1>1, <1>2, Zenon DEF TypeOK
  <2> QED
    BY <1>1, <2>1
<1>6. api \in Clients /\ c <= api /\ c \in Nat /\ api \in Nat /\ api # 0
  BY <1>2, <1>5, DocumentsAssumption DEF TypeOK, Clients
<1>7. ASSUME api \notin overlapped
      PROVE  c = api /\ Own(c, models[c])
             /\ (clients[c].doc.kind \in {"none", "2.0"} => models[c] = {})
  <2>1. c = api /\ Own(c, models[c]) /\ Empty(clients[c], requests, models[c])
    BY <1>1, <1>2, <1>6, <1>7, Zenon DEF Undisturbed, Described
  <2> QED
    BY <1>1, <2>1 DEF Empty
<1> QED
  BY <1>2, <1>3, <1>4, <1>6, <1>7

LEMMA HandlerKeepsPage ==
    ASSUME IInv, NEW c \in Clients, Waiting(c), NEW x \in ClientType, Handles(c, x),
           x.isBuilt => x.hasApis, models' \in [Clients -> SUBSET Definition]
    PROVE  PageOK' /\ page' \in PageType /\ mainView' \in BOOLEAN
<1>1. api \in Clients /\ api \in Nat /\ api # 0 /\ (api \notin overlapped => c = api)
  BY WaitingFacts, DocumentsAssumption DEF Clients
<1>2. ~clients[c].isBuilt
  BY WaitingFacts, Zenon
<1>3. PageOK /\ TypeOK /\ \A k \in Clients : Progress(k, clients[k], requests)
  BY DEF IInv
<1>4. /\ api' = api /\ overlapped' = overlapped
      /\ clients' \in [Clients -> ClientType] /\ clients'[c] = x
      /\ \A k \in Clients : k # c => clients'[k] = clients[k]
  BY <1>3 DEF Handles, TypeOK
<1>5. clients'[api].isBuilt => clients'[api].hasApis
  BY <1>1, <1>3, <1>4, Zenon DEF Progress
<1>5a. ASSUME UNCHANGED <<page, mainView>>, c = api => ~(x.isBuilt /\ Intact(x))
       PROVE  PageOK' /\ page' \in PageType /\ mainView' \in BOOLEAN
  <2>1. page' = page /\ mainView' = mainView
    BY <1>5a
  <2>2. CASE c = api
    <3>1. ~(clients'[api].isBuilt /\ Intact(clients'[api]))
      BY <1>4, <1>5a, <2>2
    <3>2. page.groups # <<>> => api \in overlapped
      BY <1>1, <1>2, <1>3, <2>2, Zenon DEF PageOK
    <3>3. PageOK'
      BY <1>3, <1>4, <2>1, <3>1, <3>2, Zenon DEF PageOK
    <3> QED
      BY <1>3, <2>1, <3>3 DEF TypeOK
  <2>3. CASE c # api
    <3>1. clients'[api] = clients[api] /\ api \in overlapped
      BY <1>1, <1>4, <2>3
    <3>2. /\ page.groups # <<>> => page.client = api /\ api # 0 /\ mainView
          /\ clients[api].isBuilt /\ Intact(clients[api]) =>
                page.client = api
                /\ page.groups = View(clients[api])
      BY <1>1, <1>3, Zenon DEF PageOK
    <3>3. page'.groups # <<>> => page'.client = api' /\ api' # 0 /\ mainView'
      BY <1>4, <2>1, <3>2
    <3>4. clients'[api'].isBuilt /\ Intact(clients'[api']) =>
             page'.client = api'
             /\ page'.groups = View(clients'[api'])
      BY <1>4, <2>1, <3>1, <3>2, Zenon
    <3>5. api' \in overlapped'
      BY <1>4, <3>1
    <3>6. PageOK'
      BY <3>3, <3>4, <3>5, Zenon DEF PageOK
    <3> QED
      BY <1>3, <2>1, <3>6 DEF TypeOK
  <2> QED
    BY <2>2, <2>3
<1>6. CASE x.isBuilt /\ Success(c, clients', models')
  <2>0. CASE ~Keeps(clients'[api], {"securityDefinitions"}) /\ UNCHANGED <<page, mainView>>
    <3>1. c = api => ~(x.isBuilt /\ Intact(x))
      BY <1>4, <2>0 DEF Intact, Keeps
    <3> QED
      BY <1>5a, <2>0, <3>1
  <2>1. CASE /\ clients'[api].hasApis
             /\ page' = MainView(api, clients'[api], models'[api]) /\ mainView' = TRUE
    <3>1. page' = MainView(api, clients'[api], models'[api]) /\ mainView'
      BY <2>1
    <3>2. clients'[api] \in ClientType /\ models'[api] \in SUBSET Definition
      BY <1>1, <1>4
    <3>3. /\ page' \in PageType /\ page'.client = api
          /\ page'.models = ModelsOf(clients'[api], models'[api])
          /\ page'.groups = View(clients'[api])
      BY <1>1, <3>1, <3>2, MainViewFacts
    <3>4. api \notin overlapped => clients'[api].isBuilt
      BY <1>1, <1>4, <1>6
    <3>5. mainView' \in BOOLEAN
      BY <2>1
    <3>6. PageOK'
      BY <1>1, <1>4, <3>1, <3>3, <3>4, Zenon DEF PageOK
    <3> QED
      BY <3>3, <3>5, <3>6
  <2>2. CASE ~clients'[api].hasApis
    <3>1. page' = [Nothing EXCEPT !.client = api] /\ mainView' = mainView
      BY <1>4, <1>6, <2>2, Zenon DEF Success, Render
    <3>2. page' \in PageType
      <4>1. api \in 0..MaxLoads
        BY <1>3 DEF TypeOK
      <4> QED
        BY <3>1, <4>1, NothingTyped DEF PageType
    <3>3. page'.groups = <<>>
      BY <3>1 DEF Nothing
    <3>4. PageOK'
      BY <1>4, <1>5, <2>2, <3>3, Zenon DEF PageOK
    <3> QED
      BY <1>3, <3>1, <3>2, <3>4 DEF TypeOK
  <2>3. CASE clients'[api].hasApis
    BY <1>4, <1>6, <2>0, <2>1, <2>3, Zenon DEF Success, Render
  <2> QED
    BY <2>2, <2>3
<1>7. CASE ~(x.isBuilt /\ Intact(x)) /\ UNCHANGED <<page, mainView>>
  BY <1>5a, <1>7
<1> QED
  BY <1>6, <1>7, Zenon DEF Handles

LEMMA HandlerKeeps ==
    ASSUME IInv, NEW c \in Clients, Waiting(c), NEW x \in ClientType, Handles(c, x),
           requests' \subseteq [client : 1..api,
                                kind : {"description", "reference", "resource"},
                                item : {0} \cup Hosts \cup Nat],
           Progress(c, x, requests'), models' \in [Clients -> SUBSET Definition],
           api \notin overlapped =>
              Described(c, x, models'[c]) /\ Empty(x, requests', models'[c])
    PROVE  IInv'
<1>1. x.isBuilt => x.hasApis
  BY DEF Progress
<1>2. PageOK' /\ page' \in PageType /\ mainView' \in BOOLEAN
  BY <1>1, HandlerKeepsPage
<1>3. TypeOK /\ Undisturbed /\ \A k \in Clients : Progress(k, clients[k], requests)
  BY DEF IInv
<1>4. /\ api' = api /\ overlapped' = overlapped
      /\ clients' \in [Clients -> ClientType] /\ clients'[c] = x
      /\ \A k \in Clients : k # c => clients'[k] = clients[k]
  BY <1>3 DEF Handles, TypeOK
<1>5. TypeOK'
  BY <1>2, <1>3, <1>4 DEF TypeOK
<1>6. ASSUME NEW k \in Clients PROVE Progress(k, clients[k], requests)'
  <2>1. CASE k = c
    <3>1. PICK y : y = clients'[c] /\ y = x
      BY <1>4
    <3>2. /\ Request(c, "description", 0) \in requests' => y = SwaggerClient
          /\ c > api' => y = SwaggerClient
          /\ \A r \in requests' : r.client = c => ~y.isBuilt
          /\ y.isBuilt => y.hasApis /\ y.doc # NoDoc
      BY <1>4, <3>1, Zenon DEF Progress
    <3>3. /\ Out(c, "description", requests') \subseteq {0}
          /\ y.doc = NoDoc => Out(c, "reference", requests') = {} /\ Out(c, "resource", requests') = {}
          /\ y.doc.kind = "2.0" => Spec20(c, y, requests')
          /\ y.doc.kind = "listing" => Listing(c, y, requests')
          /\ y.doc.kind = "declaration" => Declaration(c, y, requests')
      BY <3>1, Zenon DEF Progress
    <3> QED
      BY <2>1, <3>1, <3>2, <3>3, Zenon DEF Progress
  <2>2. CASE k # c
    <3>1. api \in Int /\ api' \in Int /\ api <= api' /\ k \in Int
      BY <1>3, <1>4, DocumentsAssumption DEF TypeOK, Clients
    <3>2. \A r : r.client = k => (r \in requests <=> r \in requests')
      BY <2>2, Zenon DEF Handles
    <3>3. clients'[k] = clients[k] /\ Progress(k, clients[k], requests)
      BY <1>3, <1>4, <2>2
    <3> QED
      BY <3>1, <3>2, <3>3, ProgressSame
  <2> QED
    BY <2>1, <2>2
<1>7. Undisturbed'
  <2>1. SUFFICES ASSUME api \notin overlapped
                 PROVE  /\ \A r \in requests' : r.client = api
                        /\ Described(api, clients'[api], models'[api])
                        /\ Empty(clients'[api], requests', models'[api])
    BY <1>4, Zenon DEF Undisturbed
  <2>2. c = api /\ api # 0
    BY <2>1, WaitingFacts, DocumentsAssumption DEF Clients
  <2>3. \A r \in requests : r.client = api
    BY <1>3, <2>1, <2>2, Zenon DEF Undisturbed
  <2>4. \A r \in requests' : r.client = api
    BY <2>2, <2>3, Zenon DEF Handles
  <2> QED
    BY <1>4, <2>1, <2>2, <2>4
<1> QED
  BY <1>2, <1>5, <1>6, <1>7 DEF IInv

-----------------------------------------------------------------------------
(* Loads and requests that fail                                            *)

LEMMA LoadKeeps == IInv /\ Load => IInv'
<1> SUFFICES ASSUME IInv, Load PROVE IInv'
  OBVIOUS
<1>1. TypeOK /\ PageOK /\ \A k \in Clients : Progress(k, clients[k], requests)
  BY DEF IInv
<1>2. PICK a \in Clients : a = api' /\ a = api + 1 /\ api \in Nat /\ a \in 0..MaxLoads /\ a # 0
  BY <1>1, DocumentsAssumption DEF Load, TypeOK, Clients
<1>3. PICK q : q = Request(a, "description", 0)
  OBVIOUS
<1>4. /\ requests' = requests \cup {q} /\ q.client = a /\ q.kind = "description"
      /\ clients' = [k \in Clients |-> IF Waiting(k) THEN clients[k] ELSE SwaggerClient]
      /\ models' = [k \in Clients |-> IF Waiting(k) THEN models[k] ELSE {}]
      /\ page' = (IF mainView THEN Nothing ELSE page) /\ mainView' = mainView
      /\ requests # {} => a \in overlapped'
  BY <1>2, <1>3 DEF Load, Request, NewModels
<1>5. \A r \in requests : r.client \in 1..api
  BY <1>1, Zenon DEF TypeOK
<1>6. ~Waiting(a)
  BY <1>2, <1>5 DEF Waiting
<1>7. clients'[a] = SwaggerClient /\ models'[a] = {}
  BY <1>4, <1>6
<1>8. ~SwaggerClient.isBuilt
  BY DEF SwaggerClient
<1>9. page'.groups = <<>>
  <2>1. Nothing.groups = <<>>
    BY DEF Nothing
  <2> QED
    BY <1>1, <1>4, <2>1, Zenon DEF PageOK
<1>10. TypeOK'
  <2>1. q \in [client : 1..a, kind : {"description", "reference", "resource"},
               item : {0} \cup Hosts \cup Nat]
    BY <1>2, <1>3 DEF Request
  <2>2. requests' \subseteq [client : 1..a, kind : {"description", "reference", "resource"},
                             item : {0} \cup Hosts \cup Nat]
    <3>1. 1..api \subseteq 1..a
      BY <1>2
    <3> QED
      BY <1>1, <1>4, <2>1, <3>1 DEF TypeOK
  <2>3. clients' \in [Clients -> ClientType] /\ models' \in [Clients -> SUBSET Definition]
    BY <1>1, <1>4, SwaggerClientTyped DEF TypeOK
  <2>4. page' \in PageType /\ mainView' \in BOOLEAN
    BY <1>1, <1>4, NothingTyped DEF TypeOK
  <2> QED
    BY <1>2, <2>2, <2>3, <2>4 DEF TypeOK
<1>11. Undisturbed'
  <2>1. Described(a, SwaggerClient, {}) /\ Empty(SwaggerClient, requests', {})
    BY <1>8 DEF Described, Own, Empty
  <2>2. a \notin overlapped' => \A r \in requests' : r.client = a
    BY <1>4
  <2> QED
    BY <1>2, <1>7, <2>1, <2>2 DEF Undisturbed
<1>12. PageOK'
  BY <1>2, <1>7, <1>8, <1>9, Zenon DEF PageOK
<1>13. ASSUME NEW k \in Clients PROVE Progress(k, clients[k], requests)'
  <2>1. CASE Waiting(k)
    <3>1. k # a /\ clients'[k] = clients[k]
      BY <1>4, <1>6, <2>1
    <3>2. \A r : r.client = k => (r \in requests <=> r \in requests')
      BY <1>4, <3>1
    <3>3. api \in Int /\ api' \in Int /\ k \in Int /\ api <= api'
      BY <1>2, DocumentsAssumption DEF Clients
    <3> QED
      BY <1>1, <3>1, <3>2, <3>3, ProgressSame
  <2>2. CASE ~Waiting(k)
    <3>1. clients'[k] = SwaggerClient
      BY <1>4, <2>2
    <3>2. \A r \in requests' : r.client = k => r.kind = "description" /\ r.item = 0
      BY <1>3, <1>4, <2>2 DEF Waiting, Request
    <3>3. /\ Out(k, "reference", requests') = {} /\ Out(k, "resource", requests') = {}
          /\ Out(k, "description", requests') \subseteq {0}
      BY <3>2 DEF Out
    <3>4. PICK x : x = clients'[k] /\ x = SwaggerClient
      BY <3>1
    <3>5. ~x.isBuilt /\ x.doc = NoDoc /\ x.doc.kind = "none"
      BY <3>4 DEF SwaggerClient, NoDoc
    <3> QED
      BY <3>3, <3>4, <3>5 DEF Progress
  <2> QED
    BY <2>1, <2>2
<1> QED
  BY <1>10, <1>11, <1>12, <1>13 DEF IInv

LEMMA Counted ==
    ASSUME NEW n \in Nat
    PROVE  IsFiniteSet(1..n) /\ Cardinality(1..n) = n
<1>1. 1 \in Int /\ n \in Int
  OBVIOUS
<1>2. IsFiniteSet(1..n) /\ Cardinality(1..n) = IF 1 > n THEN 0 ELSE n - 1 + 1
  BY FS_Interval
<1>3. (IF 1 > n THEN 0 ELSE n - 1 + 1) = n
  OBVIOUS
<1> QED
  BY <1>2, <1>3

(* A sequence has no more elements than its length. *)
LEMMA ElementsCounted ==
    ASSUME NEW S, NEW s \in Seq(S), NEW T, T = {s[i] : i \in 1..Len(s)}
    PROVE  IsFiniteSet(T) /\ Cardinality(T) \in Nat /\ Cardinality(T) <= Len(s)
<1>1. Len(s) \in Nat /\ DOMAIN s = 1..Len(s)
  OBVIOUS
<1>2. IsFiniteSet(1..Len(s)) /\ Cardinality(1..Len(s)) = Len(s)
  BY <1>1, Counted, Zenon
<1>3. s \in Surjection(1..Len(s), T)
  <2>1. s = [i \in 1..Len(s) |-> s[i]]
    BY <1>1
  <2>2. s \in [1..Len(s) -> T]
    BY <2>1
  <2> QED
    BY <2>2 DEF Surjection
<1>4. IsFiniteSet(T) /\ Cardinality(T) <= Len(s)
  BY <1>2, <1>3, FS_Surjection
<1> QED
  BY <1>4, FS_CardinalityType

(* The hosts that are out are finitely many. *)
LEMMA Spec20Finite ==
    ASSUME NEW c, NEW x \in ClientType, x.doc.kind = "2.0", NEW out, Spec20(c, x, out)
    PROVE  /\ Len(x.doc.hosts) \in Nat /\ DOMAIN x.doc.hosts = 1..Len(x.doc.hosts)
           /\ IsFiniteSet(Out(c, "reference", out))
<1>1. x.doc \in Descriptions
  BY DEF ClientType, NoDoc
<1>2. PICK hosts \in Seq({r.host : r \in x.doc.refs}) : hosts = x.doc.hosts
  BY <1>1, DocumentsAssumption DEF DescriptionType
<1>3. Len(hosts) \in Nat /\ DOMAIN hosts = 1..Len(hosts)
  BY <1>2
<1>4. IsFiniteSet({hosts[i] : i \in 1..Len(hosts)})
  BY <1>2, ElementsCounted
<1>5. Out(c, "reference", out) \subseteq {hosts[i] : i \in 1..Len(hosts)}
  BY <1>2, <1>3, Zenon DEF Spec20
<1>6. IsFiniteSet(Out(c, "reference", out))
  BY <1>4, <1>5, FS_Subset
<1> QED
  BY <1>2, <1>3, <1>6

(* A request of a client that is not built ends, and its handler throws. *)
LEMMA BrokenProgress ==
    ASSUME NEW c \in Nat, c <= api, api \in Nat, NEW x \in ClientType, ~x.isBuilt,
           NEW out, NEW less \in SUBSET out, Request(c, "description", 0) \notin less,
           Progress(c, x, out),
           NEW y, y = [x EXCEPT !.broken = TRUE]
    PROVE  y \in ClientType /\ ~y.isBuilt /\ y.doc = x.doc /\ Progress(c, y, less)
<1>1. y \in ClientType
  BY DEF ClientType
<1>2. /\ y.doc = x.doc /\ y.hasApis = x.hasApis /\ y.apisArray = x.apisArray
      /\ y.isBuilt = x.isBuilt /\ y.resourceCount = x.resourceCount
      /\ y.expectedResourceCount = x.expectedResourceCount
      /\ y.resolvedRefs = x.resolvedRefs /\ y.processedCalls = x.processedCalls
      /\ y.answers = x.answers /\ y.failed = x.failed /\ y.replaced = x.replaced
  BY DEF ClientType
<1>3. ~y.isBuilt
  BY <1>2
<1>4. ASSUME NEW kind PROVE Out(c, kind, less) \subseteq Out(c, kind, out)
  BY DEF Out
<1>5. ASSUME x.doc.kind = "2.0" PROVE Spec20(c, y, less)
  <2>1. Spec20(c, x, out)
    BY <1>5 DEF Progress
  <2>2. Looking(y)
    <3>1. Looking(x)
      BY <2>1, Zenon DEF Spec20
    <3> QED
      BY <1>2, <3>1, LookingSame
  <2>3. /\ IsFiniteSet(Out(c, "reference", out)) /\ Len(x.doc.hosts) \in Nat
        /\ x.processedCalls \in Nat
    BY <1>5, <2>1, Spec20Finite DEF ClientType
  <2>4. /\ Cardinality(Out(c, "reference", less)) <= Cardinality(Out(c, "reference", out))
        /\ Cardinality(Out(c, "reference", less)) \in Nat
        /\ Cardinality(Out(c, "reference", out)) \in Nat
    BY <1>4, <2>3, FS_Subset, FS_CardinalityType
  <2>5. x.processedCalls + Cardinality(Out(c, "reference", less)) <= Len(x.doc.hosts)
    BY <2>1, <2>3, <2>4 DEF Spec20
  <2>6. /\ Out(c, "resource", less) = {}
        /\ Out(c, "reference", less) \subseteq {x.doc.hosts[i] : i \in DOMAIN x.doc.hosts}
    BY <1>4, <2>1 DEF Spec20
  <2> QED
    BY <1>2, <1>3, <2>1, <2>2, <2>5, <2>6, Zenon DEF Spec20
<1>6. ASSUME x.doc.kind = "listing" PROVE Listing(c, y, less)
  <2>1. Listing(c, x, out)
    BY <1>6 DEF Progress
  <2>2. Heard(y) = Heard(x) /\ \A i : Answers(y, i) <=> Answers(x, i)
    BY <1>2, Zenon DEF Heard, Answers
  <2>3. /\ Out(c, "reference", less) = {}
        /\ Out(c, "resource", less) \subseteq 1..Len(x.doc.resources)
        /\ Out(c, "resource", less) \cap Heard(x) = {}
    <3>1. /\ Out(c, "reference", out) = {}
          /\ Out(c, "resource", out) \subseteq 1..Len(x.doc.resources)
          /\ Out(c, "resource", out) \cap Heard(x) = {}
      BY <2>1, Zenon DEF Listing
    <3> QED
      BY <1>4, <3>1
  <2> QED
    BY <1>2, <1>3, <2>1, <2>2, <2>3, Zenon DEF Listing
<1>7. ASSUME x.doc.kind = "declaration" PROVE Declaration(c, y, less)
  BY <1>2, <1>4, <1>7 DEF Progress, Declaration
<1>8. /\ x.doc = NoDoc => Out(c, "reference", less) = {} /\ Out(c, "resource", less) = {}
      /\ Out(c, "description", less) \subseteq {0}
  BY <1>4 DEF Progress
<1>9. ~(c > api)
  OBVIOUS
<1> QED
  BY <1>1, <1>2, <1>3, <1>5, <1>6, <1>7, <1>8, <1>9, Zenon DEF Progress

LEMMA RequestTyped ==
    ASSUME TypeOK, NEW r \in requests
    PROVE  /\ r.client \in 1..api /\ r.kind \in {"description", "reference", "resource"}
           /\ r.item \in {0} \cup Hosts \cup Nat /\ r = Request(r.client, r.kind, r.item)
<1>1. r \in [client : 1..api, kind : {"description", "reference", "resource"},
             item : {0} \cup Hosts \cup Nat]
  BY Zenon DEF TypeOK
<1> QED
  BY <1>1 DEF Request

(* Nothing else of a client is out when its description is.                *)
LEMMA DescriptionAlone ==
    ASSUME NEW c, NEW out, Progress(c, SwaggerClient, out), NEW r \in out,
           r.client = c, r.kind # "description"
    PROVE  r.kind \notin {"reference", "resource"}
<1>1. Out(c, "reference", out) = {} /\ Out(c, "resource", out) = {}
  BY Zenon DEF Progress, SwaggerClient
<1>2. r.item \in Out(c, r.kind, out)
  BY DEF Out
<1> QED
  BY <1>1, <1>2

(* A request of c ends and its handler throws: of the client only that is  *)
(* remembered.                                                             *)
LEMMA BrokenKeeps ==
    ASSUME IInv, NEW c \in Clients, NEW r \in requests, r.client = c, r.kind # "reference",
           r.kind = "description" => r = Request(c, "description", 0),
           requests' = requests \ {r}, clients' = [clients EXCEPT ![c].broken = TRUE],
           UNCHANGED <<api, models, overlapped, page, mainView>>
    PROVE  IInv'
<1>1. Waiting(c)
  BY DEF Waiting
<1>2. /\ ~clients[c].isBuilt /\ clients[c] \in ClientType
      /\ Progress(c, clients[c], requests) /\ c <= api /\ c \in Nat /\ api \in Nat
      /\ api \notin overlapped => c = api /\ Own(c, models[c])
            /\ (clients[c].doc.kind \in {"none", "2.0"} => models[c] = {})
  BY <1>1, WaitingFacts, Zenon
<1>3. Request(c, "description", 0) \notin requests'
  <2>1. CASE r.kind = "description"
    BY <2>1
  <2>2. CASE r.kind # "description"
    <3>1. r.kind = "resource"
      BY <2>2, RequestTyped DEF IInv
    <3>2. SUFFICES ASSUME Request(c, "description", 0) \in requests PROVE FALSE
      OBVIOUS
    <3>3. clients[c] = SwaggerClient
      BY <1>2, <3>2, Zenon DEF Progress
    <3>4. Progress(c, SwaggerClient, requests)
      BY <1>2, <3>3
    <3> QED
      BY <2>2, <3>1, <3>4, DescriptionAlone
  <2> QED
    BY <2>1, <2>2
<1>4. PICK y : y = [clients[c] EXCEPT !.broken = TRUE]
  OBVIOUS
<1>5. requests' \in SUBSET requests
  OBVIOUS
<1>6. y \in ClientType /\ ~y.isBuilt /\ y.doc = clients[c].doc /\ Progress(c, y, requests')
  BY <1>2, <1>3, <1>4, <1>5, BrokenProgress
<1>7. Handles(c, y)
  <2>1. clients' = [clients EXCEPT ![c] = y]
    BY <1>4
  <2>2. \A q : q.client # c => (q \in requests <=> q \in requests')
    OBVIOUS
  <2> QED
    BY <1>6, <2>1, <2>2, Zenon DEF Handles
<1>8. api \notin overlapped => Described(c, y, models'[c]) /\ Empty(y, requests', models'[c])
  BY <1>2, <1>6 DEF Described, Empty
<1>9. /\ models' \in [Clients -> SUBSET Definition]
      /\ requests' \subseteq [client : 1..api,
                              kind : {"description", "reference", "resource"},
                              item : {0} \cup Hosts \cup Nat]
  BY <1>5, Zenon DEF IInv, TypeOK
<1> QED
  BY <1>1, <1>6, <1>7, <1>8, <1>9, HandlerKeeps

LEMMA DescriptionFailedKeeps ==
    ASSUME NEW c \in Clients
    PROVE  IInv /\ DescriptionFailed(c) => IInv'
<1> SUFFICES ASSUME IInv, DescriptionFailed(c) PROVE IInv'
  OBVIOUS
<1>1. PICK r \in requests : r = Request(c, "description", 0)
  BY Zenon DEF DescriptionFailed
<1>2. r.client = c /\ r.kind = "description"
  BY <1>1 DEF Request
<1>3. /\ requests' = requests \ {r} /\ clients' = [clients EXCEPT ![c].broken = TRUE]
      /\ UNCHANGED <<api, models, overlapped, page, mainView>>
  BY <1>1 DEF DescriptionFailed, Fail
<1> QED
  BY <1>1, <1>2, <1>3, BrokenKeeps

LEMMA MalformedKeeps ==
    ASSUME NEW c \in Clients
    PROVE  IInv /\ Malformed(c) => IInv'
<1> SUFFICES ASSUME IInv, Malformed(c) PROVE IInv'
  OBVIOUS
<1>1. PICK r \in requests : r.client = c /\ r.kind # "reference" /\ requests' = requests \ {r}
  BY Zenon DEF Malformed
<1>2. ASSUME r.kind = "description" PROVE r = Request(c, "description", 0)
  <2>1. Out(c, "description", requests) \subseteq {0}
    BY Zenon DEF IInv, Progress
  <2>2. r.item \in Out(c, "description", requests)
    BY <1>1, <1>2 DEF Out
  <2>3. r.item = 0 /\ TypeOK
    BY <2>1, <2>2 DEF IInv
  <2> QED
    BY <1>1, <1>2, <2>3, RequestTyped
<1>3. /\ clients' = [clients EXCEPT ![c].broken = TRUE]
      /\ UNCHANGED <<api, models, overlapped, page, mainView>>
  BY DEF Malformed, Silent
<1> QED
  BY <1>1, <1>2, <1>3, BrokenKeeps

-----------------------------------------------------------------------------
(* The references of a 2.0 document                                        *)

LEMMA LocalFacts ==
    ASSUME NEW c \in Clients, NEW d \in Descriptions, d.kind = "2.0"
    PROVE  /\ Local(c, d) \in SUBSET Definition /\ Own(c, Local(c, d))
           /\ d.models \subseteq {m.name : m \in Local(c, d)}
           /\ \A m \in Local(c, d) : m.host = "own"
<1>1. d.models \subseteq Models
  BY DocumentsAssumption DEF DescriptionType
<1>2. \A n : /\ From(n, c, "own").name = n /\ From(n, c, "own").client = c
             /\ From(n, c, "own").host = "own"
  BY DEF From
<1>3. \A n \in Models : From(n, c, "own") \in Definition
  BY DEF From, Definition
<1> QED
  BY <1>1, <1>2, <1>3 DEF Local, Own

LEMMA HostsFacts == "own" \notin Hosts
<1> SUFFICES ASSUME NEW d \in Descriptions, d.kind = "2.0", NEW i \in DOMAIN d.hosts
             PROVE  d.hosts[i] # "own"
  BY DEF Hosts
<1>1. PICK R, hosts : R = {r.host : r \in d.refs} /\ hosts = d.hosts /\ hosts \in Seq(R)
  BY DocumentsAssumption DEF DescriptionType
<1>2. hosts[i] \in R
  BY <1>1
<1>3. \A r \in d.refs : r.host # "own"
  BY DocumentsAssumption DEF DescriptionType
<1> QED
  BY <1>1, <1>2, <1>3

(* What the resolved references are made into has one definition of each   *)
(* name, that of the document where nothing replaces it.                   *)
LEMMA DefinitionsFacts ==
    ASSUME NEW c \in Clients, NEW x \in ClientType, x.doc.kind = "2.0", Looking(x),
           NEW defined, defined = Definitions(c, x)
    PROVE  /\ defined \in SUBSET Definition /\ Own(c, defined)
           /\ x.doc.models \subseteq {m.name : m \in defined}
           /\ Elsewhere(defined) = FoundElsewhere(x)
<1>1. x.doc \in Descriptions
  BY DEF ClientType, NoDoc
<1>2. PICK added : /\ added = {r \in x.resolvedRefs :
                        \E q \in x.doc.refs :
                           q.as = "$ref" /\ q.host = r.host /\ q.name = r.name}
                   /\ defined = {d \in Local(c, x.doc) : \A r \in added : r.name # d.name}
                                  \cup {From(r.name, c, r.answeredBy) : r \in added}
  BY Zenon DEF Definitions
<1>3. \A r \in added : r \in x.resolvedRefs
  BY <1>2
<1>4. \A r \in added : r \in Resolved
  BY <1>3 DEF ClientType
<1>5. \A r, s \in added : r.name = s.name => r = s
  BY <1>3 DEF Looking
<1>6. /\ Local(c, x.doc) \in SUBSET Definition /\ Own(c, Local(c, x.doc))
      /\ x.doc.models \subseteq {m.name : m \in Local(c, x.doc)}
      /\ \A m \in Local(c, x.doc) : m.host = "own"
  BY <1>1, LocalFacts
<1>7. ASSUME NEW r \in added
      PROVE  /\ From(r.name, c, r.answeredBy) \in Definition
             /\ From(r.name, c, r.answeredBy).name = r.name
             /\ From(r.name, c, r.answeredBy).client = c
             /\ From(r.name, c, r.answeredBy).host # "own"
  BY <1>4, HostsFacts DEF From, Definition, Resolved
<1>8. \A m \in defined :
         \/ m \in Local(c, x.doc) /\ \A r \in added : r.name # m.name
         \/ \E r \in added : m = From(r.name, c, r.answeredBy)
  BY <1>2
<1>9. defined \in SUBSET Definition /\ \A m \in defined : m.client = c
  BY <1>6, <1>7, <1>8 DEF Own
<1>10. ASSUME NEW m \in defined, NEW n \in defined, m.name = n.name PROVE m = n
  <2>1. CASE m \in Local(c, x.doc) /\ n \in Local(c, x.doc)
    BY <1>6, <1>10, <2>1, Zenon DEF Own
  <2>2. ASSUME NEW r \in added, m = From(r.name, c, r.answeredBy) PROVE m = n
    <3>1. m.name = r.name
      BY <1>7, <2>2
    <3>2. PICK s \in added : n = From(s.name, c, s.answeredBy)
      BY <1>8, <1>10, <3>1
    <3> QED
      BY <1>5, <1>7, <1>10, <2>2, <3>1, <3>2
  <2>3. ASSUME NEW s \in added, n = From(s.name, c, s.answeredBy) PROVE m = n
    <3>1. n.name = s.name
      BY <1>7, <2>3
    <3>2. PICK r \in added : m = From(r.name, c, r.answeredBy)
      BY <1>8, <1>10, <3>1
    <3> QED
      BY <2>2, <3>2
  <2> QED
    BY <1>8, <2>1, <2>2, <2>3
<1>11. ASSUME NEW a \in x.doc.models PROVE a \in {m.name : m \in defined}
  <2>1. PICK m \in Local(c, x.doc) : m.name = a
    BY <1>6
  <2>2. CASE \E r \in added : r.name = a
    BY <1>2, <1>7, <2>2
  <2>3. CASE \A r \in added : r.name # a
    BY <1>2, <2>1, <2>3
  <2> QED
    BY <2>2, <2>3
<1>12. PICK last : last = x.doc.hosts[Len(x.doc.hosts)]
  OBVIOUS
<1>13. ASSUME NEW n PROVE n \in Elsewhere(defined) <=> \E r \in added : r.name = n
  BY <1>2, <1>6, <1>7, <1>8 DEF Elsewhere
<1>14. ASSUME NEW n
       PROVE  (\E r \in added : r.name = n) <=>
                 \E q \in x.doc.refs : /\ q.name = n /\ q.as = "$ref" /\ q.host = last
                                       /\ \E a \in x.answers : a.name = q.name
  <2>1. ASSUME NEW r \in added, r.name = n
        PROVE  \E q \in x.doc.refs : /\ q.name = n /\ q.as = "$ref" /\ q.host = last
                                     /\ \E a \in x.answers : a.name = q.name
    <3>1. PICK q \in x.doc.refs : q.as = "$ref" /\ q.host = r.host /\ q.name = r.name
      BY <1>2
    <3>2. r.host = last /\ Found(x, r.name)
      BY <1>3, <1>12, Zenon DEF Looking
    <3>3. \E a \in x.answers : a.name = q.name
      BY <3>1, <3>2, Zenon DEF Found
    <3> QED
      BY <2>1, <3>1, <3>2, <3>3
  <2>2. ASSUME NEW q \in x.doc.refs, q.name = n, q.as = "$ref", q.host = last,
               \E a \in x.answers : a.name = q.name
        PROVE  \E r \in added : r.name = n
    <3>1. Found(x, n)
      BY <1>12, <2>2, Zenon DEF Found
    <3>2. PICK r \in x.resolvedRefs : r.name = n /\ r.host = last
      BY <1>12, <3>1, Zenon DEF Looking
    <3> QED
      BY <1>2, <2>2, <3>2
  <2> QED
    BY <2>1, <2>2
<1>15. ASSUME NEW n
       PROVE  n \in FoundElsewhere(x) <=>
                 \E q \in x.doc.refs : /\ q.name = n /\ q.as = "$ref" /\ q.host = last
                                       /\ \E a \in x.answers : a.name = q.name
  BY <1>12 DEF FoundElsewhere
<1>16. Elsewhere(defined) = FoundElsewhere(x)
  BY <1>13, <1>14, <1>15
<1> QED
  BY <1>9, <1>10, <1>11, <1>16 DEF Own

\* A client that has heard from host h.
HeardFrom(x, h, found) ==
    [x EXCEPT !.processedCalls = @ + 1,
              !.resolvedRefs = Looked(x, h, found),
              !.answers = @ \cup {[host |-> h, name |-> n] : n \in found}]

(* The handler of a reference's answer looks for the references to the     *)
(* last host in what any host has answered.                                *)
LEMMA LookedKeeps ==
    ASSUME NEW x \in ClientType, x.doc.kind = "2.0", Looking(x),
           NEW h, \E i \in DOMAIN x.doc.hosts : h = x.doc.hosts[i],
           NEW found \in SUBSET Models,
           NEW y, y = HeardFrom(x, h, found)
    PROVE  y \in ClientType /\ Looking(y)
<1>1. x.doc \in Descriptions
  BY DEF ClientType, NoDoc
<1>2. PICK hosts \in Seq({r.host : r \in x.doc.refs}) : hosts = x.doc.hosts
  BY <1>1, DocumentsAssumption DEF DescriptionType
<1>3. PICK i \in DOMAIN hosts :
         /\ h = hosts[i] /\ Len(hosts) \in Nat /\ DOMAIN hosts = 1..Len(hosts)
         /\ i \in 1..Len(hosts) /\ Len(hosts) \in DOMAIN hosts
  BY <1>2
<1>4. \A j \in DOMAIN hosts : hosts[j] \in Hosts
  BY <1>1, <1>2 DEF Hosts
<1>5. PICK seen \in Hosts : seen = hosts[Len(hosts)]
  BY <1>3, <1>4
<1>6. PICK hits : hits = {r.name : r \in {q \in x.doc.refs : q.host = seen}} \cap found
  OBVIOUS
<1>7. PICK looked : looked = {r \in x.resolvedRefs : r.host # seen \/ r.name \notin hits}
                       \cup {[host |-> seen, name |-> n, answeredBy |-> h] : n \in hits}
  OBVIOUS
<1>8. Looked(x, h, found) = looked
  BY <1>2, <1>5, <1>6, <1>7, Zenon DEF Looked, HostSeen
<1>9. PICK asked : asked = {[host |-> h, name |-> n] : n \in found}
  OBVIOUS
<1>10. h \in Hosts /\ hits \in SUBSET Models
  BY <1>2, <1>4, <1>6
<1>11. \A n \in hits : [host |-> seen, name |-> n, answeredBy |-> h] \in Resolved
  BY <1>10 DEF Resolved
<1>12. looked \in SUBSET Resolved
  BY <1>7, <1>11 DEF ClientType
<1>13. asked \in SUBSET [host : Hosts, name : Models]
  BY <1>9, <1>10
<1>14. y = [x EXCEPT !.processedCalls = @ + 1, !.resolvedRefs = looked,
                     !.answers = @ \cup asked]
  BY <1>8, <1>9 DEF HeardFrom
<1>15. y \in ClientType
  <2>1. /\ x.processedCalls + 1 \in Nat
        /\ x.answers \cup asked \in SUBSET ((Nat \X Nat) \cup [host : Hosts, name : Models])
    BY <1>13 DEF ClientType
  <2>2. PICK calls, answers : calls = x.processedCalls + 1 /\ answers = x.answers \cup asked
    OBVIOUS
  <2>3. y = [x EXCEPT !.processedCalls = calls, !.resolvedRefs = looked, !.answers = answers]
    BY <1>14, <2>2
  <2> QED
    BY <1>12, <2>1, <2>2, <2>3, ZenonT(30) DEF ClientType
<1>16. /\ y.doc = x.doc /\ y.processedCalls = x.processedCalls + 1 /\ y.resolvedRefs = looked
       /\ y.answers = x.answers \cup asked /\ x.processedCalls \in Nat
  BY <1>14 DEF ClientType
<1>18. /\ \A r \in x.resolvedRefs : r.host = seen
       /\ \A r, s \in x.resolvedRefs : r.name = s.name => r = s
  BY <1>2, <1>5, Zenon DEF Looking
<1>19. ASSUME NEW r \in looked
       PROVE  /\ r.host = seen
              /\ \/ r \in x.resolvedRefs /\ r.name \notin hits
                 \/ \E n \in hits : r = [host |-> seen, name |-> n, answeredBy |-> h]
  BY <1>7, <1>18
<1>20. ASSUME NEW r \in looked, NEW s \in looked, r.name = s.name PROVE r = s
  <2>1. \A n : [host |-> seen, name |-> n, answeredBy |-> h].name = n
    OBVIOUS
  <2>2. CASE r \in x.resolvedRefs /\ s \in x.resolvedRefs
    BY <1>18, <1>20, <2>2
  <2>3. ASSUME NEW n \in hits, r = [host |-> seen, name |-> n, answeredBy |-> h] PROVE r = s
    <3>1. r.name = n
      BY <2>1, <2>3
    <3>2. PICK m \in hits : s = [host |-> seen, name |-> m, answeredBy |-> h]
      BY <1>19, <1>20, <3>1
    <3> QED
      BY <1>20, <2>1, <2>3, <3>1, <3>2
  <2>4. ASSUME NEW n \in hits, s = [host |-> seen, name |-> n, answeredBy |-> h] PROVE r = s
    <3>1. s.name = n
      BY <2>1, <2>4
    <3>2. PICK m \in hits : r = [host |-> seen, name |-> m, answeredBy |-> h]
      BY <1>19, <1>20, <3>1
    <3> QED
      BY <2>3, <3>2
  <2> QED
    BY <1>19, <2>2, <2>3, <2>4
<1>21. ASSUME NEW n
       PROVE  (\E r \in looked : r.name = n) <=>
                 n \in hits \/ \E r \in x.resolvedRefs : r.name = n
  <2>1. ASSUME n \in hits PROVE \E r \in looked : r.name = n
    <3>1. PICK r : r = [host |-> seen, name |-> n, answeredBy |-> h]
      OBVIOUS
    <3>2. r \in looked /\ r.name = n
      BY <1>7, <2>1, <3>1
    <3> QED
      BY <3>2
  <2>2. ASSUME NEW r \in x.resolvedRefs, r.name = n, n \notin hits
        PROVE  \E q \in looked : q.name = n
    BY <1>7, <2>2
  <2> QED
    BY <1>19, <2>1, <2>2
<1>22. ASSUME NEW n PROVE Found(y, n) <=> n \in hits \/ Found(x, n)
  <2>1. n \in hits <=> (\E q \in x.doc.refs : q.host = seen /\ q.name = n) /\ n \in found
    BY <1>6
  <2>2. (\E a \in y.answers : a.name = n) <=> (\E a \in x.answers : a.name = n) \/ n \in found
    <3>1. ASSUME n \in found PROVE \E a \in asked : a.name = n
      <4>1. PICK a : a = [host |-> h, name |-> n]
        OBVIOUS
      <4>2. a \in asked /\ a.name = n
        BY <1>9, <3>1, <4>1
      <4> QED
        BY <4>2
    <3>2. ASSUME NEW a \in asked, a.name = n PROVE n \in found
      BY <1>9, <3>2
    <3> QED
      BY <1>16, <3>1, <3>2
  <2>3. x.doc.hosts[Len(x.doc.hosts)] = seen /\ y.doc = x.doc
    BY <1>2, <1>5, <1>16
  <2> QED
    BY <2>1, <2>2, <2>3, Zenon DEF Found
<1>23. ASSUME NEW n PROVE Found(x, n) <=> \E r \in x.resolvedRefs : r.name = n
  BY Zenon DEF Looking
<1> QED
  BY <1>2, <1>5, <1>15, <1>16, <1>19, <1>20, <1>21, <1>22, <1>23, Zenon DEF Looking

(* The build of a 2.0 document, with nothing out for its client any more.  *)
LEMMA BuildKeeps ==
    ASSUME IInv, NEW c \in Clients, Waiting(c),
           clients[c].doc.kind \in {"none", "2.0"},
           NEW x \in ClientType, x.doc.kind = "2.0", Looking(x), x.replaced = {},
           x.processedCalls = Len(x.doc.hosts), Len(x.doc.hosts) \in Nat,
           NEW definitions \in SUBSET Definition, Own(c, definitions),
           x.doc.models \subseteq {m.name : m \in definitions},
           Elsewhere(definitions) = FoundElsewhere(x),
           BuildFromSpec(c, x, definitions), UNCHANGED <<api, overlapped>>,
           requests' \in SUBSET requests, \A r \in requests' : r.client # c,
           \A r : r.client # c => (r \in requests <=> r \in requests')
    PROVE  IInv'
<1>1. x.doc \in Descriptions
  BY DEF ClientType, NoDoc
<1>2. PICK y : y = [x EXCEPT !.hasApis = TRUE, !.apisArray = Groups(x.doc.operations),
                             !.isBuilt = ~TagCollides(x.doc), !.broken = TagCollides(x.doc)]
  OBVIOUS
<1>3. /\ clients' = [clients EXCEPT ![c] = y] /\ models' = AddDefinitions(c, definitions)
      /\ IF y.isBuilt THEN Success(c, clients', models') ELSE Silent
  BY <1>2, Zenon DEF BuildFromSpec
<1>4. TagCollides(x.doc) \in BOOLEAN
  BY DEF TagCollides
<1>5. y \in ClientType
  <2>1. Groups(x.doc.operations) \in Seq(Group)
    BY <1>1, GroupsTyped
  <2> QED
    BY <1>2, <1>4, <2>1 DEF ClientType
<1>6. /\ y.doc = x.doc /\ y.hasApis /\ y.apisArray = Groups(x.doc.operations)
      /\ y.isBuilt = ~TagCollides(x.doc) /\ y.processedCalls = x.processedCalls
      /\ y.resolvedRefs = x.resolvedRefs /\ y.answers = x.answers /\ y.replaced = {}
  BY <1>2 DEF ClientType
<1>7. Handles(c, y)
  BY <1>3, Zenon DEF Handles, Silent
<1>8. /\ ~clients[c].isBuilt /\ models[c] \in SUBSET Definition
      /\ c <= api /\ c \in Nat /\ api \in Nat /\ api \in Clients
      /\ api \notin overlapped => c = api /\ models[c] = {}
  BY WaitingFacts, Zenon
<1>9. \A kind : Out(c, kind, requests') = {}
  BY DEF Out
<1>10. Progress(c, y, requests')
  <2>1. Looking(y)
    BY <1>6, LookingSame
  <2>2. Cardinality(Out(c, "reference", requests')) = 0 /\ x.processedCalls \in Nat
    BY <1>9, FS_EmptySet DEF ClientType
  <2>3. x.processedCalls + Cardinality(Out(c, "reference", requests')) <= Len(x.doc.hosts)
    BY <2>2
  <2>4. Spec20(c, y, requests')
    BY <1>6, <1>9, <2>1, <2>3 DEF Spec20
  <2>5. ~(c > api)
    BY <1>8
  <2>6. Request(c, "description", 0) \notin requests'
    BY DEF Request
  <2>7. x.doc # NoDoc /\ x.doc.kind # "listing" /\ x.doc.kind # "declaration"
    BY DEF NoDoc
  <2> QED
    BY <1>6, <1>9, <2>4, <2>5, <2>6, <2>7, Zenon DEF Progress
<1>11. models' \in [Clients -> SUBSET Definition]
  BY <1>3, <1>8 DEF AddDefinitions, IInv, TypeOK
<1>12. ASSUME api \notin overlapped
       PROVE  Described(c, y, models'[c]) /\ Empty(y, requests', models'[c])
  <2>1. c = api /\ models[c] = {} /\ api # 0
    BY <1>8, <1>12, DocumentsAssumption DEF Clients
  <2>2. models'[c] = definitions
    BY <1>3, <2>1 DEF AddDefinitions, IInv, TypeOK
  <2>3. ModelsOf(y, models'[c]) = models'[c]
    BY <1>6 DEF ModelsOf, Keeps
  <2>4. FoundElsewhere(y) = FoundElsewhere(x)
    BY <1>6, Zenon DEF FoundElsewhere
  <2>5. Described(c, y, models'[c])
    BY <1>6, <2>2, <2>3, <2>4, Zenon DEF Described
  <2>6. requests' = {}
    BY <1>12, <2>1 DEF IInv, Undisturbed
  <2> QED
    BY <2>5, <2>6 DEF Empty
<1>13. requests' \subseteq [client : 1..api, kind : {"description", "reference", "resource"},
                            item : {0} \cup Hosts \cup Nat]
  BY Zenon DEF IInv, TypeOK
<1> QED
  BY <1>5, <1>7, <1>10, <1>11, <1>12, <1>13, HandlerKeeps

\* Client x waits for host h, one of its document's, and the hosts it has
\* heard from and those that are out are no more than it has.
Answering(c, x, h, out, less) ==
    /\ x.doc.kind = "2.0" /\ Spec20(c, x, out)
    /\ Len(x.doc.hosts) \in Nat /\ x.processedCalls \in Nat
    /\ \E i \in DOMAIN x.doc.hosts : h = x.doc.hosts[i]
    /\ Out(c, "reference", less) = Out(c, "reference", out) \ {h}
    /\ IsFiniteSet(Out(c, "reference", less)) /\ Cardinality(Out(c, "reference", less)) \in Nat
    /\ x.processedCalls + 1 + Cardinality(Out(c, "reference", less)) <= Len(x.doc.hosts)

(* Who waits for a host has a 2.0 document. *)
LEMMA ReferenceOut ==
    ASSUME NEW c \in Clients, NEW x \in ClientType, NEW out, Progress(c, x, out),
           \A q \in out : q = Request(q.client, q.kind, q.item),
           NEW h, Request(c, "reference", h) \in out,
           NEW less, less = out \ {Request(c, "reference", h)}
    PROVE  Answering(c, x, h, out, less)
<1>1. PICK r \in out : /\ r = Request(c, "reference", h)
                       /\ r.client = c /\ r.kind = "reference" /\ r.item = h
  BY DEF Request
<1>2. h \in Out(c, "reference", out)
  BY <1>1 DEF Out
<1>3. x.doc # NoDoc /\ x.doc.kind # "listing" /\ x.doc.kind # "declaration"
  BY <1>2, Zenon DEF Progress, Listing, Declaration
<1>4. x.doc.kind = "2.0"
  BY <1>3, DocumentsAssumption DEF DescriptionType, ClientType
<1>5. Spec20(c, x, out)
  BY <1>4 DEF Progress
<1>6. Len(x.doc.hosts) \in Nat /\ IsFiniteSet(Out(c, "reference", out)) /\ x.processedCalls \in Nat
  BY <1>4, <1>5, Spec20Finite DEF ClientType
<1>7. \E i \in DOMAIN x.doc.hosts : h = x.doc.hosts[i]
  BY <1>2, <1>5, Zenon DEF Spec20
<1>8. Out(c, "reference", less) = Out(c, "reference", out) \ {h}
  <2>1. \A q \in out : q.client = c /\ q.kind = "reference" /\ q.item = h
                       => q = Request(c, "reference", h)
    BY Zenon
  <2>2. \A q \in out : q.client = c /\ q.kind = "reference" =>
           (q \in less <=> q.item # h)
    BY <1>1, <2>1, Zenon
  <2> QED
    BY <2>2 DEF Out
<1>9. /\ IsFiniteSet(Out(c, "reference", less)) /\ Cardinality(Out(c, "reference", less)) \in Nat
      /\ Cardinality(Out(c, "reference", out)) \in Nat
      /\ Cardinality(Out(c, "reference", less)) = Cardinality(Out(c, "reference", out)) - 1
  <2>1. PICK T : T = Out(c, "reference", out)
    OBVIOUS
  <2>2. h \in T /\ IsFiniteSet(T)
    BY <1>2, <1>6, <2>1
  <2>3. IsFiniteSet(T \ {h}) /\ Cardinality(T \ {h}) = Cardinality(T) - 1
    BY <2>2, FS_RemoveElement
  <2>4. Cardinality(T) \in Nat /\ Cardinality(T \ {h}) \in Nat
    BY <2>2, <2>3, FS_CardinalityType
  <2> QED
    BY <1>8, <2>1, <2>3, <2>4
<1>10. x.processedCalls + 1 + Cardinality(Out(c, "reference", less)) <= Len(x.doc.hosts)
  BY <1>5, <1>6, <1>9 DEF Spec20
<1> QED
  BY <1>4, <1>5, <1>6, <1>7, <1>8, <1>9, <1>10 DEF Answering

LEMMA ReferenceAnsweredKeeps ==
    ASSUME NEW c \in Clients, NEW h, NEW found \in SUBSET Models
    PROVE  IInv /\ ReferenceAnswered(c, h, found) => IInv'
<1> SUFFICES ASSUME IInv, ReferenceAnswered(c, h, found) PROVE IInv'
  OBVIOUS
<1>1. PICK q \in requests : q = Request(c, "reference", h)
  BY Zenon DEF ReferenceAnswered
<1>2. /\ q.client = c /\ q.kind = "reference" /\ q.item = h
      /\ requests' = requests \ {q} /\ UNCHANGED <<api, overlapped>>
  BY <1>1 DEF ReferenceAnswered, Request
<1>3. Waiting(c)
  BY <1>1, <1>2 DEF Waiting
<1>4. PICK x \in ClientType : /\ x = clients[c] /\ ~x.isBuilt /\ Progress(c, x, requests)
                              /\ c <= api /\ c \in Nat /\ api \in Nat
                              /\ api \notin overlapped => c = api /\ Own(c, models[c])
                                    /\ (x.doc.kind \in {"none", "2.0"} => models[c] = {})
  BY <1>3, WaitingFacts
<1>5. \A r \in requests : r = Request(r.client, r.kind, r.item)
  BY RequestTyped DEF IInv
<1>6. /\ x.doc.kind = "2.0" /\ Spec20(c, x, requests)
      /\ Len(x.doc.hosts) \in Nat /\ x.processedCalls \in Nat
      /\ \E i \in DOMAIN x.doc.hosts : h = x.doc.hosts[i]
      /\ Out(c, "reference", requests') = Out(c, "reference", requests) \ {h}
      /\ IsFiniteSet(Out(c, "reference", requests'))
      /\ Cardinality(Out(c, "reference", requests')) \in Nat
      /\ x.processedCalls + 1 + Cardinality(Out(c, "reference", requests')) <= Len(x.doc.hosts)
  <2>1. requests' = requests \ {Request(c, "reference", h)} /\ Request(c, "reference", h) \in requests
    BY <1>1, <1>2
  <2>2. PICK out, less : out = requests /\ less = requests'
    OBVIOUS
  <2>3. /\ Progress(c, x, out) /\ \A r \in out : r = Request(r.client, r.kind, r.item)
        /\ Request(c, "reference", h) \in out /\ less = out \ {Request(c, "reference", h)}
    BY <1>4, <1>5, <2>1, <2>2, Zenon
  <2>4. Answering(c, x, h, out, less)
    BY <2>3, ReferenceOut
  <2> QED
    BY <2>2, <2>4, Zenon DEF Answering
<1>7. PICK y : y = HeardFrom(x, h, found)
  OBVIOUS
<1>8. Looking(x) /\ x.replaced = {}
  BY <1>6, Zenon DEF Spec20
<1>9. y \in ClientType /\ Looking(y)
  BY <1>6, <1>7, <1>8, LookedKeeps
<1>10. y.doc = x.doc /\ ~y.isBuilt /\ y.processedCalls = x.processedCalls + 1 /\ y.replaced = {}
  BY <1>4, <1>7, <1>8 DEF ClientType, HeardFrom
<1>11. IF AllProcessed(y) THEN BuildFromSpec(c, y, Definitions(c, y))
       ELSE clients' = [clients EXCEPT ![c] = y] /\ UNCHANGED models /\ Silent
  BY <1>4, <1>7, Zenon DEF ReferenceAnswered, HeardFrom
<1>12. \A r : r.client # c => (r \in requests <=> r \in requests')
  BY <1>2
<1>13. /\ Request(c, "description", 0) \notin requests' /\ Out(c, "resource", requests') = {}
       /\ Out(c, "description", requests') = {}
  <2>1. ~(x = SwaggerClient)
    BY <1>6 DEF SwaggerClient, NoDoc
  <2>2. Request(c, "description", 0) \notin requests
    BY <1>4, <2>1 DEF Progress
  <2>3. Out(c, "description", requests) = {}
    <3>1. Out(c, "description", requests) \subseteq {0}
      BY <1>4, Zenon DEF Progress
    <3>2. SUFFICES ASSUME NEW r \in requests, r.client = c, r.kind = "description" PROVE FALSE
      BY DEF Out
    <3>3. r.item = 0
      BY <3>1, <3>2 DEF Out
    <3> QED
      BY <1>5, <2>2, <3>2, <3>3
  <2>4. Out(c, "resource", requests) = {}
    BY <1>6, Zenon DEF Spec20
  <2> QED
    BY <1>2, <2>2, <2>3, <2>4 DEF Out
<1>14. requests' \in SUBSET requests
  BY <1>2
<1>15. CASE AllProcessed(y)
  <2>1. BuildFromSpec(c, y, Definitions(c, y))
    BY <1>11, <1>15
  <2>2. y.processedCalls = Len(y.doc.hosts) /\ Len(y.doc.hosts) \in Nat /\ y.doc.kind = "2.0"
    BY <1>6, <1>10, <1>15 DEF AllProcessed
  <2>3. Cardinality(Out(c, "reference", requests')) = 0
    BY <1>6, <1>10, <2>2
  <2>4. Out(c, "reference", requests') = {}
    BY <1>6, <2>3, FS_EmptySet
  <2>5. \A r \in requests' : r.client # c
    BY <1>13, <1>14, <2>4, RequestTyped DEF Out, IInv
  <2>6. /\ Definitions(c, y) \in SUBSET Definition /\ Own(c, Definitions(c, y))
        /\ y.doc.models \subseteq {m.name : m \in Definitions(c, y)}
        /\ Elsewhere(Definitions(c, y)) = FoundElsewhere(y)
    BY <1>9, <2>2, DefinitionsFacts
  <2>7. clients[c].doc.kind \in {"none", "2.0"}
    BY <1>4, <1>6
  <2> QED
    BY <1>2, <1>3, <1>9, <1>10, <1>12, <1>14, <2>1, <2>2, <2>5, <2>6, <2>7, BuildKeeps
<1>16. CASE ~AllProcessed(y)
  <2>1. clients' = [clients EXCEPT ![c] = y] /\ UNCHANGED <<models, page, mainView>>
    BY <1>11, <1>16 DEF Silent
  <2>2. Handles(c, y)
    BY <1>2, <1>10, <1>12, <2>1, Zenon DEF Handles
  <2>3. Out(c, "reference", requests') \subseteq {y.doc.hosts[i] : i \in DOMAIN y.doc.hosts}
    BY <1>6, <1>10 DEF Spec20
  <2>4. Spec20(c, y, requests')
    BY <1>6, <1>9, <1>10, <1>13, <2>3 DEF Spec20
  <2>5. Progress(c, y, requests')
    <3>1. ~(c > api) /\ x.doc # NoDoc
      BY <1>4, <1>6 DEF NoDoc
    <3>2. y.doc.kind # "listing" /\ y.doc.kind # "declaration" /\ y.doc # NoDoc
      BY <1>6, <1>10, <3>1
    <3>3. Out(c, "description", requests') \subseteq {0}
      BY <1>13
    <3> QED
      BY <1>10, <1>13, <2>4, <3>1, <3>2, <3>3, Zenon DEF Progress
  <2>6. api \notin overlapped => Described(c, y, models'[c]) /\ Empty(y, requests', models'[c])
    BY <1>4, <1>6, <1>10, <2>1 DEF Described, Empty
  <2>7. /\ models' \in [Clients -> SUBSET Definition]
        /\ requests' \subseteq [client : 1..api,
                                kind : {"description", "reference", "resource"},
                                item : {0} \cup Hosts \cup Nat]
    BY <1>14, <2>1, Zenon DEF IInv, TypeOK
  <2> QED
    BY <1>3, <1>9, <2>2, <2>5, <2>6, <2>7, HandlerKeeps
<1> QED
  BY <1>15, <1>16

-----------------------------------------------------------------------------
(* The answers of the first request                                        *)

(* A description that is in: its client is as the constructor left it and  *)
(* waits for nothing else.                                                 *)
LEMMA DescriptionOut ==
    ASSUME IInv, NEW c \in Clients, Request(c, "description", 0) \in requests
    PROVE  /\ Waiting(c) /\ clients[c] = SwaggerClient
           /\ \A r \in requests \ {Request(c, "description", 0)} : r.client # c
<1>1. PICK q \in requests : /\ q = Request(c, "description", 0) /\ q.client = c
                            /\ q.kind = "description" /\ q.item = 0
  BY DEF Request
<1>2. Waiting(c)
  BY <1>1 DEF Waiting
<1>3. Progress(c, clients[c], requests)
  BY DEF IInv
<1>4. clients[c] = SwaggerClient
  BY <1>3, Zenon DEF Progress
<1>5. ASSUME NEW r \in requests, r.client = c PROVE r = q
  <2>1. /\ r.kind \in {"description", "reference", "resource"}
        /\ r = Request(r.client, r.kind, r.item)
    BY RequestTyped DEF IInv
  <2>2. r.kind = "description"
    BY <1>3, <1>4, <1>5, <2>1, DescriptionAlone
  <2>3. r.item \in Out(c, "description", requests)
    BY <1>5, <2>2 DEF Out
  <2>4. r.item = 0
    BY <1>3, <2>3, Zenon DEF Progress
  <2> QED
    BY <1>1, <1>5, <2>1, <2>2, <2>4
<1> QED
  BY <1>1, <1>2, <1>4, <1>5

\* A client that has got its description.
Described0(d) == [SwaggerClient EXCEPT !.doc = d]

LEMMA Described0Facts ==
    ASSUME NEW d \in Descriptions, NEW x, x = Described0(d)
    PROVE  /\ x \in ClientType /\ x.doc = d /\ ~x.isBuilt /\ x.answers = {} /\ x.failed = {}
           /\ x.resolvedRefs = {} /\ x.processedCalls = 0 /\ x.resourceCount = 0
           /\ x.apisArray = <<>> /\ x.replaced = {}
<1>1. x \in ClientType
  BY SwaggerClientTyped DEF Described0, ClientType
<1> QED
  BY <1>1 DEF Described0, SwaggerClient

LEMMA ResolveKeeps ==
    ASSUME IInv, NEW c \in Clients, Request(c, "description", 0) \in requests,
           NEW d \in Descriptions, d.kind = "2.0", Resolve(c, Described0(d)),
           UNCHANGED <<api, overlapped>>
    PROVE  IInv'
<1>1. /\ Waiting(c) /\ clients[c] = SwaggerClient
      /\ \A r \in requests \ {Request(c, "description", 0)} : r.client # c
  BY DescriptionOut
<1>2. PICK q : q = Request(c, "description", 0) /\ q.client = c
  BY DEF Request
<1>3. PICK x \in ClientType : /\ x = Described0(d) /\ x.doc = d /\ ~x.isBuilt /\ x.answers = {}
                              /\ x.resolvedRefs = {} /\ x.processedCalls = 0 /\ x.replaced = {}
  BY Described0Facts
<1>4. PICK hosts \in Seq({r.host : r \in d.refs}) : hosts = d.hosts
  BY DocumentsAssumption DEF DescriptionType
<1>5. Len(hosts) \in Nat /\ DOMAIN hosts = 1..Len(hosts)
  BY <1>4
<1>6. Looking(x) /\ clients[c].doc.kind \in {"none", "2.0"}
  BY <1>1, <1>3 DEF Looking, Found, SwaggerClient, NoDoc
<1>7. CASE hosts = <<>>
  <2>1. BuildFromSpec(c, x, Local(c, d)) /\ requests' = requests \ {q}
    BY <1>2, <1>3, <1>4, <1>7, Zenon DEF Resolve
  <2>2. x.doc.kind = "2.0" /\ x.processedCalls = Len(x.doc.hosts) /\ Len(x.doc.hosts) \in Nat
    BY <1>3, <1>4, <1>7
  <2>3. /\ Local(c, d) \in SUBSET Definition /\ Own(c, Local(c, d))
        /\ x.doc.models \subseteq {m.name : m \in Local(c, d)}
        /\ Elsewhere(Local(c, d)) = FoundElsewhere(x)
    <3>1. /\ Local(c, d) \in SUBSET Definition /\ Own(c, Local(c, d))
          /\ x.doc.models \subseteq {m.name : m \in Local(c, d)}
          /\ \A m \in Local(c, d) : m.host = "own"
      BY <1>3, LocalFacts
    <3>2. Elsewhere(Local(c, d)) = {}
      BY <3>1 DEF Elsewhere
    <3>3. FoundElsewhere(x) = {}
      BY <1>3 DEF FoundElsewhere
    <3> QED
      BY <3>1, <3>2, <3>3
  <2>4. requests' \in SUBSET requests /\ \A r \in requests' : r.client # c
    BY <1>1, <1>2, <2>1
  <2>5. \A r : r.client # c => (r \in requests <=> r \in requests')
    BY <1>2, <2>1
  <2> QED
    BY <1>1, <1>3, <1>6, <2>1, <2>2, <2>3, <2>4, <2>5, BuildKeeps
<1>8. CASE hosts # <<>>
  <2>1. /\ clients' = [clients EXCEPT ![c] = x]
        /\ requests' = (requests \ {q}) \cup {Request(c, "reference", hosts[i]) : i \in DOMAIN hosts}
        /\ UNCHANGED <<models, page, mainView>>
    BY <1>2, <1>3, <1>4, <1>8, Zenon DEF Resolve, Silent
  <2>2. \A i \in DOMAIN hosts : /\ Request(c, "reference", hosts[i]).client = c
                                /\ Request(c, "reference", hosts[i]).kind = "reference"
                                /\ Request(c, "reference", hosts[i]).item = hosts[i]
    BY DEF Request
  <2>3. ASSUME NEW r \in requests', r.client = c
        PROVE  r.kind = "reference" /\ \E i \in DOMAIN hosts : r.item = hosts[i]
    BY <1>1, <1>2, <2>1, <2>2, <2>3
  <2>4. \A r : r.client # c => (r \in requests <=> r \in requests')
    BY <1>2, <2>1, <2>2
  <2>5. Handles(c, x)
    BY <1>3, <2>1, <2>4, Zenon DEF Handles
  <2>6. /\ Out(c, "description", requests') = {} /\ Out(c, "resource", requests') = {}
        /\ Out(c, "reference", requests') \subseteq {hosts[i] : i \in 1..Len(hosts)}
    BY <1>5, <2>3 DEF Out
  <2>7. Cardinality(Out(c, "reference", requests')) <= Len(hosts)
        /\ Cardinality(Out(c, "reference", requests')) \in Nat
    <3>1. PICK T : T = {hosts[i] : i \in 1..Len(hosts)}
      OBVIOUS
    <3>2. IsFiniteSet(T) /\ Cardinality(T) \in Nat /\ Cardinality(T) <= Len(hosts)
      BY <3>1, ElementsCounted
    <3>3. PICK R : R = Out(c, "reference", requests') /\ R \in SUBSET T
      BY <2>6, <3>1
    <3>4. Cardinality(R) \in Nat /\ Cardinality(R) <= Cardinality(T)
      BY <3>2, <3>3, FS_Subset, FS_CardinalityType
    <3> QED
      BY <1>5, <3>2, <3>3, <3>4
  <2>8. Spec20(c, x, requests')
    BY <1>3, <1>4, <1>5, <1>6, <2>6, <2>7 DEF Spec20
  <2>9. Progress(c, x, requests')
    <3>1. Request(c, "description", 0) \notin requests'
      BY <2>3 DEF Request
    <3>2. ~(c > api) /\ x.doc # NoDoc /\ x.doc.kind # "listing" /\ x.doc.kind # "declaration"
      BY <1>1, <1>3, WaitingFacts DEF NoDoc
    <3>3. Out(c, "description", requests') \subseteq {0}
      BY <2>6
    <3> QED
      BY <1>3, <2>8, <3>1, <3>2, <3>3, Zenon DEF Progress
  <2>10. api \notin overlapped => Described(c, x, models'[c]) /\ Empty(x, requests', models'[c])
    BY <1>1, <1>3, <1>6, <2>1, WaitingFacts DEF Described, Empty
  <2>11. models' \in [Clients -> SUBSET Definition]
    BY <2>1, Zenon DEF IInv, TypeOK
  <2>12. requests' \subseteq [client : 1..api, kind : {"description", "reference", "resource"},
                              item : {0} \cup Hosts \cup Nat]
    <3>1. \A i \in DOMAIN hosts : hosts[i] \in Hosts
      BY <1>4 DEF Hosts
    <3>2. c \in 1..api
      BY <1>1, WaitingFacts, DocumentsAssumption DEF Clients
    <3>3. \A i \in DOMAIN hosts :
             Request(c, "reference", hosts[i]) \in
                [client : 1..api, kind : {"description", "reference", "resource"},
                 item : {0} \cup Hosts \cup Nat]
      BY <3>1, <3>2 DEF Request
    <3> QED
      BY <2>1, <3>3 DEF IInv, TypeOK
  <2> QED
    BY <1>1, <2>5, <2>9, <2>10, <2>11, <2>12, HandlerKeeps
<1> QED
  BY <1>7, <1>8

LEMMA NumberedFacts ==
    ASSUME NEW n \in Nat
    PROVE  Numbered(n) \in Seq(Nat) /\ Len(Numbered(n)) = n
<1>1. Numbered(n) \in [1..n -> Nat]
  BY DEF Numbered
<1> QED
  BY <1>1

LEMMA GroupMade ==
    ASSUME NEW tag \in STRING, NEW s \in Seq(Nat)
    PROVE  /\ [name |-> tag, operations |-> s] \in Group
           /\ [name |-> tag, operations |-> s].operations = s
           /\ [name |-> tag, operations |-> s].name = tag
BY DEF Group

(* The first definition of a name stays, and no name is missing. *)
LEMMA AddModelsFacts ==
    ASSUME NEW c \in Clients, NEW names \in SUBSET Models, models[c] \in SUBSET Definition,
           NEW table, table = AddModels(c, names)
    PROVE  /\ table \in SUBSET Definition /\ names \subseteq {m.name : m \in table}
           /\ Own(c, models[c]) => Own(c, table)
<1>1. /\ \A n : From(n, c, "own").name = n /\ From(n, c, "own").client = c
      /\ \A n \in Models : From(n, c, "own") \in Definition
  BY DEF From, Definition
<1>2. PICK new : new = {n \in names : \A m \in models[c] : m.name # n}
  OBVIOUS
<1>3. table = models[c] \cup {From(n, c, "own") : n \in new}
  BY <1>2, Zenon DEF AddModels
<1>4. table \in SUBSET Definition
  BY <1>1, <1>2, <1>3
<1>5. ASSUME NEW n \in names PROVE \E m \in table : m.name = n
  BY <1>1, <1>2, <1>3
<1>6. ASSUME Own(c, models[c]) PROVE Own(c, table)
  <2>1. \A m \in table : m.client = c
    BY <1>1, <1>3, <1>6 DEF Own
  <2>2. ASSUME NEW m \in table, NEW n \in table, m.name = n.name PROVE m = n
    <3>1. CASE m \in models[c] /\ n \in models[c]
      BY <1>6, <2>2, <3>1 DEF Own
    <3>2. ASSUME NEW k \in new, m = From(k, c, "own") PROVE m = n
      <4>1. n.name = k /\ n \notin models[c]
        BY <1>1, <1>2, <2>2, <3>2
      <4> QED
        BY <1>1, <1>3, <3>2, <4>1
    <3>3. ASSUME NEW k \in new, n = From(k, c, "own") PROVE m = n
      <4>1. m.name = k /\ m \notin models[c]
        BY <1>1, <1>2, <2>2, <3>3
      <4> QED
        BY <1>1, <1>3, <3>3, <4>1
    <3> QED
      BY <1>3, <3>1, <3>2, <3>3
  <2> QED
    BY <2>1, <2>2 DEF Own
<1> QED
  BY <1>4, <1>5, <1>6

\* What the end of a load leaves as it is.
Kept(x, y) ==
    /\ y.doc = x.doc /\ y.hasApis = x.hasApis /\ y.apisArray = x.apisArray
    /\ y.answers = x.answers /\ y.failed = x.failed /\ y.resourceCount = x.resourceCount
    /\ y.expectedResourceCount = x.expectedResourceCount

\* 1.x client x is z when its handler ends: built with all its models and shown,
\* or a resource stands in the place of something that was needed.
Concluded(c, x, z) ==
    /\ z \in ClientType /\ Kept(x, z) /\ clients' = [clients EXCEPT ![c] = z]
    /\ z.isBuilt => /\ z.models \subseteq models'[c]
                    /\ Intact(z) => z.models = models'[c]
    /\ \/ z.isBuilt /\ Success(c, clients', models')
       \/ ~(z.isBuilt /\ Intact(z)) /\ UNCHANGED <<page, mainView>>

(* A handler that throws, or has no success to call. *)
LEMMA BrokenConcludes ==
    ASSUME NEW c, NEW x \in ClientType, ~x.isBuilt, NEW b \in BOOLEAN,
           clients' = [clients EXCEPT ![c] = [x EXCEPT !.broken = b]], Silent
    PROVE  \E z : Concluded(c, x, z) /\ ~z.isBuilt
<1>1. PICK z : z = [x EXCEPT !.broken = b]
  OBVIOUS
<1>2. z \in ClientType /\ Kept(x, z) /\ ~z.isBuilt
  BY <1>1 DEF ClientType, Kept
<1>3. Concluded(c, x, z)
  BY <1>1, <1>2, Zenon DEF Concluded, Silent
<1> QED
  BY <1>2, <1>3

LEMMA ReflectedTyped ==
    ASSUME NEW x \in ClientType, x.doc \in Descriptions, x.doc.kind \in {"declaration", "listing"}
    PROVE  Reflected(x) \in SUBSET STRING /\ x.replaced \subseteq Reflected(x)
<1>1. x.replaced \in SUBSET STRING
  BY DEF ClientType
<1>2. ASSUME x.doc.kind = "declaration" PROVE x.doc.newName \in STRING
  BY <1>2, DocumentsAssumption DEF DescriptionType
<1>3. ASSUME x.doc.kind = "listing"
      PROVE  \A i \in DOMAIN x.doc.resources : x.doc.resources[i] \in STRING
  <2>1. PICK resources \in Seq(STRING) : resources = x.doc.resources
    BY <1>3, DocumentsAssumption DEF DescriptionType
  <2> QED
    BY <2>1
<1> QED
  BY <1>1, <1>2, <1>3 DEF Reflected

LEMMA FinishConcludes ==
    ASSUME NEW c, NEW x \in ClientType, ~x.isBuilt, x.doc \in Descriptions,
           x.doc.kind \in {"declaration", "listing"},
           models'[c] \in SUBSET Definition, Finish(c, x)
    PROVE  \E z : Concluded(c, x, z)
<1>1. PICK names \in SUBSET STRING : names = Reflected(x) /\ x.replaced \subseteq names
  BY ReflectedTyped
<1>2. PICK y : y = [x EXCEPT !.replaced = names, !.isBuilt = TRUE]
  OBVIOUS
<1>3. y \in ClientType /\ Kept(x, y) /\ y.isBuilt /\ y.replaced = names
  BY <1>2 DEF ClientType, Kept
<1>4. PICK table \in SUBSET Definition : table = models'[c]
  OBVIOUS
<1>5. \/ Silent /\ clients' = [clients EXCEPT ![c] = [x EXCEPT !.broken = TRUE]]
      \/ /\ clients' = [clients EXCEPT ![c] =
                          [y EXCEPT !.models = {m \in table : Keeps(y, {"apis"})}]]
         /\ Success(c, clients', models')
      \/ /\ Throws(x, y, table) \/ ~Keeps(y, {"apis"})
         /\ \E kept \in SUBSET table :
               clients' = [clients EXCEPT ![c] = [y EXCEPT !.models = kept, !.broken = TRUE]]
         /\ Silent
  BY <1>1, <1>2, <1>4, Zenon DEF Finish
<1>6. CASE Silent /\ clients' = [clients EXCEPT ![c] = [x EXCEPT !.broken = TRUE]]
  BY <1>6, BrokenConcludes
<1>7. CASE /\ clients' = [clients EXCEPT ![c] =
                            [y EXCEPT !.models = {m \in table : Keeps(y, {"apis"})}]]
           /\ Success(c, clients', models')
  <2>1. PICK kept : kept = {m \in table : Keeps(y, {"apis"})}
    OBVIOUS
  <2>2. PICK z : z = [y EXCEPT !.models = kept]
    OBVIOUS
  <2>3. z \in ClientType /\ Kept(y, z) /\ z.isBuilt /\ z.replaced = names /\ z.models = kept
    BY <1>3, <2>1, <2>2 DEF ClientType, Kept
  <2>4. Intact(z) => kept = table
    BY <1>3, <2>1, <2>3 DEF Intact, Keeps
  <2>5. Kept(x, z)
    BY <1>3, <2>3, Zenon DEF Kept
  <2>6. clients' = [clients EXCEPT ![c] = z]
    BY <1>7, <2>1, <2>2, Zenon
  <2> QED
    BY <1>4, <1>7, <2>1, <2>3, <2>4, <2>5, <2>6 DEF Concluded
<1>8. ASSUME NEW kept \in SUBSET table, Silent, Throws(x, y, table) \/ ~Keeps(y, {"apis"}),
             clients' = [clients EXCEPT ![c] = [y EXCEPT !.models = kept, !.broken = TRUE]]
      PROVE  \E z : Concluded(c, x, z)
  <2>1. PICK z : z = [y EXCEPT !.models = kept, !.broken = TRUE]
    OBVIOUS
  <2>2. z \in ClientType /\ Kept(y, z) /\ z.isBuilt /\ z.replaced = names /\ z.models = kept
    BY <1>3, <2>1 DEF ClientType, Kept
  <2>3. ~Intact(z)
    BY <1>1, <1>3, <1>8, <2>2 DEF Throws, Intact, Keeps
  <2>4. Kept(x, z)
    BY <1>3, <2>2, Zenon DEF Kept
  <2>5. clients' = [clients EXCEPT ![c] = z]
    BY <1>8, <2>1, Zenon
  <2>6. UNCHANGED <<page, mainView>>
    BY <1>8 DEF Silent
  <2> QED
    BY <1>4, <2>2, <2>3, <2>4, <2>5, <2>6 DEF Concluded
<1> QED
  BY <1>5, <1>6, <1>7, <1>8, Zenon

(* What the concluded client describes its operations with. *)
LEMMA ConcludedDescribed ==
    ASSUME NEW c, NEW x, NEW z, Concluded(c, x, z), x.doc.kind \in {"declaration", "listing"},
           Own(c, models'[c]),
           x.doc.kind # "listing" => x.doc.models \subseteq {m.name : m \in models'[c]},
           NEW out
    PROVE  Described(c, z, models'[c]) /\ Empty(z, out, models'[c])
<1>1. z.doc = x.doc
  BY DEF Concluded, Kept
<1>2. ASSUME z.isBuilt
      PROVE  /\ ModelsOf(z, models'[c]) = z.models /\ Own(c, z.models)
             /\ Intact(z) => z.models = models'[c]
  BY <1>1, <1>2 DEF Concluded, ModelsOf, Own
<1> QED
  BY <1>1, <1>2 DEF Described, Empty

LEMMA BuildDeclarationKeeps ==
    ASSUME IInv, NEW c \in Clients, Request(c, "description", 0) \in requests,
           NEW d \in Descriptions, d.kind = "declaration", BuildDeclaration(c, Described0(d)),
           UNCHANGED <<api, overlapped>>
    PROVE  IInv'
<1>1. /\ Waiting(c) /\ clients[c] = SwaggerClient
      /\ \A r \in requests \ {Request(c, "description", 0)} : r.client # c
  BY DescriptionOut
<1>2. /\ models[c] \in SUBSET Definition /\ c <= api /\ c \in Nat /\ api \in Nat
      /\ api \notin overlapped => c = api /\ Own(c, models[c])
  BY <1>1, WaitingFacts, Zenon
<1>3. d.models \in SUBSET Models /\ d.operations \in Nat /\ d # NoDoc /\ d.name \in STRING
  BY DocumentsAssumption DEF DescriptionType, NoDoc
<1>4. PICK x \in ClientType : x = Described0(d) /\ x.doc = d /\ ~x.isBuilt
  BY Described0Facts
<1>5. PICK array \in Seq(Group) : /\ array = <<[name |-> d.name, operations |-> Numbered(d.operations)]>>
                                  /\ Len(array) = 1 /\ Len(array[1].operations) = d.operations
  <2>0. PICK n \in Nat : n = d.operations
    BY <1>3
  <2>1. PICK s : s = Numbered(n) /\ s \in Seq(Nat) /\ Len(s) = n
    <3>1. Numbered(n) \in Seq(Nat) /\ Len(Numbered(n)) = n
      BY NumberedFacts
    <3> QED
      BY <3>1, Zenon
  <2>2. PICK g : g = [name |-> d.name, operations |-> s]
    OBVIOUS
  <2>3. g \in Group /\ Len(g.operations) = d.operations
    <3>1. g \in Group /\ g.operations = s
      <4>1. d.name \in STRING /\ s \in Seq(Nat)
        BY <1>3, <2>1
      <4>2. /\ [name |-> d.name, operations |-> s] \in Group
            /\ [name |-> d.name, operations |-> s].operations = s
        BY <4>1, GroupMade, Zenon
      <4> QED
        BY <2>2, <4>2, Zenon
    <3> QED
      BY <2>0, <2>1, <3>1, Zenon
  <2>4. <<g>> \in Seq(Group) /\ Len(<<g>>) = 1 /\ <<g>>[1] = g
    BY <2>3
  <2>5. <<g>> = <<[name |-> d.name, operations |-> Numbered(d.operations)]>>
    BY <2>0, <2>1, <2>2, Zenon
  <2> QED
    BY <2>3, <2>4, <2>5, Zenon
<1>6. PICK z : z = [x EXCEPT !.hasApis = TRUE, !.replaced = {d.name}, !.apisArray = array]
  OBVIOUS
<1>7. z \in ClientType
  BY <1>3, <1>6 DEF ClientType
<1>8. z.doc = d /\ z.hasApis /\ z.apisArray = array /\ ~z.isBuilt
  BY <1>4, <1>6 DEF ClientType
<1>9. PICK table : table = AddModels(c, d.models)
  OBVIOUS
<1>10. /\ table \in SUBSET Definition /\ d.models \subseteq {m.name : m \in table}
       /\ Own(c, models[c]) => Own(c, table)
  BY <1>2, <1>3, <1>9, AddModelsFacts
<1>11. /\ models' = [models EXCEPT ![c] = table]
       /\ \/ Finish(c, z)
          \/ clients' = [clients EXCEPT ![c] = [z EXCEPT !.broken = TRUE]] /\ Silent
       /\ requests' = requests \ {Request(c, "description", 0)}
  BY <1>4, <1>5, <1>6, <1>9, Zenon DEF BuildDeclaration
<1>12. models' \in [Clients -> SUBSET Definition] /\ models'[c] = table
  BY <1>10, <1>11 DEF IInv, TypeOK
<1>13. PICK y : Concluded(c, z, y)
  <2>1. z.doc \in Descriptions /\ z.doc.kind \in {"declaration", "listing"}
    BY <1>8
  <2>2. CASE Finish(c, z)
    BY <1>7, <1>8, <1>10, <1>12, <2>1, <2>2, FinishConcludes
  <2>3. CASE clients' = [clients EXCEPT ![c] = [z EXCEPT !.broken = TRUE]] /\ Silent
    BY <1>7, <1>8, <2>3, BrokenConcludes
  <2> QED
    BY <1>11, <2>2, <2>3
<1>14. /\ y \in ClientType /\ y.doc = d /\ y.hasApis /\ y.apisArray = array
  BY <1>8, <1>13 DEF Concluded, Kept
<1>16. \A r \in requests' : r.client # c
  BY <1>1, <1>11
<1>17. Handles(c, y)
  <2>1. \A r : r.client # c => (r \in requests <=> r \in requests')
    BY <1>11 DEF Request
  <2> QED
    BY <1>13, <2>1, Zenon DEF Handles, Concluded
<1>18. Progress(c, y, requests')
  <2>1. \A kind : Out(c, kind, requests') = {}
    BY <1>16 DEF Out
  <2>2. Declaration(c, y, requests')
    BY <1>5, <1>14, <2>1 DEF Declaration
  <2>3. Request(c, "description", 0) \notin requests'
    BY <1>11
  <2>4. ~(c > api) /\ y.doc # NoDoc /\ y.doc.kind # "listing" /\ y.doc.kind # "2.0"
    BY <1>2, <1>3, <1>14
  <2> QED
    BY <1>14, <1>16, <2>1, <2>2, <2>3, <2>4, Zenon DEF Progress
<1>19. api \notin overlapped => Described(c, y, models'[c]) /\ Empty(y, requests', models'[c])
  <2>1. ASSUME api \notin overlapped PROVE Own(c, models'[c])
    BY <1>2, <1>10, <1>12, <2>1
  <2>2. z.doc.kind \in {"declaration", "listing"} /\ z.doc.models \subseteq {m.name : m \in models'[c]}
    BY <1>8, <1>10, <1>12
  <2> QED
    BY <1>13, <2>1, <2>2, ConcludedDescribed
<1>20. requests' \subseteq [client : 1..api, kind : {"description", "reference", "resource"},
                            item : {0} \cup Hosts \cup Nat]
  BY <1>11, Zenon DEF IInv, TypeOK
<1> QED
  BY <1>1, <1>12, <1>14, <1>17, <1>18, <1>19, <1>20, HandlerKeeps

LEMMA BuildListingKeeps ==
    ASSUME IInv, NEW c \in Clients, Request(c, "description", 0) \in requests,
           NEW d \in Descriptions, d.kind = "listing", BuildListing(c, Described0(d)),
           UNCHANGED <<api, overlapped>>
    PROVE  IInv'
<1>1. /\ Waiting(c) /\ clients[c] = SwaggerClient
      /\ \A r \in requests \ {Request(c, "description", 0)} : r.client # c
  BY DescriptionOut
<1>2. /\ models[c] \in SUBSET Definition /\ c <= api /\ c \in Nat /\ api \in Nat
      /\ api \notin overlapped => c = api /\ Own(c, models[c])
  BY <1>1, WaitingFacts, Zenon
<1>3. PICK q : q = Request(c, "description", 0) /\ q.client = c
  BY DEF Request
<1>4. PICK x \in ClientType : /\ x = Described0(d) /\ x.doc = d /\ ~x.isBuilt /\ x.answers = {}
                              /\ x.failed = {} /\ x.resourceCount = 0
  BY Described0Facts
<1>5. PICK resources \in Seq(STRING) : resources = d.resources
  BY DocumentsAssumption DEF DescriptionType
<1>6. PICK n \in Nat : n = Len(resources) /\ DOMAIN resources = 1..n
  BY <1>5
<1>7. PICK array : array = [i \in DOMAIN resources |-> [name |-> resources[i], operations |-> <<>>]]
  OBVIOUS
<1>8. /\ array \in Seq(Group) /\ DOMAIN array = 1..n
      /\ \A i \in 1..n : array[i].operations = <<>>
  <2>1. <<>> \in Seq(Nat) /\ \A i \in 1..n : resources[i] \in STRING
    BY <1>6
  <2>2. \A i \in 1..n : array[i] \in Group /\ array[i].operations = <<>>
    BY <1>6, <1>7, <2>1, GroupMade
  <2>3. array \in [1..n -> Group]
    BY <1>6, <1>7, <2>2
  <2> QED
    BY <2>2, <2>3
<1>9. PICK y : y = [x EXCEPT !.hasApis = TRUE, !.expectedResourceCount = n,
                             !.broken = resources = <<>>, !.apisArray = array]
  OBVIOUS
<1>10. /\ clients' = [clients EXCEPT ![c] = y]
       /\ requests' = (requests \ {q}) \cup {Request(c, "resource", i) : i \in DOMAIN resources}
       /\ UNCHANGED <<models, page, mainView>>
  BY <1>3, <1>4, <1>5, <1>6, <1>7, <1>9, Zenon DEF BuildListing
<1>11. y \in ClientType
  <2>1. (resources = <<>>) \in BOOLEAN /\ n \in Int
    OBVIOUS
  <2> QED
    BY <1>8, <1>9, <2>1 DEF ClientType
<1>12. /\ y.doc = d /\ ~y.isBuilt /\ y.answers = {} /\ y.failed = {} /\ y.resourceCount = 0
       /\ y.hasApis /\ y.expectedResourceCount = n /\ y.apisArray = array
  BY <1>4, <1>9 DEF ClientType
<1>13. \A i : /\ Request(c, "resource", i).client = c /\ Request(c, "resource", i).item = i
              /\ Request(c, "resource", i).kind = "resource"
  BY DEF Request
<1>14. ASSUME NEW r \in requests', r.client = c
       PROVE  r.kind = "resource" /\ r.item \in 1..n
  BY <1>1, <1>3, <1>6, <1>10, <1>13, <1>14
<1>15. \A r : r.client # c => (r \in requests <=> r \in requests')
  BY <1>3, <1>10, <1>13
<1>16. Handles(c, y)
  BY <1>10, <1>12, <1>15, Zenon DEF Handles
<1>17. /\ Out(c, "description", requests') = {} /\ Out(c, "reference", requests') = {}
       /\ Out(c, "resource", requests') \subseteq 1..n
  BY <1>14 DEF Out
<1>18. Listing(c, y, requests')
  <2>1. \A i : ~Answers(y, i)
    BY <1>12 DEF Answers
  <2>2. Heard(y) = {}
    BY <1>12, <2>1 DEF Heard
  <2>3. Cardinality(Heard(y)) = 0
    BY <2>2, FS_EmptySet
  <2>4. Len(y.doc.resources) = n
    BY <1>5, <1>6, <1>12
  <2>5. Out(c, "resource", requests') \cap Heard(y) = {}
    BY <2>2
  <2> QED
    BY <1>8, <1>12, <1>17, <2>1, <2>3, <2>4, <2>5, Zenon DEF Listing
<1>19. Progress(c, y, requests')
  <2>1. Request(c, "description", 0) \notin requests'
    BY <1>14 DEF Request
  <2>2. ~(c > api) /\ y.doc # NoDoc /\ y.doc.kind # "2.0" /\ y.doc.kind # "declaration"
    BY <1>2, <1>12 DEF NoDoc
  <2>3. Out(c, "description", requests') \subseteq {0}
    BY <1>17
  <2> QED
    BY <1>12, <1>18, <2>1, <2>2, <2>3, Zenon DEF Progress
<1>20. api \notin overlapped => Described(c, y, models'[c]) /\ Empty(y, requests', models'[c])
  BY <1>2, <1>10, <1>12 DEF Described, Empty
<1>21. models' \in [Clients -> SUBSET Definition]
  BY <1>10, Zenon DEF IInv, TypeOK
<1>22. requests' \subseteq [client : 1..api, kind : {"description", "reference", "resource"},
                            item : {0} \cup Hosts \cup Nat]
  <2>1. c \in 1..api
    BY <1>2, DocumentsAssumption DEF Clients
  <2>2. \A i \in DOMAIN resources :
           Request(c, "resource", i) \in
              [client : 1..api, kind : {"description", "reference", "resource"},
               item : {0} \cup Hosts \cup Nat]
    BY <1>6, <2>1 DEF Request
  <2> QED
    BY <1>10, <2>2 DEF IInv, TypeOK
<1> QED
  BY <1>1, <1>11, <1>16, <1>19, <1>20, <1>21, <1>22, HandlerKeeps

LEMMA DescriptionAnsweredKeeps ==
    ASSUME NEW c \in Clients, NEW d \in Descriptions
    PROVE  IInv /\ DescriptionAnswered(c, d) => IInv'
<1> SUFFICES ASSUME IInv, DescriptionAnswered(c, d) PROVE IInv'
  OBVIOUS
<1>1. Request(c, "description", 0) \in requests /\ UNCHANGED <<api, overlapped>>
  BY DEF DescriptionAnswered
<1>2. clients[c] = SwaggerClient
  BY <1>1, DescriptionOut
<1>3. \/ d.kind = "2.0" /\ Resolve(c, Described0(d))
      \/ d.kind = "declaration" /\ BuildDeclaration(c, Described0(d))
      \/ d.kind = "listing" /\ BuildListing(c, Described0(d))
  BY <1>2, Zenon DEF DescriptionAnswered, Described0
<1> QED
  BY <1>1, <1>3, ResolveKeeps, BuildDeclarationKeeps, BuildListingKeeps, Zenon

-----------------------------------------------------------------------------
(* The resources of a listing                                              *)

\* Client x waits for resource i, one of its listing's n, and has not heard
\* of it.
Missing(c, x, i, n, out, less) ==
    /\ x.doc.kind = "listing" /\ x.doc.kind # "2.0" /\ x.doc # NoDoc
    /\ Listing(c, x, out) /\ n = Len(x.doc.resources) /\ n \in Nat
    /\ i \in 1..n /\ i \notin Heard(x)
    /\ Request(c, "description", 0) \notin less /\ Out(c, "description", less) = {}
    /\ Out(c, "reference", less) = {} /\ Out(c, "resource", less) \subseteq 1..n
    /\ Out(c, "resource", less) \cap Heard(x) = {} /\ i \notin Out(c, "resource", less)
    /\ x.resourceCount = Cardinality(Heard(x))

(* Who waits for a resource has a listing. *)
LEMMA ResourceOut ==
    ASSUME NEW c \in Clients, NEW x \in ClientType, NEW out, Progress(c, x, out),
           \A q \in out : q = Request(q.client, q.kind, q.item),
           NEW i, Request(c, "resource", i) \in out,
           NEW less, less = out \ {Request(c, "resource", i)}
    PROVE  \E n : Missing(c, x, i, n, out, less)
<1>1. PICK r \in out : /\ r = Request(c, "resource", i)
                       /\ r.client = c /\ r.kind = "resource" /\ r.item = i
  BY DEF Request
<1>2. i \in Out(c, "resource", out)
  BY <1>1 DEF Out
<1>3. x.doc # NoDoc /\ x.doc.kind # "2.0" /\ x.doc.kind # "declaration"
  BY <1>2, Zenon DEF Progress, Spec20, Declaration
<1>4. x.doc.kind = "listing"
  BY <1>3, DocumentsAssumption DEF DescriptionType, ClientType
<1>5. Listing(c, x, out)
  BY <1>4 DEF Progress
<1>6. PICK n \in Nat : n = Len(x.doc.resources)
  <2>1. x.doc \in Descriptions
    BY <1>3 DEF ClientType
  <2>2. x.doc.resources \in Seq(STRING)
    BY <1>4, <2>1, DocumentsAssumption DEF DescriptionType
  <2> QED
    BY <2>2
<1>7. /\ Out(c, "reference", out) = {} /\ Out(c, "resource", out) \subseteq 1..n
      /\ Out(c, "resource", out) \cap Heard(x) = {} /\ x.resourceCount = Cardinality(Heard(x))
  BY <1>5, <1>6, Zenon DEF Listing
<1>8. i \in 1..n /\ i \notin Heard(x)
  BY <1>2, <1>7
<1>9. ~(x = SwaggerClient)
  BY <1>3 DEF SwaggerClient
<1>10. Request(c, "description", 0) \notin out
  BY <1>9 DEF Progress
<1>11. Out(c, "description", out) = {}
  <2>1. Out(c, "description", out) \subseteq {0}
    BY Zenon DEF Progress
  <2>2. SUFFICES ASSUME NEW q \in out, q.client = c, q.kind = "description" PROVE FALSE
    BY DEF Out
  <2>3. q.item = 0
    BY <2>1, <2>2 DEF Out
  <2> QED
    BY <1>10, <2>2, <2>3
<1>12. \A kind : Out(c, kind, less) \subseteq Out(c, kind, out)
  BY DEF Out
<1>13. i \notin Out(c, "resource", less)
  <2>1. \A q \in out : q.client = c /\ q.kind = "resource" /\ q.item = i => q = r
    BY <1>1, Zenon
  <2>2. \A q \in less : q.client = c /\ q.kind = "resource" => q.item # i
    BY <1>1, <2>1
  <2> QED
    BY <2>2 DEF Out
<1>14. /\ Request(c, "description", 0) \notin less /\ Out(c, "description", less) = {}
       /\ Out(c, "reference", less) = {} /\ Out(c, "resource", less) \subseteq 1..n
       /\ Out(c, "resource", less) \cap Heard(x) = {}
  BY <1>7, <1>10, <1>11, <1>12
<1> QED
  BY <1>3, <1>4, <1>5, <1>6, <1>7, <1>8, <1>13, <1>14, Zenon DEF Missing

(* One resource more is heard of, and when their number is that of the     *)
(* listing none is missing.                                                *)
LEMMA HeardCounted ==
    ASSUME NEW n \in Nat, NEW H \in SUBSET (1..n), NEW i \in 1..n, i \notin H
    PROVE  /\ Cardinality(H) \in Nat /\ Cardinality(H \cup {i}) = Cardinality(H) + 1
           /\ Cardinality(H \cup {i}) = n => H \cup {i} = 1..n
<1>1. PICK N : N = 1..n /\ IsFiniteSet(N) /\ Cardinality(N) = n
  BY Counted
<1>2. IsFiniteSet(H) /\ Cardinality(H) \in Nat
  BY <1>1, FS_Subset, FS_CardinalityType
<1>3. Cardinality(H \cup {i}) = Cardinality(H) + 1
  BY <1>2, FS_AddElement
<1>4. PICK K \in SUBSET N : K = H \cup {i}
  BY <1>1
<1>5. Cardinality(N) = Cardinality(K) => N = K
  BY <1>1, FS_Subset
<1> QED
  BY <1>1, <1>2, <1>3, <1>4, <1>5

\* Client x has become y by an answer for its resource i or its failure.
Grown(x, y, i) ==
    /\ y.doc = x.doc /\ y.hasApis = x.hasApis /\ y.isBuilt = x.isBuilt
    /\ y.expectedResourceCount = x.expectedResourceCount
    /\ y.resourceCount = x.resourceCount + 1
    /\ DOMAIN y.apisArray = DOMAIN x.apisArray
    /\ \A j \in DOMAIN x.apisArray : j # i => y.apisArray[j] = x.apisArray[j]
    /\ \/ /\ y.failed = x.failed \cup {i} /\ y.answers = x.answers
          /\ y.apisArray = x.apisArray
       \/ \E k \in Nat : /\ y.failed = x.failed /\ y.answers = x.answers \cup {<<i, k>>}
                         /\ Len(y.apisArray[i].operations) = k

LEMMA ListingGoesOn ==
    ASSUME NEW c, NEW x \in ClientType, ~x.isBuilt, NEW i, NEW n, NEW out, NEW less,
           Missing(c, x, i, n, out, less), NEW y \in ClientType, Grown(x, y, i)
    PROVE  /\ Listing(c, y, less) /\ Heard(y) = Heard(x) \cup {i}
           /\ y.resourceCount = n => Out(c, "resource", less) = {}
<1>1. /\ Listing(c, x, out) /\ n = Len(x.doc.resources) /\ n \in Nat
      /\ i \in 1..n /\ i \notin Heard(x) /\ Out(c, "reference", less) = {}
      /\ Out(c, "resource", less) \subseteq 1..n
      /\ Out(c, "resource", less) \cap Heard(x) = {} /\ i \notin Out(c, "resource", less)
      /\ x.resourceCount = Cardinality(Heard(x))
  BY Zenon DEF Missing
<1>2. ~Answers(x, i) /\ i \notin x.failed
  BY <1>1 DEF Heard
<1>3. ASSUME NEW j PROVE (j \in y.failed \/ Answers(y, j)) <=> (j \in x.failed \/ Answers(x, j) \/ j = i)
  BY DEF Answers, Grown
<1>4. Heard(y) = Heard(x) \cup {i}
  BY <1>1, <1>3 DEF Heard, Grown
<1>5. /\ Cardinality(Heard(x)) \in Nat /\ Cardinality(Heard(y)) = Cardinality(Heard(x)) + 1
      /\ Cardinality(Heard(y)) = n => Heard(y) = 1..n
  <2>1. PICK H : H = Heard(x) /\ H \in SUBSET (1..n) /\ i \notin H
    BY <1>1 DEF Heard
  <2>2. /\ Cardinality(H) \in Nat /\ Cardinality(H \cup {i}) = Cardinality(H) + 1
        /\ Cardinality(H \cup {i}) = n => H \cup {i} = 1..n
    <3>1. n \in Nat /\ i \in 1..n
      BY <1>1
    <3> QED
      BY <2>1, <3>1, HeardCounted, Zenon
  <2> QED
    BY <1>4, <2>1, <2>2, Zenon
<1>6. y.resourceCount = Cardinality(Heard(y))
  BY <1>1, <1>5 DEF Grown
<1>7. y.resourceCount = n => Out(c, "resource", less) = {}
  BY <1>1, <1>4, <1>5, <1>6
<1>8. Out(c, "resource", less) \cap Heard(y) = {}
  BY <1>1, <1>4
<1>9. /\ x.hasApis /\ x.expectedResourceCount = n /\ DOMAIN x.apisArray = 1..n
      /\ \A j \in 1..n :
            /\ ~Answers(x, j) => x.apisArray[j].operations = <<>>
            /\ Answers(x, j) => j \notin x.failed /\ <<j, Len(x.apisArray[j].operations)>> \in x.answers
  BY <1>1, Zenon DEF Listing
<1>10. ASSUME NEW j \in 1..n
       PROVE  /\ ~Answers(y, j) => y.apisArray[j].operations = <<>>
              /\ Answers(y, j) => j \notin y.failed /\ <<j, Len(y.apisArray[j].operations)>> \in y.answers
  <2>1. CASE j = i
    <3>1. CASE y.failed = x.failed \cup {i} /\ y.answers = x.answers /\ y.apisArray = x.apisArray
      <4>1. ~Answers(y, j) /\ x.apisArray[j].operations = <<>>
        BY <1>2, <1>9, <2>1, <3>1 DEF Answers
      <4> QED
        BY <3>1, <4>1
    <3>2. CASE \E k \in Nat : /\ y.failed = x.failed /\ y.answers = x.answers \cup {<<i, k>>}
                              /\ Len(y.apisArray[i].operations) = k
      <4>1. Answers(y, j)
        BY <2>1, <3>2 DEF Answers
      <4> QED
        BY <1>2, <2>1, <3>2, <4>1
    <3> QED
      BY <3>1, <3>2, Zenon DEF Grown
  <2>2. CASE j # i
    <3>1. y.apisArray[j] = x.apisArray[j]
      BY <1>9, <2>2 DEF Grown
    <3>2. (Answers(y, j) <=> Answers(x, j)) /\ (j \in y.failed <=> j \in x.failed)
      BY <2>2 DEF Answers, Grown
    <3>3. x.answers \subseteq y.answers
      BY DEF Grown
    <3> QED
      BY <1>9, <3>1, <3>2, <3>3
  <2> QED
    BY <2>1, <2>2
<1>11. ~y.isBuilt
  BY DEF Grown
<1>12. Listing(c, y, less)
  BY <1>1, <1>6, <1>8, <1>9, <1>10, <1>11, Zenon DEF Listing, Grown
<1> QED
  BY <1>4, <1>7, <1>12

(* What ends for a resource, whatever was answered. *)
LEMMA ResourceEnds ==
    ASSUME IInv, NEW c \in Clients, NEW i, Request(c, "resource", i) \in requests,
           requests' = requests \ {Request(c, "resource", i)}
    PROVE  /\ Waiting(c) /\ \E n : Missing(c, clients[c], i, n, requests, requests')
           /\ \A r : r.client # c => (r \in requests <=> r \in requests')
           /\ requests' \subseteq [client : 1..api, kind : {"description", "reference", "resource"},
                                   item : {0} \cup Hosts \cup Nat]
<1>1. PICK q \in requests : q = Request(c, "resource", i) /\ q.client = c
  BY DEF Request
<1>2. Waiting(c)
  BY <1>1 DEF Waiting
<1>3. PICK x \in ClientType : x = clients[c] /\ Progress(c, x, requests)
  BY <1>2, WaitingFacts
<1>4. \A r \in requests : r = Request(r.client, r.kind, r.item)
  BY RequestTyped DEF IInv
<1>5. PICK out, less : out = requests /\ less = requests'
  OBVIOUS
<1>6. /\ Progress(c, x, out) /\ \A r \in out : r = Request(r.client, r.kind, r.item)
      /\ Request(c, "resource", i) \in out /\ less = out \ {Request(c, "resource", i)}
  BY <1>3, <1>4, <1>5, Zenon
<1>7. \E n : Missing(c, x, i, n, out, less)
  BY <1>6, ResourceOut
<1>8. \E n : Missing(c, clients[c], i, n, requests, requests')
  BY <1>3, <1>5, <1>7, Zenon
<1>9. \A r : r.client # c => (r \in requests <=> r \in requests')
  BY <1>1
<1>10. requests' \subseteq [client : 1..api, kind : {"description", "reference", "resource"},
                            item : {0} \cup Hosts \cup Nat]
  BY Zenon DEF IInv, TypeOK
<1> QED
  BY <1>2, <1>8, <1>9, <1>10

(* A resource that is counted and not used. *)
LEMMA FailedKeeps ==
    ASSUME IInv, NEW c \in Clients, NEW i, Request(c, "resource", i) \in requests,
           requests' = requests \ {Request(c, "resource", i)},
           clients' = [clients EXCEPT ![c].resourceCount = @ + 1,
                                      ![c].failed = @ \cup {i}, ![c].broken = TRUE],
           UNCHANGED <<api, models, overlapped, page, mainView>>
    PROVE  IInv'
<1>1. /\ Request(c, "resource", i) \in requests /\ requests' = requests \ {Request(c, "resource", i)}
      /\ clients' = [clients EXCEPT ![c].resourceCount = @ + 1,
                                    ![c].failed = @ \cup {i}, ![c].broken = TRUE]
      /\ UNCHANGED <<api, models, overlapped, page, mainView>>
  OBVIOUS
<1>2. PICK n : /\ Waiting(c) /\ Missing(c, clients[c], i, n, requests, requests')
               /\ \A r : r.client # c => (r \in requests <=> r \in requests')
               /\ requests' \subseteq [client : 1..api,
                                       kind : {"description", "reference", "resource"},
                                       item : {0} \cup Hosts \cup Nat]
  BY <1>1, ResourceEnds
<1>3. PICK x \in ClientType : /\ x = clients[c] /\ ~x.isBuilt
                              /\ c <= api /\ c \in Nat /\ api \in Nat
                              /\ api \notin overlapped => c = api /\ Own(c, models[c])
  BY <1>2, WaitingFacts
<1>4. PICK y : y = [x EXCEPT !.resourceCount = @ + 1, !.failed = @ \cup {i}, !.broken = TRUE]
  OBVIOUS
<1>5. clients' = [clients EXCEPT ![c] = y]
  <2>1. clients \in [Clients -> ClientType]
    BY DEF IInv, TypeOK
  <2> QED
    BY <1>1, <1>3, <1>4, <2>1
<1>6. Missing(c, x, i, n, requests, requests')
  BY <1>2, <1>3
<1>7. /\ i \in Nat /\ x.doc # NoDoc /\ x.doc.kind = "listing"
      /\ Request(c, "description", 0) \notin requests' /\ Out(c, "description", requests') = {}
  <2>1. i \in 1..n /\ n \in Nat
    BY <1>6, Zenon DEF Missing
  <2>2. /\ x.doc # NoDoc /\ x.doc.kind = "listing"
        /\ Request(c, "description", 0) \notin requests' /\ Out(c, "description", requests') = {}
    BY <1>6, Zenon DEF Missing
  <2>3. i \in Nat
    BY <2>1
  <2> QED
    BY <2>2, <2>3, Zenon
<1>8. y \in ClientType
  <2>1. PICK k, failed : k = x.resourceCount + 1 /\ failed = x.failed \cup {i}
    OBVIOUS
  <2>2. k \in Nat /\ failed \in SUBSET Nat
    BY <1>7, <2>1 DEF ClientType
  <2>3. y = [x EXCEPT !.resourceCount = k, !.failed = failed, !.broken = TRUE]
    BY <1>4, <2>1
  <2> QED
    BY <2>2, <2>3 DEF ClientType
<1>9. Grown(x, y, i) /\ y.doc = x.doc /\ y.isBuilt = x.isBuilt
  <2>1. /\ y.doc = x.doc /\ y.hasApis = x.hasApis /\ y.apisArray = x.apisArray
        /\ y.isBuilt = x.isBuilt /\ y.resourceCount = x.resourceCount + 1
        /\ y.expectedResourceCount = x.expectedResourceCount
        /\ y.answers = x.answers /\ y.failed = x.failed \cup {i}
    BY <1>4 DEF ClientType
  <2> QED
    BY <2>1, Zenon DEF Grown
<1>10. Listing(c, y, requests')
  BY <1>3, <1>6, <1>8, <1>9, ListingGoesOn
<1>11. Handles(c, y)
  BY <1>1, <1>2, <1>3, <1>5, <1>9, Zenon DEF Handles
<1>12. Progress(c, y, requests')
  <2>1. ~(c > api) /\ y.doc.kind # "2.0" /\ y.doc.kind # "declaration" /\ ~y.isBuilt /\ y.doc # NoDoc
    BY <1>3, <1>7, <1>9
  <2>2. Out(c, "description", requests') \subseteq {0}
    BY <1>7
  <2> QED
    BY <1>7, <1>10, <2>1, <2>2, Zenon DEF Progress
<1>13. api \notin overlapped => Described(c, y, models'[c]) /\ Empty(y, requests', models'[c])
  BY <1>1, <1>3, <1>7, <1>9 DEF Described, Empty
<1>14. models' \in [Clients -> SUBSET Definition]
  BY <1>1, Zenon DEF IInv, TypeOK
<1> QED
  BY <1>2, <1>8, <1>11, <1>12, <1>13, <1>14, HandlerKeeps

LEMMA ResourceFailedKeeps ==
    ASSUME NEW c \in Clients, NEW i
    PROVE  IInv /\ ResourceFailed(c, i) => IInv'
BY FailedKeeps DEF ResourceFailed, Fail, Silent

\* A client that has got n operations for its resource i.
Got(x, i, n) ==
    [x EXCEPT !.resourceCount = @ + 1, !.replaced = @ \cup {x.doc.resources[i]},
              !.answers = @ \cup {<<i, n>>}, !.apisArray[i].operations = Numbered(n)]

LEMMA GotFacts ==
    ASSUME NEW x \in ClientType, NEW i, i \in DOMAIN x.apisArray, NEW n \in Nat,
           x.doc.resources[i] \in STRING, NEW y, y = Got(x, i, n)
    PROVE  y \in ClientType /\ Grown(x, y, i)
<1>1. PICK s : s = x.apisArray /\ s \in Seq(Group)
  BY DEF ClientType
<1>2. PICK numbered : numbered = Numbered(n) /\ numbered \in Seq(Nat) /\ Len(numbered) = n
  <2>1. Numbered(n) \in Seq(Nat) /\ Len(Numbered(n)) = n
    BY NumberedFacts
  <2> QED
    BY <2>1, Zenon
<1>3. PICK g : g = [s[i] EXCEPT !.operations = numbered]
  OBVIOUS
<1>4. s[i] \in Group /\ i \in 1..Len(s) /\ i \in Nat /\ Len(s) \in Nat
  BY <1>1
<1>5. g \in Group /\ g.operations = numbered
  BY <1>2, <1>3, <1>4 DEF Group
<1>6. PICK t : t = [s EXCEPT ![i] = g]
  OBVIOUS
<1>7. /\ t \in Seq(Group) /\ DOMAIN t = DOMAIN s /\ t[i] = g
      /\ \A j \in DOMAIN s : j # i => t[j] = s[j]
  <2>1. s \in [1..Len(s) -> Group] /\ DOMAIN s = 1..Len(s)
    BY <1>1
  <2>2. t \in [1..Len(s) -> Group] /\ t[i] = g /\ \A j \in 1..Len(s) : j # i => t[j] = s[j]
    BY <1>4, <1>5, <1>6, <2>1
  <2> QED
    BY <1>4, <2>1, <2>2
<1>8. PICK k, answers, names : /\ k = x.resourceCount + 1 /\ answers = x.answers \cup {<<i, n>>}
                               /\ names = x.replaced \cup {x.doc.resources[i]}
  OBVIOUS
<1>9. /\ k \in Nat /\ answers \in SUBSET ((Nat \X Nat) \cup [host : Hosts, name : Models])
      /\ names \in SUBSET STRING
  BY <1>4, <1>8 DEF ClientType
<1>10. y = [x EXCEPT !.resourceCount = k, !.replaced = names, !.answers = answers, !.apisArray = t]
  <2>1. y = [x EXCEPT !.resourceCount = k, !.replaced = names, !.answers = answers,
                      !.apisArray[i].operations = numbered]
    BY <1>2, <1>8 DEF Got
  <2>2. PICK z : z = [x EXCEPT !.resourceCount = k, !.replaced = names, !.answers = answers]
    OBVIOUS
  <2>3. z.apisArray = s /\ y = [z EXCEPT !.apisArray[i].operations = numbered]
    BY <1>1, <2>1, <2>2 DEF ClientType
  <2>4. y = [z EXCEPT !.apisArray = t]
    BY <1>3, <1>6, <2>3
  <2> QED
    BY <2>2, <2>4
<1>11. y \in ClientType
  BY <1>7, <1>9, <1>10 DEF ClientType
<1>12. /\ y.doc = x.doc /\ y.hasApis = x.hasApis /\ y.isBuilt = x.isBuilt /\ y.failed = x.failed
       /\ y.expectedResourceCount = x.expectedResourceCount
       /\ y.resourceCount = k /\ y.answers = answers /\ y.apisArray = t
  BY <1>10 DEF ClientType
<1> QED
  BY <1>1, <1>2, <1>5, <1>7, <1>8, <1>11, <1>12, Zenon DEF Grown

\* The disjunct of AddApiDeclaration that uses the declaration.
Added(c, i, declaration) ==
    LET client  == [clients[c] EXCEPT !.resourceCount = @ + 1]
        counted == [client EXCEPT
                       !.replaced = @ \cup {client.doc.resources[i]},
                       !.answers = @ \cup {<<i, declaration.operations>>},
                       !.apisArray[i].operations = Numbered(declaration.operations)]
        counts  == Keeps(counted, {"resourceCount", "expectedResourceCount"})
    IN /\ models' = [models EXCEPT ![c] = AddModels(c, declaration.models)]
       /\ IF counts /\ AllCounted(counted) THEN Finish(c, counted)
          ELSE clients' = [clients EXCEPT ![c] = [counted EXCEPT !.broken = @ \/ ~counts]]
               /\ Silent

LEMMA ResourceAnsweredKeeps ==
    ASSUME NEW c \in Clients, NEW i
    PROVE  IInv /\ ResourceAnswered(c, i) => IInv'
<1> SUFFICES ASSUME IInv, ResourceAnswered(c, i) PROVE IInv'
  OBVIOUS
<1>1. /\ Request(c, "resource", i) \in requests /\ requests' = requests \ {Request(c, "resource", i)}
      /\ UNCHANGED <<api, overlapped>>
  BY DEF ResourceAnswered
<1>1a. PICK declaration \in Declarations : AddApiDeclaration(c, i, declaration)
  BY DEF ResourceAnswered
<1>2. PICK relative \in BOOLEAN :
         /\ relative => /\ clients' = [clients EXCEPT ![c].resourceCount = @ + 1,
                                          ![c].failed = @ \cup {i}, ![c].broken = TRUE]
                        /\ UNCHANGED models /\ Silent
         /\ ~relative => Added(c, i, declaration)
  <2>0. clients \in [Clients -> ClientType]
    BY DEF IInv, TypeOK
  <2>1. PICK x : x = [clients[c] EXCEPT !.resourceCount = @ + 1]
    OBVIOUS
  <2>2. CASE /\ clients' = [clients EXCEPT ![c] = [x EXCEPT !.failed = @ \cup {i}, !.broken = TRUE]]
             /\ UNCHANGED models /\ Silent
    <3>1. clients' = [clients EXCEPT ![c].resourceCount = @ + 1,
                                     ![c].failed = @ \cup {i}, ![c].broken = TRUE]
      BY <2>0, <2>1, <2>2 DEF ClientType
    <3> QED
      BY <2>2, <3>1
  <2>3. CASE Added(c, i, declaration)
    BY <2>3
  <2> QED
    BY <1>1a, <2>1, <2>2, <2>3, Zenon DEF AddApiDeclaration, Added
<1>2a. CASE relative
  BY <1>1, <1>2, <1>2a, FailedKeeps DEF Silent
<1>2b. SUFFICES ASSUME ~relative PROVE IInv'
  BY <1>2a
<1>3. PICK n : /\ Waiting(c) /\ Missing(c, clients[c], i, n, requests, requests')
               /\ \A r : r.client # c => (r \in requests <=> r \in requests')
               /\ requests' \subseteq [client : 1..api,
                                       kind : {"description", "reference", "resource"},
                                       item : {0} \cup Hosts \cup Nat]
  BY <1>1, ResourceEnds
<1>4. PICK x \in ClientType : /\ x = clients[c] /\ ~x.isBuilt /\ models[c] \in SUBSET Definition
                              /\ c <= api /\ c \in Nat /\ api \in Nat
                              /\ api \notin overlapped => c = api /\ Own(c, models[c])
  BY <1>3, WaitingFacts
<1>5. Missing(c, x, i, n, requests, requests')
  BY <1>3, <1>4
<1>6. /\ i \in 1..n /\ n \in Nat /\ x.doc # NoDoc /\ x.doc.kind = "listing"
      /\ Request(c, "description", 0) \notin requests' /\ Out(c, "description", requests') = {}
      /\ Out(c, "reference", requests') = {}
      /\ Listing(c, x, requests) /\ n = Len(x.doc.resources)
  BY <1>5, Zenon DEF Missing
<1>7. x.hasApis /\ x.expectedResourceCount = n /\ DOMAIN x.apisArray = 1..n
  BY <1>6, Zenon DEF Listing
<1>8. declaration.models \in SUBSET Models /\ declaration.operations \in Nat
  BY DocumentsAssumption
<1>9. PICK k \in Nat : k = declaration.operations
  BY <1>8
<1>10. PICK y : y = Got(x, i, k)
  OBVIOUS
<1>11. PICK table : table = AddModels(c, declaration.models)
  OBVIOUS
<1>11a. PICK b : b = (y.broken \/ ~Keeps(y, {"resourceCount", "expectedResourceCount"}))
  OBVIOUS
<1>12. /\ models' = [models EXCEPT ![c] = table]
       /\ \/ y.resourceCount = y.expectedResourceCount /\ Finish(c, y)
          \/ clients' = [clients EXCEPT ![c] = [y EXCEPT !.broken = b]] /\ Silent
  <2>1. y = [[x EXCEPT !.resourceCount = @ + 1] EXCEPT
                !.replaced = @ \cup {[x EXCEPT !.resourceCount = @ + 1].doc.resources[i]},
                !.answers = @ \cup {<<i, declaration.operations>>},
                !.apisArray[i].operations = Numbered(declaration.operations)]
    <3>1. PICK w : w = [x EXCEPT !.resourceCount = @ + 1]
      OBVIOUS
    <3>2. w.doc = x.doc /\ w.answers = x.answers /\ w.apisArray = x.apisArray /\ w.replaced = x.replaced
      BY <3>1 DEF ClientType
    <3>3. y = [x EXCEPT !.resourceCount = @ + 1, !.replaced = @ \cup {w.doc.resources[i]},
                        !.answers = @ \cup {<<i, declaration.operations>>},
                        !.apisArray[i].operations = Numbered(declaration.operations)]
      BY <1>9, <1>10, <3>2, Zenon DEF Got
    <3> QED
      BY <3>1, <3>3
  <2> QED
    BY <1>2, <1>2b, <1>4, <1>11, <1>11a, <2>1, Zenon DEF Added, AllCounted
<1>13. y \in ClientType /\ Grown(x, y, i)
  <2>1. PICK resources \in Seq(STRING) : resources = x.doc.resources
    BY <1>6, DocumentsAssumption DEF DescriptionType, ClientType
  <2>2. x.doc.resources[i] \in STRING
    BY <1>6, <2>1
  <2> QED
    BY <1>6, <1>7, <1>10, <2>2, GotFacts
<1>14. /\ y.doc = x.doc /\ y.hasApis /\ ~y.isBuilt /\ y.expectedResourceCount = n
       /\ y.doc.kind = "listing" /\ y.doc \in Descriptions
  BY <1>4, <1>6, <1>7, <1>13 DEF Grown, ClientType
<1>15. /\ Listing(c, y, requests')
       /\ y.resourceCount = n => Out(c, "resource", requests') = {}
  BY <1>4, <1>5, <1>13, ListingGoesOn
<1>16. table \in SUBSET Definition /\ (Own(c, models[c]) => Own(c, table))
  BY <1>4, <1>8, <1>11, AddModelsFacts
<1>17. models' \in [Clients -> SUBSET Definition] /\ models'[c] = table
  BY <1>12, <1>16 DEF IInv, TypeOK
<1>18. ~(c > api) /\ x.doc.kind # "2.0" /\ x.doc.kind # "declaration"
       /\ Out(c, "description", requests') \subseteq {0}
  BY <1>4, <1>6
<1>19. PICK z : Concluded(c, y, z) /\ (z.isBuilt => y.resourceCount = n)
  <2>1. CASE y.resourceCount = y.expectedResourceCount /\ Finish(c, y)
    <3>1. \E z : Concluded(c, y, z)
      BY <1>13, <1>14, <1>16, <1>17, <2>1, FinishConcludes
    <3> QED
      BY <1>14, <2>1, <3>1
  <2>2. CASE clients' = [clients EXCEPT ![c] = [y EXCEPT !.broken = b]] /\ Silent
    <3>1. b \in BOOLEAN
      BY <1>11a
    <3> QED
      BY <1>13, <1>14, <2>2, <3>1, BrokenConcludes
  <2> QED
    BY <1>12, <2>1, <2>2
<1>20. z \in ClientType /\ Kept(y, z)
  BY <1>19 DEF Concluded
<1>21. Handles(c, z)
  BY <1>1, <1>3, <1>19, Zenon DEF Handles, Concluded
<1>22. Listing(c, z, requests')
  <2>1. Heard(z) = Heard(y) /\ \A j : Answers(z, j) <=> Answers(y, j)
    BY <1>20, Zenon DEF Heard, Answers, Kept
  <2>2. n = Len(y.doc.resources)
    BY <1>6, <1>14
  <2> QED
    BY <1>15, <1>19, <1>20, <2>1, <2>2, Zenon DEF Listing, Kept
<1>23. ASSUME NEW r \in requests', r.client = c PROVE ~z.isBuilt
  <2>1. SUFFICES ASSUME z.isBuilt PROVE FALSE
    OBVIOUS
  <2>2. r.kind \in {"description", "reference", "resource"} /\ r.item \in Out(c, r.kind, requests')
    BY <1>3, <1>23 DEF Out
  <2> QED
    BY <1>6, <1>15, <1>19, <2>1, <2>2
<1>24. Progress(c, z, requests')
  <2>1. z.doc = x.doc /\ z.hasApis
    BY <1>14, <1>20 DEF Kept
  <2> QED
    BY <1>6, <1>18, <1>22, <1>23, <2>1, Zenon DEF Progress
<1>25. api \notin overlapped => Described(c, z, models'[c]) /\ Empty(z, requests', models'[c])
  <2>1. ASSUME api \notin overlapped PROVE Own(c, models'[c])
    BY <1>4, <1>16, <1>17, <2>1
  <2> QED
    BY <1>14, <1>19, <2>1, ConcludedDescribed
<1> QED
  BY <1>3, <1>17, <1>20, <1>21, <1>24, <1>25, HandlerKeeps

-----------------------------------------------------------------------------
(* The theorems                                                            *)

LEMMA AnsweredKeeps ==
    ASSUME NEW c \in Clients
    PROVE  IInv /\ Answered(c) => IInv'
<1> SUFFICES ASSUME IInv, Answered(c) PROVE IInv'
  OBVIOUS
<1>1. CASE \E d \in Descriptions : DescriptionAnswered(c, d)
  BY <1>1, DescriptionAnsweredKeeps
<1>2. CASE \E r \in requests : \E found \in SUBSET Models : ReferenceAnswered(c, r.item, found)
  BY <1>2, ReferenceAnsweredKeeps
<1>3. CASE \E r \in requests : ResourceAnswered(c, r.item) \/ ResourceFailed(c, r.item)
  BY <1>3, ResourceAnsweredKeeps, ResourceFailedKeeps
<1>4. CASE DescriptionFailed(c)
  BY <1>4, DescriptionFailedKeeps
<1>5. CASE Malformed(c)
  BY <1>5, MalformedKeeps
<1> QED
  BY <1>1, <1>2, <1>3, <1>4, <1>5 DEF Answered

LEMMA NextKeeps == IInv /\ [Next]_vars => IInv'
<1> SUFFICES ASSUME IInv, [Next]_vars PROVE IInv'
  OBVIOUS
<1>1. CASE Load
  BY <1>1, LoadKeeps
<1>2. ASSUME NEW c \in Clients, Answered(c) PROVE IInv'
  BY <1>2, AnsweredKeeps
<1>3. CASE UNCHANGED vars
  <2>1. /\ UNCHANGED <<api, clients, models, requests, page, mainView, overlapped>>
    BY <1>3 DEF vars
  <2>2. TypeOK' /\ Undisturbed' /\ PageOK'
    BY <2>1 DEF IInv, TypeOK, Undisturbed, PageOK, Intact, Keeps
  <2>3. ASSUME NEW c \in Clients PROVE Progress(c, clients[c], requests)'
    <3>1. api \in Int /\ api' \in Int /\ api <= api' /\ c \in Int
      BY <2>1, DocumentsAssumption DEF IInv, TypeOK, Clients
    <3>2. Progress(c, clients[c], requests) /\ clients'[c] = clients[c]
      BY <2>1 DEF IInv
    <3>3. \A r : r.client = c => (r \in requests <=> r \in requests')
      BY <2>1
    <3> QED
      BY <3>1, <3>2, <3>3, ProgressSame
  <2> QED
    BY <2>2, <2>3 DEF IInv
<1> QED
  BY <1>1, <1>2, <1>3 DEF Next, Quiet

(* Every reachable state satisfies the inductive invariant: whatever loads *)
(* are asked for while others are answered (SwaggerUi.load), what each     *)
(* client has fetched, the page and the global models object belong        *)
(* together.                                                               *)
THEOREM Inductive == Spec => []IInv
<1>1. Init => IInv
  BY InitIInv
<1>2. IInv /\ [Next]_vars => IInv'
  BY NextKeeps
<1> QED
  BY <1>1, <1>2, PTL DEF Spec

(* The groups on the page are those of its description. *)
LEMMA BuiltShows ==
    ASSUME IInv, NEW c \in Clients, clients[c].isBuilt, Intact(clients[c]),
           NEW groups, groups = View(clients[c])
    PROVE  ShowsDescription(c, groups)
<1>1. PICK x \in ClientType : x = clients[c] /\ x.isBuilt /\ Progress(c, x, requests)
  BY DEF IInv, TypeOK
<1>2. PICK array \in Seq(Group) : array = x.apisArray /\ array = Resources(x)
  BY <1>1 DEF ClientType, Resources, Intact, Keeps
<1>3. PICK d \in Descriptions : d = x.doc
  BY <1>1 DEF ClientType, Progress
<1>4. DescriptionType(d)
  BY DocumentsAssumption
<1>5. groups = array
  <2>1. \A g \in Group : ResourceView(g) = g
    BY DEF ResourceView, Group
  <2>2. groups = [i \in DOMAIN array |-> ResourceView(array[i])]
    BY <1>1, <1>2, Zenon DEF View
  <2>3. Len(array) \in Nat /\ DOMAIN array = 1..Len(array)
        /\ \A i \in DOMAIN array : array[i] \in Group
    BY <1>2
  <2>4. array = [i \in DOMAIN array |-> array[i]]
    BY <1>2
  <2> QED
    BY <2>1, <2>2, <2>3, <2>4
<1>6. CASE d.kind = "2.0"
  <2>1. Spec20(c, x, requests)
    BY <1>1, <1>3, <1>6 DEF Progress
  <2>2. ~TagCollides(d) /\ groups = Groups(d.operations)
    BY <1>1, <1>2, <1>3, <1>5, <2>1, Zenon DEF Spec20
  <2>3. GroupsOf(d, groups)
    BY <1>6, <2>2, GroupsShow, Zenon
  <2>4. /\ \A g, h \in DOMAIN groups : groups[g].name = groups[h].name => g = h
        /\ \A g \in DOMAIN groups :
              Within(groups[g]) =
                 {o \in DOMAIN d.operations : \E k \in DOMAIN d.operations[o] :
                     d.operations[o][k] = groups[g].name}
        /\ \A o \in DOMAIN d.operations : \A k \in DOMAIN d.operations[o] :
              \E g \in DOMAIN groups : groups[g].name = d.operations[o][k]
    BY <2>3, Zenon DEF GroupsOf
  <2> QED
    BY <1>1, <1>3, <1>6, <2>4 DEF ShowsDescription, Within
<1>7. CASE d.kind = "listing"
  <2>1. Listing(c, x, requests)
    BY <1>1, <1>3, <1>7 DEF Progress
  <2>2. PICK n \in Nat : n = Len(d.resources) /\ DOMAIN d.resources = 1..n
    BY <1>4, <1>7 DEF DescriptionType
  <2>3. /\ DOMAIN array = 1..n /\ Cardinality(Heard(x)) = n /\ Heard(x) \in SUBSET (1..n)
        /\ \A i \in 1..n :
              /\ ~Answers(x, i) => array[i].operations = <<>>
              /\ Answers(x, i) => i \notin x.failed /\ <<i, Len(array[i].operations)>> \in x.answers
    BY <1>1, <1>2, <1>3, <2>1, <2>2 DEF Listing, Heard
  <2>4. Heard(x) = 1..n
    <3>1. PICK N : N = 1..n /\ IsFiniteSet(N) /\ Cardinality(N) = n
      BY Counted
    <3>2. PICK H \in SUBSET N : H = Heard(x)
      BY <2>3, <3>1
    <3>3. Cardinality(N) = Cardinality(H) => N = H
      BY <3>1, FS_Subset
    <3> QED
      BY <2>3, <3>1, <3>2, <3>3
  <2>5. ASSUME NEW i \in 1..n
        PROVE  IF i \in x.failed THEN array[i].operations = <<>>
               ELSE <<i, Len(array[i].operations)>> \in x.answers
    <3>1. i \in x.failed \/ Answers(x, i)
      BY <2>4 DEF Heard
    <3> QED
      BY <2>3, <3>1
  <2> QED
    BY <1>1, <1>3, <1>5, <1>7, <2>2, <2>3, <2>5 DEF ShowsDescription
<1>8. CASE d.kind = "declaration"
  <2>1. Len(array) = 1 /\ Len(array[1].operations) = d.operations
    BY <1>1, <1>2, <1>3, <1>8 DEF Progress, Declaration
  <2> QED
    BY <1>1, <1>3, <1>5, <1>8, <2>1 DEF ShowsDescription
<1> QED
  BY <1>4, <1>6, <1>7, <1>8 DEF DescriptionType

(* The API asked for last is shown, and shown whole, as soon as it is      *)
(* built, and the page never shows operations of another: SwaggerUi.render *)
(* takes this.api, whichever client calls it.                              *)
THEOREM ShownWholeTheorem == Spec => []ShownWhole
<1>1. IInv => ShownWhole
  <2> SUFFICES ASSUME IInv, api # 0
               PROVE  /\ page.groups # <<>> => page.client = api
                      /\ clients[api].isBuilt => \A r \in requests : r.client # api
                      /\ clients[api].isBuilt /\ Intact(clients[api]) =>
                            page.client = api /\ ShowsDescription(api, page.groups)
    BY DEF ShownWhole
  <2>1. api \in Clients
    BY DocumentsAssumption DEF IInv, TypeOK, Clients
  <2>2. PageOK /\ Progress(api, clients[api], requests)
    BY <2>1 DEF IInv
  <2>3. page.groups # <<>> => page.client = api
    BY <2>2 DEF PageOK
  <2>4. clients[api].isBuilt => \A r \in requests : r.client # api
    BY <2>2 DEF Progress
  <2>5. ASSUME clients[api].isBuilt, Intact(clients[api])
        PROVE  page.client = api /\ ShowsDescription(api, page.groups)
    <3>1. page.client = api /\ page.groups = View(clients[api])
      BY <2>2, <2>5 DEF PageOK
    <3> QED
      BY <2>1, <2>5, <3>1, BuiltShows
  <2> QED
    BY <2>3, <2>4, <2>5
<1> QED
  BY <1>1, Inductive, PTL

(* While loads do not overlap the models on the page are those of its own  *)
(* description, one of each name, and none of them is missing: no build    *)
(* writes into the global models object of another client.  Those from     *)
(* elsewhere are what any host has of the references to the last.          *)
THEOREM ModelsOwnTheorem == Spec => []ModelsOwn
<1>1. IInv => ModelsOwn
  <2> SUFFICES ASSUME IInv, page.groups # <<>>, page.client \notin overlapped
               PROVE  /\ \A m \in page.models : m.client = page.client
                      /\ \A m, n \in page.models : m.name = n.name => m = n
                      /\ clients[page.client].doc.kind # "listing" /\ Intact(clients[page.client]) =>
                            clients[page.client].doc.models \subseteq {m.name : m \in page.models}
                      /\ clients[page.client].doc.kind = "2.0" =>
                            {m.name : m \in {n \in page.models : n.host # "own"}}
                               = FoundElsewhere(clients[page.client])
    BY DEF ModelsOwn
  <2>1. PageOK /\ Undisturbed
    BY DEF IInv
  <2>2. page.client = api /\ api # 0 /\ api \notin overlapped
    BY <2>1 DEF PageOK
  <2>3. clients[api].isBuilt /\ page.models = ModelsOf(clients[api], models[api])
    BY <2>1, <2>2 DEF PageOK
  <2>4. /\ Own(api, page.models)
        /\ clients[api].doc.kind # "listing" /\ Intact(clients[api]) =>
              clients[api].doc.models \subseteq {m.name : m \in page.models}
    BY <2>1, <2>2, <2>3 DEF Undisturbed, Described
  <2>5. ASSUME clients[api].doc.kind = "2.0"
        PROVE  Elsewhere(page.models) = FoundElsewhere(clients[api])
    <3>1. api \in Clients
      BY <2>2, DocumentsAssumption DEF IInv, TypeOK, Clients
    <3>2. clients[api].replaced = {}
      BY <2>5, <3>1 DEF IInv, Progress, Spec20
    <3>3. page.models = models[api]
      BY <2>3, <2>5, <3>2 DEF ModelsOf, Keeps
    <3> QED
      BY <2>1, <2>2, <2>3, <2>5, <3>3 DEF Undisturbed, Described
  <2> QED
    BY <2>2, <2>4, <2>5 DEF Own, Elsewhere
<1> QED
  BY <1>1, Inductive, PTL

(* An answer is one for a client that waits; it changes no other client. *)
LEMMA AnswersOwn ==
    ASSUME IInv, NEW c \in Clients, Answered(c)
    PROVE  Waiting(c) /\ \A k \in Clients : k # c => clients'[k] = clients[k]
<1> DEFINE Others == \A k \in Clients : k # c => clients'[k] = clients[k]
<1>0. DOMAIN clients = Clients
  BY DEF IInv, TypeOK
<1>1. ASSUME NEW x, clients' = [clients EXCEPT ![c] = x] PROVE Others
  BY <1>0, <1>1
<1>2. ASSUME NEW k, NEW i, Request(c, k, i) \in requests PROVE Waiting(c)
  BY <1>2 DEF Request, Waiting
<1> HIDE DEF Others
<1>3. ASSUME NEW x, NEW definitions, BuildFromSpec(c, x, definitions) PROVE Others
  BY <1>1, <1>3, Zenon DEF BuildFromSpec
<1>4. ASSUME NEW x, Finish(c, x) PROVE Others
  BY <1>1, <1>4, Zenon DEF Finish
<1>5. ASSUME NEW d \in Descriptions, DescriptionAnswered(c, d) PROVE Waiting(c) /\ Others
  <2>1. Waiting(c)
    BY <1>2, <1>5, Zenon DEF DescriptionAnswered
  <2>2. ASSUME NEW x, Resolve(c, x) PROVE Others
    BY <1>1, <1>3, <2>2, Zenon DEF Resolve
  <2>3. ASSUME NEW x, BuildDeclaration(c, x) PROVE Others
    BY <1>1, <1>4, <2>3, Zenon DEF BuildDeclaration
  <2>4. ASSUME NEW x, BuildListing(c, x) PROVE Others
    BY <1>1, <2>4, Zenon DEF BuildListing
  <2> QED
    BY <1>5, <2>1, <2>2, <2>3, <2>4, Zenon DEF DescriptionAnswered
<1>6. ASSUME NEW h, NEW found, ReferenceAnswered(c, h, found) PROVE Waiting(c) /\ Others
  BY <1>1, <1>2, <1>3, <1>6, Zenon DEF ReferenceAnswered
<1>7. ASSUME NEW i, ResourceAnswered(c, i) PROVE Waiting(c) /\ Others
  <2>1. Waiting(c) /\ \E declaration \in Declarations : AddApiDeclaration(c, i, declaration)
    BY <1>2, <1>7, Zenon DEF ResourceAnswered
  <2>2. ASSUME NEW declaration, AddApiDeclaration(c, i, declaration) PROVE Others
    BY <1>1, <1>4, <2>2, Zenon DEF AddApiDeclaration
  <2> QED
    BY <2>1, <2>2, Zenon
<1>8. ASSUME NEW i, ResourceFailed(c, i) PROVE Waiting(c) /\ Others
  <2>1. clients' = [clients EXCEPT ![c].resourceCount = @ + 1,
                                   ![c].failed = @ \cup {i}, ![c].broken = TRUE]
    BY <1>8 DEF ResourceFailed
  <2>2. Others
    BY <1>0, <2>1 DEF Others
  <2> QED
    BY <1>2, <1>8, <2>2, Zenon DEF ResourceFailed
<1>9. ASSUME DescriptionFailed(c) \/ Malformed(c) PROVE Waiting(c) /\ Others
  <2>1. Waiting(c)
    BY <1>2, <1>9 DEF DescriptionFailed, Malformed, Waiting
  <2>2. clients' = [clients EXCEPT ![c].broken = TRUE]
    BY <1>9 DEF DescriptionFailed, Malformed
  <2>3. Others
    BY <1>0, <2>2 DEF Others
  <2> QED
    BY <2>1, <2>3
<1>10. Waiting(c) /\ Others
  BY <1>5, <1>6, <1>7, <1>8, <1>9, Zenon DEF Answered
<1> QED
  BY <1>10, Zenon DEF Others

(* Once the API asked for last is built, nothing but the next load changes *)
(* it or the operations shown: SwaggerUi.render takes this.api, and every  *)
(* request made for a client has ended before it is built.                 *)
THEOREM BuiltStaysTheorem == Spec => BuiltStays
<1>1. IInv /\ IInv' /\ [Next]_vars =>
        [api # 0 /\ api' = api /\ clients[api].isBuilt /\ Intact(clients[api]) =>
            /\ clients'[api] = clients[api]
            /\ page'.client = page.client /\ page'.groups = page.groups
            /\ api \notin overlapped => UNCHANGED <<page, models, message>>]_vars
  <2> SUFFICES ASSUME IInv, IInv', Next, api # 0, api' = api,
                      clients[api].isBuilt, Intact(clients[api])
               PROVE  /\ clients'[api] = clients[api]
                      /\ page'.client = page.client /\ page'.groups = page.groups
                      /\ api \notin overlapped => UNCHANGED <<page, models, message>>
    BY Zenon
  <2>1. api \in Nat /\ api \in Clients
    BY DocumentsAssumption DEF IInv, TypeOK, Clients
  <2>2. ~Load
    BY <2>1 DEF Load
  <2>3. CASE UNCHANGED vars
    BY <2>3 DEF vars
  <2>4. ASSUME NEW c \in Clients, Answered(c)
        PROVE  /\ clients'[api] = clients[api] /\ api \in overlapped
               /\ page'.client = page.client /\ page'.groups = page.groups
    <3>1. Waiting(c)
      BY <2>4, AnswersOwn, Zenon
    <3>2. c # api /\ api \in overlapped
      BY <3>1, WaitingFacts, Zenon
    <3>3. clients'[api] = clients[api]
      BY <2>1, <2>4, <3>2, AnswersOwn, Zenon
    <3>4. page.client = api /\ page.groups = View(clients[api])
      BY Zenon DEF IInv, PageOK
    <3>5. page'.client = api /\ page'.groups = View(clients'[api])
      <4>1. clients'[api'].isBuilt /\ Intact(clients'[api']) /\ api' # 0 /\ PageOK'
        BY <3>3 DEF IInv
      <4> QED
        BY <3>3, <4>1, Zenon DEF PageOK
    <3> QED
      BY <3>2, <3>3, <3>4, <3>5, Zenon
  <2> QED
    BY <2>2, <2>3, <2>4, Zenon DEF Next, Quiet
<1>2. IInv /\ [Next]_vars => IInv'
  BY NextKeeps
<1> QED
  BY <1>1, <1>2, Inductive, PTL DEF Spec, BuiltStays
=============================================================================
