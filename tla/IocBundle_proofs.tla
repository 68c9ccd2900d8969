-------------------------- MODULE IocBundle_proofs ---------------------------
(***************************************************************************)
(* The safety invariants of IocBundle, for any classes and any design, the *)
(* dependencies between the classes included.                              *)
(***************************************************************************)
EXTENDS IocBundle, SequenceTheorems, TLAPS

Beans == Classes \cup {Given}

FrameType == [class : Classes, got : SUBSET Beans]

TypeOK ==
    /\ design \in DesignType
    /\ at \in 0..14
    /\ todo \subseteq Classes
    /\ stack \in Seq(FrameType)
    /\ bound \subseteq Beans
    /\ made \in [Classes -> Nat]
    /\ threw \subseteq Classes

\* What can be injected without building anything new of it.
Ready(d) == d \in bound /\ (d = Given \/ (d \in Classes /\ made[d] > 0))

\* What was built was bound and had all it needs; the singletons are kept.
Built ==
    /\ active = {c \in design.singletons : made[c] > 0}
    /\ \A c \in Classes : made[c] > 0 =>
          c \in bound /\ \A d \in design.needs[c] : Ready(d)

\* The classes under construction are needed for the one the loop is at.
Stack ==
    /\ \A j \in 1..Len(stack) :
          /\ stack[j].class \in bound
          /\ stack[j].class \in Needed(stack[1].class)
          /\ \A d \in stack[j].got : Ready(d)
    /\ stack # <<>> => stack[1].class \in todo

\* What the steps up to the i-th bind.
BoundBy(i) == UNION {Binds(Steps[j]) : j \in 1..i}

\* Why the loop of the i-th step may have been left without an object of c.
Excused(i, c) == \/ Needed(c) \cap threw # {}
                 \/ ~(Needed(c) \subseteq BoundBy(i))

\* What the loop of the i-th step has done with c.
Dealt(i, c) == /\ Steps[i] \in Phases => made[c] > 0 \/ Excused(i, c)
               /\ Steps[i] \in Kinds => <<Steps[i], c>> \in registered \/ Excused(i, c)

Loop ==
    /\ bound = BoundBy(at)
    /\ at = 0 => todo = {}
    /\ at > 0 => todo \subseteq Gets(Steps[at])
    /\ \A i \in 1..at : \A c \in Gets(Steps[i]) : i < at \/ c \notin todo => Dealt(i, c)

Registered ==
    \A r \in registered : \E k \in Kinds : \E c \in Gets(k) : r = <<k, c>> /\ made[c] > 0

IInv == TypeOK /\ Built /\ Stack /\ Loop /\ Registered

-----------------------------------------------------------------------------
(* The steps of the start-up                                               *)

(* What comes when: nothing is bound after the sixth of the service steps. *)
LEMMA StepsFacts ==
    /\ Len(Steps) = 14
    /\ \A i \in 1..14 : Steps[i] \in Phases \cup Kinds \cup {"Configuration"}
    /\ \A i \in 8..14 : Steps[i] \in Kinds
    /\ \A k \in Kinds : \E i \in 8..14 : Steps[i] = k
    /\ Phases \cap Kinds = {} /\ "Configuration" \notin Phases \cup Kinds
<1>1. Len(Steps) = 14
  BY DEF Steps
<1>2. /\ {Steps[1], Steps[3], Steps[4], Steps[5], Steps[6], Steps[7]} \subseteq Phases
      /\ Steps[2] = "Configuration"
  BY DEF Steps, Phases
<1>3. /\ Steps[8] = "LifeCycle" /\ Steps[9] = "ServerLifecycleListener"
      /\ Steps[10] = "LifeCycle.Listener" /\ Steps[11] = "Task"
      /\ Steps[12] = "HealthCheck" /\ Steps[13] = "Provider" /\ Steps[14] = "Path"
  BY DEF Steps
<1>4. \A i \in 8..14 : i \in {8, 9, 10, 11, 12, 13, 14}
  OBVIOUS
<1>5. {8, 9, 10, 11, 12, 13, 14} \subseteq 8..14
  OBVIOUS
<1>6. \A i \in 8..14 : Steps[i] \in Kinds
  BY <1>3, <1>4 DEF Kinds
<1>7. \A i \in 1..14 : i \in {1, 2, 3, 4, 5, 6, 7} \cup 8..14
  OBVIOUS
<1>8. \A i \in 1..14 : Steps[i] \in Phases \cup Kinds \cup {"Configuration"}
  BY <1>2, <1>6, <1>7
<1>9. \A k \in Kinds : \E i \in 8..14 : Steps[i] = k
  BY <1>3, <1>5 DEF Kinds
<1>10. Phases \cap Kinds = {} /\ "Configuration" \notin Phases \cup Kinds
  BY DEF Phases, Kinds
<1> QED
  BY <1>1, <1>6, <1>8, <1>9, <1>10

(* A step binds and gets what the design says, which nothing changes. *)
LEMMA DesignFixed ==
    ASSUME design' = design
    PROVE  /\ \A c : Needed(c)' = Needed(c)
           /\ \A i : BoundBy(i)' = BoundBy(i)
           /\ \A s : Gets(s)' = Gets(s) /\ Binds(s)' = Binds(s)
BY DEF Needed, BoundBy, Gets, Binds, InPhase

LEMMA GetsTypes ==
    ASSUME TypeOK, NEW s
    PROVE  /\ Gets(s) \subseteq Classes /\ Binds(s) \subseteq Beans
           /\ s \in Kinds => Binds(s) = {}
<1>1. Gets(s) \subseteq Classes /\ Binds(s) \subseteq Beans
  BY DEF Gets, Binds, InPhase, Beans
<1>2. ASSUME s \in Kinds PROVE Binds(s) = {}
  <2>1. s \notin Phases /\ s # "none" /\ s # "Configuration"
    BY <1>2 DEF Kinds, Phases
  <2>2. \A c \in Classes : design.phase[c] \in Phases \cup {"none"}
    BY DEF TypeOK, DesignType
  <2> QED
    BY <2>1, <2>2 DEF Binds, InPhase
<1> QED
  BY <1>1, <1>2

LEMMA BoundByStep ==
    /\ BoundBy(0) = {}
    /\ \A i \in Nat : BoundBy(i + 1) = BoundBy(i) \cup Binds(Steps[i + 1])
<1>1. 1..0 = {} /\ \A i \in Nat : 1..(i + 1) = (1..i) \cup {i + 1}
  OBVIOUS
<1> QED
  BY <1>1 DEF BoundBy

(* What the steps bind is what can be bound: each class that is not        *)
(* rejected, whatever becomes of the others of its phase.                  *)
LEMMA BoundByBindable ==
    ASSUME TypeOK, NEW i \in 0..14
    PROVE  BoundBy(i) = Bindable(i)
<1>1. Given \notin Classes
  BY DesignsAssumption
<1>2. \A c \in Classes : design.phase[c] # "Configuration"
  BY DEF TypeOK, DesignType, Phases
<1>3. ASSUME NEW b \in BoundBy(i) PROVE b \in Bindable(i)
  <2>1. PICK j \in 1..i : b \in Binds(Steps[j])
    BY <1>3 DEF BoundBy
  <2> QED
    BY <2>1, <1>1 DEF Binds, InPhase, Bindable
<1>4. ASSUME NEW b \in Bindable(i) PROVE b \in BoundBy(i)
  <2>1. PICK j \in 1..i : IF b = Given THEN Steps[j] = "Configuration"
                          ELSE Steps[j] = design.phase[b] /\ b \notin design.rejected
    BY <1>4 DEF Bindable
  <2>2. b \in Binds(Steps[j])
    BY <1>2, <1>4, <2>1 DEF Binds, InPhase, Bindable
  <2> QED
    BY <2>2 DEF BoundBy
<1> QED
  BY <1>3, <1>4

(* From the seventh step on everything that will be bound is. *)
LEMMA BoundByLast ==
    ASSUME TypeOK, NEW i \in 8..14
    PROVE  BoundBy(14) \subseteq BoundBy(i)
<1>1. ASSUME NEW j \in 1..14, j \notin 1..i PROVE Binds(Steps[j]) = {}
  <2>1. j \in 8..14
    BY <1>1
  <2> QED
    BY <2>1, StepsFacts, GetsTypes
<1> QED
  BY <1>1 DEF BoundBy

-----------------------------------------------------------------------------
(* What a class needs                                                      *)

Closed(S) == \A d \in S \cap Classes : design.needs[d] \subseteq S

LEMMA NeededIs ==
    ASSUME NEW c
    PROVE  Needed(c) = {d \in Beans :
               \A S \in SUBSET Beans : c \in S /\ Closed(S) => d \in S}
BY DEF Needed, Closed, Beans

LEMMA NeededSelf == \A c \in Beans : c \in Needed(c)
BY NeededIs

(* What a class needs needs is needed. *)
LEMMA NeededClosed ==
    ASSUME TypeOK, NEW c, NEW d \in Needed(c) \cap Classes
    PROVE  design.needs[d] \subseteq Needed(c)
<1>1. design.needs[d] \subseteq Beans
  BY DEF TypeOK, DesignType, Beans
<1>2. ASSUME NEW e \in design.needs[d], NEW S \in SUBSET Beans, c \in S, Closed(S)
      PROVE  e \in S
  <2>1. d \in S
    BY <1>2, NeededIs
  <2> QED
    BY <1>2, <2>1 DEF Closed
<1> QED
  BY <1>1, <1>2, NeededIs

LEMMA NeededLeast ==
    ASSUME NEW c, NEW S \in SUBSET Beans, c \in S, Closed(S)
    PROVE  Needed(c) \subseteq S
BY NeededIs

(* What is ready has all it needs, built and bound. *)
LEMMA ReadyWhole ==
    ASSUME IInv, NEW c \in Classes, made[c] > 0
    PROVE  /\ Needed(c) \subseteq bound
           /\ Needed(c) \cap design.singletons \subseteq active
<1> DEFINE S == {d \in Beans : Ready(d)}
<1>1. c \in S /\ Closed(S)
  <2>1. c \in S
    BY DEF IInv, Built, Ready, Beans
  <2>2. ASSUME NEW d \in S \cap Classes PROVE design.needs[d] \subseteq S
    <3>1. d # Given /\ made[d] > 0
      BY DesignsAssumption DEF Ready
    <3>2. design.needs[d] \subseteq Beans
      BY DEF IInv, TypeOK, DesignType, Beans
    <3> QED
      BY <3>1, <3>2 DEF IInv, Built
  <2> QED
    BY <2>1, <2>2 DEF Closed
<1>2. Needed(c) \subseteq S
  BY <1>1, NeededLeast
<1>3. design.singletons \subseteq Classes
  BY DEF IInv, TypeOK, DesignType
<1>4. ASSUME NEW d \in Needed(c) \cap design.singletons PROVE d \in active
  BY <1>2, <1>3, DesignsAssumption DEF IInv, Built, Ready
<1> QED
  BY <1>2, <1>4 DEF Ready

-----------------------------------------------------------------------------
(* The inductive invariant                                                 *)

LEMMA InitIInv == Init => IInv
<1> SUFFICES ASSUME Init PROVE IInv
  OBVIOUS
<1>1. TypeOK
  BY DesignsAssumption DEF Init, TypeOK
<1>2. Built
  <2>1. design.singletons \subseteq Classes
    BY <1>1 DEF TypeOK, DesignType
  <2> QED
    BY <2>1 DEF Init, Built
<1>3. Stack
  BY DEF Init, Stack
<1>4. Loop
  BY BoundByStep DEF Init, Loop
<1>5. Registered
  BY DEF Init, Registered
<1> QED
  BY <1>1, <1>2, <1>3, <1>4, <1>5 DEF IInv

-----------------------------------------------------------------------------
(* What steps have in common                                               *)

\* Nothing is unbound, unbuilt or taken back.
Grows == /\ design' = design /\ bound \subseteq bound' /\ threw \subseteq threw'
         /\ registered \subseteq registered'
         /\ \A c \in Classes : made[c] > 0 => made'[c] > 0

LEMMA Kept ==
    ASSUME Grows
    PROVE  /\ \A d : Ready(d) => Ready(d)'
           /\ \A i, c : Excused(i, c) => Excused(i, c)'
           /\ \A i : \A c \in Classes : Dealt(i, c) => Dealt(i, c)'
<1>1. \A d : Ready(d) => Ready(d)'
  BY DEF Grows, Ready
<1>2. \A i, c : Excused(i, c) => Excused(i, c)'
  BY DesignFixed DEF Grows, Excused
<1>3. ASSUME NEW i, NEW c \in Classes, Dealt(i, c) PROVE Dealt(i, c)'
  BY <1>2, <1>3 DEF Grows, Dealt
<1> QED
  BY <1>1, <1>2, <1>3

(* The frame on top of the stack is one of it. *)
LEMMA TopFrame ==
    ASSUME TypeOK, Stack, stack # <<>>
    PROVE  /\ Len(stack) \in Nat \ {0} /\ Top = stack[Len(stack)]
           /\ \A j \in 1..Len(stack) : stack[j] \in FrameType
           /\ Top.class \in Classes /\ Top.got \subseteq Beans /\ Top.class \in bound
           /\ Top.class \in Needed(stack[1].class)
           /\ stack[1].class \in todo /\ stack[1].class \in Classes
           /\ \A d \in Top.got : Ready(d)
<1>1. Len(stack) \in Nat \ {0} /\ Top = stack[Len(stack)]
  BY DEF TypeOK, Top, Last
<1>2. \A j \in 1..Len(stack) : stack[j] \in FrameType
  BY DEF TypeOK
<1>3. Len(stack) \in 1..Len(stack) /\ 1 \in 1..Len(stack)
  BY <1>1
<1> QED
  BY <1>1, <1>2, <1>3 DEF Stack, FrameType

(* An injection changes what one frame has got, and no class. *)
LEMMA EditShape ==
    ASSUME NEW f \in Seq(FrameType), NEW n \in Nat \ {0}, Len(f) = n,
           NEW d \in Beans, NEW s, s = [f EXCEPT ![n].got = @ \cup {d}]
    PROVE  /\ s \in Seq(FrameType) /\ Len(s) = n
           /\ \A j \in 1..n : /\ s[j].class = f[j].class
                              /\ s[j].got \subseteq f[j].got \cup {d}
<1> DEFINE e == [f[n] EXCEPT !.got = @ \cup {d}]
<1>1. n \in 1..Len(f) /\ 1..n = 1..Len(f)
  OBVIOUS
<1>2. \A j \in 1..n : f[j] \in FrameType
  BY <1>1
<1>3. e \in FrameType /\ e.class = f[n].class /\ e.got = f[n].got \cup {d}
  BY <1>1, <1>2 DEF FrameType
<1>4. s = [f EXCEPT ![n] = e]
  OBVIOUS
<1> HIDE DEF e
<1>5. /\ [f EXCEPT ![n] = e] \in Seq(FrameType)
      /\ Len([f EXCEPT ![n] = e]) = Len(f)
      /\ \A j \in 1..Len(f) : [f EXCEPT ![n] = e][j] = IF j = n THEN e ELSE f[j]
  BY <1>1, <1>3, ExceptSeq
<1>6. s \in Seq(FrameType) /\ Len(s) = n
  BY <1>4, <1>5
<1>7. \A j \in 1..n : s[j] = IF j = n THEN e ELSE f[j]
  BY <1>1, <1>4, <1>5
<1> QED
  BY <1>3, <1>6, <1>7

LEMMA FrontShape ==
    ASSUME NEW n \in Nat, stack \in Seq(FrameType), Len(stack) = n + 1
    PROVE  /\ Front(stack) \in Seq(FrameType) /\ Len(Front(stack)) = n
           /\ \A j \in 1..n : Front(stack)[j] = stack[j]
BY DEF Front

(* An object of the loop's own class is got, one below it is injected. *)
LEMMA ConstructCases ==
    ASSUME TypeOK, Stack, Construct
    PROVE  \/ Len(stack) = 1 /\ Got(Top.class)
           \/ /\ UNCHANGED <<todo, registered>>
              /\ \E n \in Nat \ {0} :
                    /\ Len(stack) = n + 1
                    /\ stack' = [Front(stack) EXCEPT ![n].got = @ \cup {Top.class}]
<1> DEFINE m == Len(stack)
<1>1. m \in Nat \ {0}
  BY TopFrame DEF Construct
<1>2. \/ m = 1 /\ Got(Top.class)
      \/ /\ m > 1 /\ UNCHANGED <<todo, registered>>
         /\ stack' = [Front(stack) EXCEPT ![m - 1].got = @ \cup {Top.class}]
  BY DEF Construct
<1>3. ASSUME m > 1, stack' = [Front(stack) EXCEPT ![m - 1].got = @ \cup {Top.class}]
      PROVE  \E n \in Nat \ {0} :
                /\ Len(stack) = n + 1
                /\ stack' = [Front(stack) EXCEPT ![n].got = @ \cup {Top.class}]
  <2>1. PICK n \in Nat \ {0} : n = m - 1
    BY <1>1, <1>3
  <2>2. Len(stack) = n + 1
    BY <1>1, <2>1
  <2>3. stack' = [Front(stack) EXCEPT ![n].got = @ \cup {Top.class}]
    BY <1>3, <2>1
  <2> QED
    BY <2>2, <2>3
<1> QED
  BY <1>2, <1>3

(* The loop goes on when it has dealt with a class. *)
LEMMA LoopGoesOn ==
    ASSUME IInv, Grows, UNCHANGED <<at, bound>>,
           \/ todo' = todo
           \/ \E c \in todo : todo' = todo \ {c} /\ Dealt(at, c)'
    PROVE  Loop'
<1>1. TypeOK /\ Loop
  BY DEF IInv
<1>2. BoundBy(at)' = BoundBy(at) /\ \A s : Gets(s)' = Gets(s)
  BY DesignFixed DEF Grows, BoundBy, Gets, Binds, InPhase
<1>3. ASSUME NEW i \in 1..at, NEW c \in Gets(Steps[i]), i < at \/ c \notin todo'
      PROVE  Dealt(i, c)'
  <2>1. c \in Classes
    BY <1>1, GetsTypes
  <2>2. CASE i < at \/ c \notin todo
    BY <1>1, <2>1, <2>2, Kept DEF Loop
  <2>3. CASE i = at /\ c \in todo
    BY <1>3, <2>3
  <2> QED
    BY <1>1, <2>2, <2>3 DEF TypeOK
<1> QED
  BY <1>1, <1>2, <1>3 DEF Loop

(* The class that the loop is at belongs to the step. *)
LEMMA AtStep ==
    ASSUME IInv, NEW c \in todo
    PROVE  at \in 1..14 /\ c \in Classes /\ c \in Gets(Steps[at])
BY DEF IInv, TypeOK, Loop

(* A class got is dealt with, and what is registered is right. *)
LEMMA GotKeeps ==
    ASSUME IInv, Grows, UNCHANGED <<at, bound>>, NEW c \in todo, Got(c), made'[c] > 0
    PROVE  Loop' /\ Registered' /\ Stack'
<1>1. at \in 1..14 /\ c \in Classes /\ c \in Gets(Steps[at])
  BY AtStep
<1>2. Steps[at] \in Kinds => <<Steps[at], c>> \in registered'
  BY DEF Got
<1>3. Dealt(at, c)'
  BY <1>2 DEF Dealt
<1>4. Loop'
  BY <1>3, LoopGoesOn DEF Got
<1>5. \A s : Gets(s)' = Gets(s)
  BY DesignFixed DEF Grows
<1>6. ASSUME NEW r \in registered'
      PROVE  \E k \in Kinds : \E d \in Gets(k) : r = <<k, d>> /\ made'[d] > 0
  <2>1. CASE r \in registered
    <3>0. PICK k \in Kinds : \E d \in Gets(k) : r = <<k, d>> /\ made[d] > 0
      BY <2>1 DEF IInv, Registered
    <3>1. PICK d \in Gets(k) : r = <<k, d>> /\ made[d] > 0
      BY <3>0
    <3>2. d \in Classes
      BY GetsTypes DEF IInv
    <3> QED
      BY <3>1, <3>2 DEF Grows
  <2>2. CASE Steps[at] \in Kinds /\ r = <<Steps[at], c>>
    BY <1>1, <2>2
  <2> QED
    BY <1>6, <2>1, <2>2 DEF Got
<1>7. Registered'
  BY <1>5, <1>6 DEF Registered
<1>8. Stack'
  BY DEF Got, Stack
<1> QED
  BY <1>4, <1>7, <1>8

(* A failure empties the stack; the class the loop is at has an excuse. *)
LEMMA CaughtKeeps ==
    ASSUME IInv, Grows, UNCHANGED <<at, bound>>, stack # <<>>, Caught,
           NEW c \in Classes, c = stack[1].class, Excused(at, c)'
    PROVE  Loop' /\ Registered' /\ Stack' /\ Built'
<1>1. c \in todo
  BY DEF IInv, Stack
<1>2. Dealt(at, c)'
  BY DEF Dealt
<1>3. Loop'
  BY <1>1, <1>2, LoopGoesOn DEF Caught
<1>4. Registered'
  BY DesignFixed DEF IInv, Registered, Caught, Grows
<1>5. Built'
  BY Kept DEF IInv, Built, Caught, Grows
<1> QED
  BY <1>3, <1>4, <1>5 DEF Caught, Stack

-----------------------------------------------------------------------------
(* The steps                                                               *)

LEMMA TypeStep == IInv /\ [Next]_vars => TypeOK'
<1> SUFFICES ASSUME IInv, [Next]_vars PROVE TypeOK'
  OBVIOUS
<1>0. TypeOK /\ Stack
  BY DEF IInv
<1>1. CASE Begin
  <2>1. at' \in 0..14
    BY <1>0, <1>1, StepsFacts DEF Begin, TypeOK
  <2>2. Gets(Steps[at']) \subseteq Classes /\ Binds(Steps[at']) \subseteq Beans
    BY <1>0, GetsTypes
  <2> QED
    BY <1>0, <1>1, <2>1, <2>2 DEF Begin, TypeOK
<1>2. ASSUME NEW c \in Classes, GetService(c) PROVE TypeOK'
  <2>1. <<Frame(c)>> \in Seq(FrameType)
    BY DEF Frame, FrameType, Beans
  <2> QED
    BY <1>0, <1>2, <2>1 DEF GetService, GetNull, Got, TypeOK
<1>3. ASSUME NEW d \in Beans, Inject(d) PROVE TypeOK'
  <2>1. CASE Caught
    BY <1>0, <1>3, <2>1 DEF Inject, Caught, TypeOK
  <2>2. CASE Injected(d) /\ UNCHANGED <<todo, active, made, registered>>
    <3>1. stack' \in Seq(FrameType)
      BY <1>0, <1>3, <2>2, TopFrame DEF Inject, Injected, TypeOK, FrameType
    <3> QED
      BY <1>0, <1>3, <2>2, <3>1 DEF Inject, TypeOK
  <2>3. CASE stack' = Append(stack, Frame(d)) /\ d # Given
             /\ UNCHANGED <<todo, active, made, registered>>
    <3>1. Frame(d) \in FrameType
      BY <2>3 DEF Frame, FrameType, Beans
    <3>2. stack' \in Seq(FrameType)
      BY <1>0, <2>3, <3>1 DEF TypeOK
    <3> QED
      BY <1>0, <1>3, <2>3, <3>2 DEF Inject, TypeOK
  <2> QED
    BY <1>3, <2>1, <2>2, <2>3 DEF Inject
<1>4. CASE ConstructorThrows
  BY <1>0, <1>4, TopFrame DEF ConstructorThrows, Caught, TypeOK
<1>5. CASE Construct
  <2>1. made' \in [Classes -> Nat]
    BY <1>0, <1>5, TopFrame DEF Construct, TypeOK
  <2>2. Top.class \in Classes /\ Top.class \in Beans /\ stack \in Seq(FrameType)
    BY <1>0, <1>5, TopFrame DEF Construct, TypeOK, Beans
  <2>3. stack' \in Seq(FrameType) /\ todo' \subseteq Classes
    <3>1. CASE Got(Top.class)
      BY <1>0, <3>1 DEF Got, TypeOK
    <3>2. ASSUME NEW n \in Nat \ {0}, Len(stack) = n + 1, todo' = todo,
                 stack' = [Front(stack) EXCEPT ![n].got = @ \cup {Top.class}]
          PROVE  stack' \in Seq(FrameType) /\ todo' \subseteq Classes
      BY <1>0, <2>2, <3>2, FrontShape, EditShape DEF TypeOK
    <3> QED
      BY <1>0, <1>5, <3>1, <3>2, ConstructCases
  <2> QED
    BY <1>0, <1>5, <2>1, <2>3 DEF Construct, TypeOK
<1>6. CASE UNCHANGED vars
  BY <1>0, <1>6 DEF vars, TypeOK
<1> QED
  BY <1>1, <1>2, <1>3, <1>4, <1>5, <1>6 DEF Next, Running, Beans

(* What is kept when nothing is built or registered. *)
LEMMA BuiltKept ==
    ASSUME IInv, Grows, UNCHANGED <<made, active>>
    PROVE  Built'
BY Kept DEF IInv, Built, Grows

LEMMA RegisteredKept ==
    ASSUME IInv, Grows, UNCHANGED registered
    PROVE  Registered'
<1>1. \A s : Gets(s)' = Gets(s)
  BY DesignFixed DEF Grows
<1>2. ASSUME NEW r \in registered
      PROVE  \E k \in Kinds : \E d \in Gets(k) : r = <<k, d>> /\ made'[d] > 0
  <2>1. PICK k \in Kinds : \E d \in Gets(k) : r = <<k, d>> /\ made[d] > 0
    BY DEF IInv, Registered
  <2>2. PICK d \in Gets(k) : r = <<k, d>> /\ made[d] > 0
    BY <2>1
  <2>3. d \in Classes
    BY GetsTypes DEF IInv
  <2> QED
    BY <2>2, <2>3 DEF Grows
<1> QED
  BY <1>1, <1>2 DEF Registered

(* A stack on the same class, of frames that are needed and ready. *)
LEMMA StackKept ==
    ASSUME IInv, Grows, stack # <<>>, todo' = todo, NEW n \in Nat \ {0}, Len(stack') = n,
           stack'[1].class = stack[1].class,
           \A j \in 1..n : /\ stack'[j].class \in bound'
                           /\ stack'[j].class \in Needed(stack[1].class)
                           /\ \A d \in stack'[j].got : Ready(d)'
    PROVE  Stack'
<1>1. \A c : Needed(c)' = Needed(c)
  BY DesignFixed DEF Grows
<1>2. stack[1].class \in todo
  BY DEF IInv, Stack
<1> QED
  BY <1>1, <1>2 DEF Stack

LEMMA BeginStep == ASSUME IInv, Begin PROVE Built' /\ Stack' /\ Loop' /\ Registered'
<1>1. Grows /\ Built' /\ Registered'
  <2>1. Grows
    BY DEF Begin, Grows
  <2> QED
    BY <2>1, BuiltKept, RegisteredKept DEF Begin
<1>2. Stack'
  BY DEF Begin, Idle, Stack
<1>3. at \in 0..13 /\ bound = BoundBy(at) /\ todo = {}
  BY StepsFacts DEF IInv, TypeOK, Loop, Begin, Idle
<1>4. PICK m \in 1..14 : m = at + 1
  BY <1>3
<1>5. at' = m /\ bound' = bound \cup Binds(Steps[m]) /\ todo' = Gets(Steps[m])
  BY <1>4 DEF Begin
<1>6. BoundBy(m) = BoundBy(at) \cup Binds(Steps[m])
  BY <1>3, <1>4, BoundByStep
<1>7. BoundBy(m)' = BoundBy(m) /\ \A s : Gets(s)' = Gets(s)
  BY <1>1, DesignFixed DEF Grows
<1>8. ASSUME NEW i \in 1..m, NEW c \in Gets(Steps[i]), i < m \/ c \notin todo'
      PROVE  Dealt(i, c)'
  <2>1. i \in 1..at
    BY <1>3, <1>4, <1>5, <1>8
  <2>2. c \in Classes /\ Dealt(i, c)
    BY <1>3, <2>1, GetsTypes DEF IInv, Loop
  <2> QED
    BY <1>1, <2>2, Kept
<1>9. BoundBy(at)' = BoundBy(m)
  BY <1>5, <1>7
<1>10. Loop'
  BY <1>3, <1>5, <1>6, <1>7, <1>8, <1>9 DEF Loop
<1> QED
  BY <1>1, <1>2, <1>10

LEMMA GetServiceStep ==
    ASSUME IInv, NEW c \in Classes, GetService(c)
    PROVE  Built' /\ Stack' /\ Loop' /\ Registered'
<1>1. c \in todo /\ stack = <<>> /\ UNCHANGED <<design, at, bound, active, made, threw>>
  BY DEF GetService
<1>2. CASE GetNull(c)
  <2>1. Grows
    BY <1>1, <1>2 DEF Grows, GetNull
  <2>2. Excused(at, c)
    BY <1>2, NeededSelf DEF IInv, Loop, Excused, GetNull, Beans
  <2>3. Dealt(at, c)'
    BY <2>1, <2>2, Kept, <1>1 DEF Dealt
  <2>4. Loop'
    BY <1>1, <1>2, <2>1, <2>3, LoopGoesOn DEF GetNull
  <2>5. Stack'
    BY <1>1, <1>2 DEF GetNull, Stack
  <2> QED
    BY <1>1, <1>2, <2>1, <2>4, <2>5, BuiltKept, RegisteredKept DEF GetNull
<1>3. CASE c \in active /\ Got(c)
  <2>1. Grows
    BY <1>1, <1>3 DEF Grows, Got
  <2>2. made'[c] > 0
    BY <1>1, <1>3 DEF IInv, Built
  <2> QED
    BY <1>1, <1>3, <2>1, <2>2, BuiltKept, GotKeeps
<1>4. CASE c \in bound \ active /\ stack' = <<Frame(c)>> /\ UNCHANGED <<todo, registered>>
  <2>1. Grows
    BY <1>1, <1>4 DEF Grows
  <2>2. Len(stack') = 1 /\ stack'[1] = Frame(c)
    BY <1>4
  <2>3. c \in Needed(c)' /\ c \in bound'
    BY <1>1, <1>4, <2>1, NeededSelf, DesignFixed DEF Grows, Beans
  <2>4. Stack'
    BY <1>1, <1>4, <2>2, <2>3 DEF Stack, Frame
  <2>5. Loop'
    BY <1>1, <1>4, <2>1, LoopGoesOn
  <2> QED
    BY <1>1, <1>4, <2>1, <2>4, <2>5, BuiltKept, RegisteredKept
<1> QED
  BY <1>2, <1>3, <1>4 DEF GetService

LEMMA InjectStep ==
    ASSUME IInv, NEW d \in Beans, Inject(d)
    PROVE  Built' /\ Stack' /\ Loop' /\ Registered'
<1>0. TypeOK /\ Stack /\ stack # <<>> /\ UNCHANGED <<design, at, bound, threw>>
  BY DEF IInv, Inject
<1>1. PICK n \in Nat \ {0} : n = Len(stack)
  BY <1>0, TopFrame
<1>2. PICK b \in Classes : b = stack[1].class
  BY <1>0, TopFrame
<1>3. d \in Needed(b)
  <2>1. Top.class \in Needed(b) \cap Classes
    BY <1>0, <1>2, TopFrame
  <2> QED
    BY <1>0, <2>1, NeededClosed DEF Inject
<1>4. CASE d \notin bound /\ Caught
  <2>1. Grows
    BY <1>0, <1>4 DEF Caught, Grows
  <2>2. Excused(at, b)
    BY <1>3, <1>4 DEF IInv, Loop, Excused
  <2>3. Excused(at, b)'
    BY <1>0, <2>1, <2>2, Kept
  <2> QED
    BY <1>0, <1>2, <1>4, <2>1, <2>3, CaughtKeeps
<1>5. ASSUME UNCHANGED <<todo, active, made, registered>>, Stack'
      PROVE  Built' /\ Stack' /\ Loop' /\ Registered'
  <2>1. Grows
    BY <1>0, <1>5 DEF Grows
  <2> QED
    BY <1>0, <1>5, <2>1, BuiltKept, RegisteredKept, LoopGoesOn
<1>6. \A j \in 1..n : /\ stack[j].class \in bound /\ stack[j].class \in Needed(b)
                      /\ \A g \in stack[j].got : Ready(g)
  BY <1>0, <1>1, <1>2 DEF Stack
<1>7. ASSUME d \in bound \cap (active \cup {Given}), Injected(d),
             UNCHANGED <<todo, active, made, registered>>
      PROVE  Stack'
  <2>1. Ready(d)
    BY <1>0, <1>7 DEF IInv, TypeOK, DesignType, Built, Ready
  <2>2. stack' = [stack EXCEPT ![n].got = @ \cup {d}]
    BY <1>1, <1>7 DEF Injected
  <2>3. /\ Len(stack') = n
        /\ \A j \in 1..n : /\ stack'[j].class = stack[j].class
                           /\ stack'[j].got \subseteq stack[j].got \cup {d}
    BY <1>0, <1>1, <2>2, EditShape DEF TypeOK
  <2>4. Grows
    BY <1>0, <1>7 DEF Grows
  <2>5. \A g : Ready(g) => Ready(g)'
    BY <2>4, Kept
  <2>6. \A j \in 1..n : /\ stack'[j].class \in bound' /\ stack'[j].class \in Needed(b)
                        /\ \A g \in stack'[j].got : Ready(g)'
    BY <1>0, <1>6, <2>1, <2>3, <2>5
  <2>7. stack'[1].class = stack[1].class
    BY <2>3
  <2> QED
    BY <1>0, <1>2, <1>7, <2>3, <2>4, <2>6, <2>7, StackKept
<1>8. ASSUME d \in bound \ (active \cup {Given}), stack' = Append(stack, Frame(d)),
             UNCHANGED <<todo, active, made, registered>>
      PROVE  Stack'
  <2>1. /\ Len(stack') = n + 1 /\ stack'[n + 1] = Frame(d)
        /\ \A j \in 1..n : stack'[j] = stack[j]
    BY <1>0, <1>1, <1>8 DEF TypeOK
  <2>2. Grows
    BY <1>0, <1>8 DEF Grows
  <2>3. \A g : Ready(g) => Ready(g)'
    BY <2>2, Kept
  <2>4. Frame(d).class = d /\ Frame(d).got = {}
    BY DEF Frame
  <2>5. \A j \in 1..(n + 1) : j \in 1..n \/ j = n + 1
    OBVIOUS
  <2>6. \A j \in 1..(n + 1) :
           /\ stack'[j].class \in bound' /\ stack'[j].class \in Needed(b)
           /\ \A g \in stack'[j].got : Ready(g)'
    BY <1>0, <1>3, <1>6, <1>8, <2>1, <2>3, <2>4, <2>5
  <2>7. stack'[1].class = stack[1].class /\ n + 1 \in Nat \ {0}
    BY <2>1
  <2> QED
    BY <1>0, <1>2, <1>8, <2>1, <2>2, <2>6, <2>7, StackKept
<1> QED
  BY <1>4, <1>5, <1>7, <1>8 DEF Inject

LEMMA ThrowsStep ==
    ASSUME IInv, ConstructorThrows
    PROVE  Built' /\ Stack' /\ Loop' /\ Registered'
<1>0. TypeOK /\ Stack /\ stack # <<>>
  BY DEF IInv, ConstructorThrows
<1>1. PICK b \in Classes : b = stack[1].class /\ Top.class \in Needed(b)
  BY <1>0, TopFrame
<1>2. Grows
  BY DEF ConstructorThrows, Caught, Grows
<1>3. Needed(b)' = Needed(b) /\ Top.class \in threw'
  BY <1>2, DesignFixed DEF Grows, ConstructorThrows
<1>4. Excused(at, b)'
  BY <1>1, <1>3 DEF Excused
<1> QED
  BY <1>0, <1>1, <1>2, <1>4, CaughtKeeps DEF ConstructorThrows

(* What is built had everything it needs. *)
LEMMA ConstructStep ==
    ASSUME IInv, Construct
    PROVE  Built' /\ Stack' /\ Loop' /\ Registered'
<1>0. TypeOK /\ Stack /\ stack # <<>> /\ UNCHANGED <<design, at, bound, threw>>
  BY DEF IInv, Construct
<1>1. PICK c \in Classes : c = Top.class
  BY <1>0, TopFrame
<1>2. c \in bound /\ \A d \in design.needs[c] : Ready(d)
  BY <1>0, <1>1, TopFrame DEF Construct
<1>3. /\ made' = [made EXCEPT ![c] = @ + 1]
      /\ active' = active \cup ({c} \cap design.singletons)
  BY <1>1 DEF Construct
<1>4. /\ made'[c] > 0 /\ \A e \in Classes \ {c} : made'[e] = made[e]
      /\ design.singletons \subseteq Classes
  BY <1>0, <1>3 DEF TypeOK, DesignType
<1>5. registered \subseteq registered'
  BY <1>0, ConstructCases DEF Got
<1>6. Grows
  BY <1>0, <1>4, <1>5 DEF Grows
<1>7. Built'
  <2>1. active' = {e \in design.singletons : made'[e] > 0}
    BY <1>3, <1>4 DEF IInv, Built
  <2>2. ASSUME NEW e \in Classes, made'[e] > 0
        PROVE  e \in bound /\ \A d \in design.needs[e] : Ready(d)'
    <3>1. e = c \/ made[e] > 0
      BY <1>4, <2>2
    <3>2. e \in bound /\ \A d \in design.needs[e] : Ready(d)
      BY <1>2, <3>1 DEF IInv, Built
    <3> QED
      BY <1>6, <3>2, Kept
  <2> QED
    BY <1>0, <2>1, <2>2 DEF Built
<1>8. CASE Len(stack) = 1 /\ Got(Top.class)
  <2>1. c \in todo
    BY <1>0, <1>1, <1>8, TopFrame
  <2> QED
    BY <1>0, <1>1, <1>4, <1>6, <1>7, <1>8, <2>1, GotKeeps
<1>9. ASSUME UNCHANGED <<todo, registered>>, NEW n \in Nat \ {0}, Len(stack) = n + 1,
             stack' = [Front(stack) EXCEPT ![n].got = @ \cup {Top.class}]
      PROVE  Built' /\ Stack' /\ Loop' /\ Registered'
  <2>1. /\ Front(stack) \in Seq(FrameType) /\ Len(Front(stack)) = n
        /\ \A j \in 1..n : Front(stack)[j] = stack[j]
    BY <1>0, <1>9, FrontShape DEF TypeOK
  <2>2. stack' = [Front(stack) EXCEPT ![n].got = @ \cup {c}] /\ c \in Beans
    BY <1>1, <1>9 DEF Beans
  <2>3. /\ Len(stack') = n
        /\ \A j \in 1..n : /\ stack'[j].class = stack[j].class
                           /\ stack'[j].got \subseteq stack[j].got \cup {c}
    BY <2>1, <2>2, EditShape
  <2>4. \A g : Ready(g) => Ready(g)'
    BY <1>6, Kept
  <2>5. Ready(c)'
    BY <1>0, <1>2, <1>4 DEF Ready
  <2>6. 1..n \subseteq 1..Len(stack) /\ 1 \in 1..n
    BY <1>9
  <2>7. \A j \in 1..n : /\ stack'[j].class \in bound'
                        /\ stack'[j].class \in Needed(stack[1].class)
                        /\ \A g \in stack'[j].got : Ready(g)'
    BY <1>0, <2>3, <2>4, <2>5, <2>6 DEF Stack
  <2>8. Stack'
    BY <1>0, <1>6, <1>9, <2>3, <2>6, <2>7, StackKept
  <2> QED
    BY <1>0, <1>6, <1>7, <1>9, <2>8, RegisteredKept, LoopGoesOn
<1> QED
  BY <1>0, <1>8, <1>9, ConstructCases

-----------------------------------------------------------------------------
(* The theorems                                                            *)

LEMMA NextIInv == IInv /\ [Next]_vars => IInv'
<1> SUFFICES ASSUME IInv, [Next]_vars PROVE IInv'
  OBVIOUS
<1>1. TypeOK'
  BY TypeStep
<1>2. ASSUME UNCHANGED vars PROVE Built' /\ Stack' /\ Loop' /\ Registered'
  <2>1. Grows
    BY <1>2 DEF vars, Grows
  <2>2. Stack'
    BY <1>2, <2>1, DesignFixed, Kept DEF IInv, Stack, vars, Grows
  <2> QED
    BY <1>2, <2>1, <2>2, BuiltKept, RegisteredKept, LoopGoesOn DEF vars
<1> QED
  BY <1>1, <1>2, BeginStep, GetServiceStep, InjectStep, ThrowsStep, ConstructStep
  DEF Next, Running, IInv, Beans

(* The stack under construction, what exists and what the loops have done  *)
(* agree, at every step of every start-up.                                 *)
THEOREM Inductive == Spec => []IInv
BY InitIInv, NextIInv, PTL DEF Spec

(* A phase that is over has built each of its classes, or one it needs has *)
(* failed or comes later: AutoConfigBundle.registerService, whatever the   *)
(* order of the classes and whatever they need.                            *)
THEOREM PhaseCompleteTheorem == Spec => []PhaseComplete
<1>1. IInv => PhaseComplete
  <2> SUFFICES ASSUME IInv, NEW i \in 1..at, Steps[i] \in Phases, i < at \/ Idle,
                      NEW c \in Gets(Steps[i])
               PROVE  \/ made[c] > 0
                      \/ Needed(c) \cap threw # {}
                      \/ ~(Needed(c) \subseteq Bindable(i))
    BY DEF PhaseComplete
  <2>1. Dealt(i, c)
    BY DEF IInv, TypeOK, Loop, Idle
  <2>2. BoundBy(i) = Bindable(i)
    BY BoundByBindable DEF IInv, TypeOK
  <2> QED
    BY <2>1, <2>2 DEF Dealt, Excused
<1> QED
  BY <1>1, Inductive, PTL

(* What Dropwizard is given is whole: everything it needs, directly or     *)
(* not, was bound, and the singletons among that exist.                    *)
THEOREM RegisteredWholeTheorem == Spec => []RegisteredWhole
<1>1. IInv => RegisteredWhole
  <2> SUFFICES ASSUME IInv, NEW r \in registered, NEW k \in Kinds, NEW c \in Gets(k),
                      r = <<k, c>>, made[c] > 0
               PROVE  /\ made[c] > 0 /\ Needed(c) \subseteq bound
                      /\ Needed(c) \cap design.singletons \subseteq active
                      /\ k # "Path" => design.phase[c] = "Service"
    BY DEF IInv, Registered, RegisteredWhole
  <2>1. c \in Classes
    BY GetsTypes DEF IInv
  <2>2. k # "Path" => design.phase[c] = "Service"
    BY StepsFacts DEF Gets
  <2> QED
    BY <2>1, <2>2, ReadyWhole
<1> QED
  BY <1>1, Inductive, PTL

(* Once the application has started, a component that was left out failed, *)
(* needs what failed, or needs what is never bound: the loops of           *)
(* registerLifecycle, registerProviders and the others try each of theirs. *)
THEOREM LeftOutForAReasonTheorem == Spec => []LeftOutForAReason
<1>1. IInv => LeftOutForAReason
  <2> SUFFICES ASSUME IInv, Started, NEW k \in Kinds, NEW c \in Gets(k)
               PROVE  \/ <<k, c>> \in registered
                      \/ Needed(c) \cap threw # {}
                      \/ ~(Needed(c) \subseteq Bindable(Len(Steps)))
    BY Zenon DEF LeftOutForAReason
  <2>1. PICK i \in 8..14 : Steps[i] = k
    BY StepsFacts
  <2>2. at = 14 /\ todo = {}
    BY StepsFacts DEF Started, Idle
  <2>3. Dealt(i, c)
    BY <2>1, <2>2 DEF IInv, Loop
  <2>4. BoundBy(i) \subseteq BoundBy(14)
    BY <2>1 DEF BoundBy
  <2>5. BoundBy(14) \subseteq BoundBy(i)
    BY BoundByLast DEF IInv
  <2>6. BoundBy(14) = Bindable(Len(Steps))
    BY BoundByBindable, StepsFacts DEF IInv
  <2> QED
    BY <2>1, <2>3, <2>4, <2>5, <2>6, StepsFacts DEF Dealt, Excused
<1> QED
  BY <1>1, Inductive, PTL

(* Registration misses nothing and takes nothing unfinished. *)
THEOREM RegisteredOrExcusedTheorem == Spec => []RegisteredOrExcused
  BY RegisteredWholeTheorem, LeftOutForAReasonTheorem, PTL DEF RegisteredOrExcused

-----------------------------------------------------------------------------
(* A singleton is built once                                               *)

\* A class is under construction for one below it in the stack, which needs it.
Descends == \A i, j \in 1..Len(stack) : i < j => stack[j].class \in Below(stack[i].class)

\* What exists is under construction again only if it needs itself.
NoneAgain == \A j \in 1..Len(stack) :
                stack[j].class \notin active \/ stack[j].class \in Below(stack[j].class)

OnceInv == Descends /\ NoneAgain /\ SingletonsOnce

LEMMA BelowFixed == ASSUME design' = design PROVE \A c : Below(c)' = Below(c)
BY DesignFixed DEF Below

LEMMA BelowNeeds ==
    ASSUME TypeOK, NEW c, NEW d \in design.needs[c] \cap Classes
    PROVE  d \in Below(c)
BY NeededSelf DEF Below, Beans

LEMMA BelowClosed ==
    ASSUME TypeOK, NEW c, NEW e \in Below(c) \cap Classes,
           NEW d \in design.needs[e]
    PROVE  d \in Below(c)
<1>1. PICK f \in design.needs[c] \cap Classes : e \in Needed(f)
  BY DEF Below
<1>2. d \in Needed(f)
  BY <1>1, NeededClosed
<1> QED
  BY <1>2 DEF Below

LEMMA InitOnce == Init => OnceInv
<1> SUFFICES ASSUME Init PROVE OnceInv
  OBVIOUS
<1>1. Len(stack) = 0 /\ \A c \in Classes : made[c] = 0
  BY DEF Init
<1>2. design.singletons \subseteq Classes
  BY DesignsAssumption DEF Init, DesignType
<1> QED
  BY <1>1, <1>2 DEF OnceInv, Descends, NoneAgain, SingletonsOnce

(* A stack of classes that were there, or that is empty, is in order. *)
LEMMA ShorterStack ==
    ASSUME OnceInv, design' = design, active' = active,
           NEW n \in Nat, n <= Len(stack), Len(stack) \in Nat, Len(stack') = n,
           \A j \in 1..n : stack'[j].class = stack[j].class
    PROVE  Descends' /\ NoneAgain'
<1>1. 1..n \subseteq 1..Len(stack)
  OBVIOUS
<1>2. \A c : Below(c)' = Below(c)
  BY BelowFixed
<1>3. Descends'
  BY <1>1, <1>2 DEF OnceInv, Descends
<1>4. NoneAgain'
  BY <1>1, <1>2 DEF OnceInv, NoneAgain
<1> QED
  BY <1>3, <1>4

(* An empty stack is in order, one with a single new class too. *)
LEMMA EmptyStack ==
    ASSUME stack' = <<>> PROVE Descends' /\ NoneAgain'
<1>1. Len(stack') = 0
  OBVIOUS
<1> QED
  BY <1>1 DEF Descends, NoneAgain

LEMMA OnceKept ==
    ASSUME OnceInv, design' = design, made' = made
    PROVE  SingletonsOnce'
BY BelowFixed DEF OnceInv, SingletonsOnce

LEMMA OnceGetService ==
    ASSUME IInv, OnceInv, NEW c \in Classes, GetService(c)
    PROVE  OnceInv'
<1>1. stack = <<>> /\ UNCHANGED <<design, active, made>>
  BY DEF GetService
<1>2. SingletonsOnce'
  BY <1>1, OnceKept
<1>3. CASE stack' = <<>>
  BY <1>2, <1>3, EmptyStack DEF OnceInv
<1>4. CASE c \in bound \ active /\ stack' = <<Frame(c)>>
  <2>1. Len(stack') = 1 /\ stack'[1].class = c
    BY <1>4 DEF Frame
  <2>2. \A i \in 1..1 : i = 1
    OBVIOUS
  <2>3. NoneAgain'
    BY <1>1, <1>4, <2>1, <2>2 DEF NoneAgain
  <2>4. Descends'
    BY <2>1, <2>2 DEF Descends
  <2> QED
    BY <1>2, <2>3, <2>4 DEF OnceInv
<1> QED
  BY <1>1, <1>3, <1>4 DEF GetService, GetNull, Got

LEMMA OnceInject ==
    ASSUME IInv, OnceInv, NEW d \in Beans, Inject(d)
    PROVE  OnceInv'
<1>0. TypeOK /\ Stack /\ stack # <<>> /\ design' = design
  BY DEF IInv, Inject
<1>1. PICK n \in Nat \ {0} : n = Len(stack)
  BY <1>0, TopFrame
<1>2. made' = made /\ active' = active
  BY DEF Inject, Caught
<1>3. SingletonsOnce'
  BY <1>0, <1>2, OnceKept
<1>4. CASE Caught
  BY <1>3, <1>4, EmptyStack DEF Caught, OnceInv
<1>5. CASE Injected(d)
  <2>1. stack' = [stack EXCEPT ![n].got = @ \cup {d}]
    BY <1>1, <1>5 DEF Injected
  <2>2. Len(stack') = n /\ \A j \in 1..n : stack'[j].class = stack[j].class
    BY <1>0, <1>1, <2>1, EditShape DEF TypeOK
  <2>3. Descends' /\ NoneAgain'
    BY <1>0, <1>1, <1>2, <2>2, ShorterStack
  <2> QED
    BY <1>3, <2>3 DEF OnceInv
<1>6. CASE d \in bound \ (active \cup {Given}) /\ stack' = Append(stack, Frame(d))
  <2>1. /\ Len(stack') = n + 1 /\ stack'[n + 1] = Frame(d)
        /\ \A j \in 1..n : stack'[j] = stack[j]
    BY <1>0, <1>1, <1>6 DEF TypeOK
  <2>2. d \in Classes /\ d \notin active /\ Frame(d).class = d
    BY <1>6 DEF Beans, Frame
  <2>3. \A c : Below(c)' = Below(c)
    BY <1>0, BelowFixed
  <2>4. n \in 1..n /\ stack[n].class = Top.class /\ Top.class \in Classes
        /\ d \in design.needs[Top.class]
    BY <1>0, <1>1, TopFrame DEF Inject
  <2>5. ASSUME NEW i \in 1..n PROVE d \in Below(stack[i].class)
    <3>1. CASE i = n
      BY <1>0, <2>2, <2>4, <3>1, BelowNeeds
    <3>2. CASE i < n
      <4>1. Top.class \in Below(stack[i].class) \cap Classes
        BY <1>1, <2>4, <3>2 DEF OnceInv, Descends
      <4> QED
        BY <1>0, <2>4, <4>1, BelowClosed
    <3> QED
      BY <3>1, <3>2
  <2>6. \A j \in 1..(n + 1) : j \in 1..n \/ j = n + 1
    OBVIOUS
  <2>7. ASSUME NEW i \in 1..(n + 1), NEW j \in 1..(n + 1), i < j
        PROVE  stack'[j].class \in Below(stack'[i].class)
    <3>1. i \in 1..n
      BY <2>7
    <3>2. CASE j \in 1..n
      BY <1>1, <2>1, <2>7, <3>1, <3>2 DEF OnceInv, Descends
    <3>3. CASE j = n + 1
      BY <2>1, <2>2, <2>5, <3>1, <3>3
    <3> QED
      BY <2>6, <3>2, <3>3
  <2>8. Descends'
    BY <2>1, <2>3, <2>7 DEF Descends
  <2>9. ASSUME NEW j \in 1..(n + 1)
        PROVE  stack'[j].class \notin active \/ stack'[j].class \in Below(stack'[j].class)
    BY <1>1, <2>1, <2>2, <2>6 DEF OnceInv, NoneAgain
  <2>10. NoneAgain'
    BY <1>2, <2>1, <2>3, <2>9 DEF NoneAgain
  <2> QED
    BY <1>3, <2>8, <2>10 DEF OnceInv
<1> QED
  BY <1>4, <1>5, <1>6 DEF Inject

(* What is built did not exist, or needs itself. *)
LEMMA OnceConstruct ==
    ASSUME IInv, OnceInv, Construct
    PROVE  OnceInv'
<1>0. TypeOK /\ Stack /\ Built /\ stack # <<>> /\ design' = design
  BY DEF IInv, Construct
<1>1. PICK n \in Nat \ {0} : n = Len(stack)
  BY <1>0, TopFrame
<1>2. PICK c \in Classes : c = Top.class /\ c = stack[n].class
  BY <1>0, <1>1, TopFrame
<1>3. /\ made' = [made EXCEPT ![c] = @ + 1]
      /\ active' = active \cup ({c} \cap design.singletons)
  BY <1>2 DEF Construct
<1>4. \A e : Below(e)' = Below(e)
  BY <1>0, BelowFixed
<1>5. n \in 1..n /\ 1..n = 1..Len(stack)
  BY <1>1
<1>6. c \notin active \/ c \in Below(c)
  BY <1>1, <1>2, <1>5 DEF OnceInv, NoneAgain
<1>7. ASSUME NEW e \in design.singletons PROVE made'[e] <= 1 \/ e \in Below(e)
  <2>1. e \in Classes
    BY <1>0, <1>7 DEF TypeOK, DesignType
  <2>2. CASE e # c
    <3>1. made'[e] = made[e]
      BY <1>0, <1>3, <2>1, <2>2 DEF TypeOK
    <3> QED
      BY <3>1 DEF OnceInv, SingletonsOnce
  <2>3. CASE e = c /\ c \notin active
    <3>1. made[c] = 0
      BY <1>0, <1>7, <2>3 DEF Built, TypeOK
    <3>2. made'[c] = 1
      BY <1>0, <1>3, <3>1 DEF TypeOK
    <3> QED
      BY <2>3, <3>2
  <2> QED
    BY <1>6, <2>2, <2>3
<1>8. SingletonsOnce'
  BY <1>0, <1>4, <1>7 DEF SingletonsOnce
<1>9. CASE Got(Top.class)
  BY <1>8, <1>9, EmptyStack DEF Got, OnceInv
<1>10. ASSUME NEW k \in Nat \ {0}, Len(stack) = k + 1,
              stack' = [Front(stack) EXCEPT ![k].got = @ \cup {Top.class}]
       PROVE  OnceInv'
  <2>1. /\ Front(stack) \in Seq(FrameType) /\ Len(Front(stack)) = k
        /\ \A j \in 1..k : Front(stack)[j] = stack[j]
    BY <1>0, <1>10, FrontShape DEF TypeOK
  <2>2. stack' = [Front(stack) EXCEPT ![k].got = @ \cup {c}] /\ c \in Beans
    BY <1>2, <1>10 DEF Beans
  <2>3. Len(stack') = k /\ \A j \in 1..k : stack'[j].class = stack[j].class
    BY <2>1, <2>2, EditShape
  <2>4. 1..k \subseteq 1..Len(stack) /\ \A j \in 1..k : j < n
    BY <1>1, <1>10
  <2>5. Descends'
    BY <1>4, <2>3, <2>4 DEF OnceInv, Descends
  <2>6. ASSUME NEW j \in 1..k
        PROVE  stack[j].class \notin active' \/ stack[j].class \in Below(stack[j].class)
    <3>1. CASE stack[j].class = c
      BY <1>1, <1>2, <1>5, <2>4, <3>1 DEF OnceInv, Descends
    <3>2. CASE stack[j].class # c
      BY <1>3, <2>4, <3>2 DEF OnceInv, NoneAgain
    <3> QED
      BY <3>1, <3>2
  <2>7. NoneAgain'
    BY <1>4, <2>3, <2>6 DEF NoneAgain
  <2> QED
    BY <1>8, <2>5, <2>7 DEF OnceInv
<1> QED
  BY <1>0, <1>9, <1>10, ConstructCases

LEMMA OnceStep == IInv /\ OnceInv /\ [Next]_vars => OnceInv'
<1> SUFFICES ASSUME IInv, OnceInv, [Next]_vars PROVE OnceInv'
  OBVIOUS
<1>1. CASE Begin
  <2>1. stack' = <<>> /\ UNCHANGED <<design, made>>
    BY <1>1 DEF Begin, Idle
  <2> QED
    BY <2>1, EmptyStack, OnceKept DEF OnceInv
<1>2. CASE ConstructorThrows
  <2>1. stack' = <<>> /\ UNCHANGED <<design, made>>
    BY <1>2 DEF ConstructorThrows, Caught
  <2> QED
    BY <2>1, EmptyStack, OnceKept DEF OnceInv
<1>3. CASE UNCHANGED vars
  <2>1. UNCHANGED <<design, made, active, stack>>
    BY <1>3 DEF vars
  <2> QED
    BY <2>1, BelowFixed DEF OnceInv, Descends, NoneAgain, SingletonsOnce
<1> QED
  BY <1>1, <1>2, <1>3, OnceGetService, OnceInject, OnceConstruct DEF Next, Running, Beans

(* A singleton that does not need itself is built once, whoever asks the   *)
(* locator for it (registerService, registerServices, registerResources):  *)
(* what is registered is the object that the others were given.            *)
THEOREM SingletonsOnceTheorem == Spec => []SingletonsOnce
<1>1. OnceInv => SingletonsOnce
  BY DEF OnceInv
<1> QED
  BY <1>1, InitOnce, OnceStep, Inductive, PTL DEF Spec
=============================================================================
