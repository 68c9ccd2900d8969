----------------------------- MODULE IocBundle ------------------------------
(***************************************************************************)
(* The start-up of an application on the IoC bundle                        *)
(* (dropwizard-ioc-container, bundle/AutoConfigBundle.java): annotated     *)
(* classes are bound and activated phase by phase, then the components     *)
(* among them are handed to Dropwizard.  The locator (HK2, external)       *)
(* builds a class on demand, its dependencies first; what fails in a       *)
(* forEach is logged and the loop goes on with the next class.             *)
(*                                                                         *)
(* One action is a step of the locator: an injection or a constructor.     *)
(***************************************************************************)
EXTENDS Integers, Sequences, FiniteSets, SequencesExt

CONSTANTS
    Classes,   \* the classes Reflections finds
    Designs    \* how they may be annotated

(* The configuration, its parts, the environment and the object mapper.    *)
Given == "given"

(* Seeded fault: resources are registered before the services are bound.   *)
StepsResourcesFirst ==
    <<"PreLoad", "Configuration", "PreBaseService", "BaseService",
      "PostBaseService", "PreServiceLoad", "Path", "Service", "LifeCycle",
      "ServerLifecycleListener", "LifeCycle.Listener", "Task", "HealthCheck",
      "Provider">>

\* initialize is the first step, run the others.
Steps ==
    <<"PreLoad", "Configuration", "PreBaseService", "BaseService",
      "PostBaseService", "PreServiceLoad", "Service", "LifeCycle",
      "ServerLifecycleListener", "LifeCycle.Listener", "Task", "HealthCheck",
      "Provider", "Path">>

Phases == {"PreLoad", "PreBaseService", "BaseService", "PostBaseService",
           "PreServiceLoad", "Service"}

Kinds == {"LifeCycle", "ServerLifecycleListener", "LifeCycle.Listener",
          "Task", "HealthCheck", "Provider", "Path"}

DesignType ==
    [phase      : [Classes -> Phases \cup {"none"}],
     kinds      : [Classes -> SUBSET Kinds],
     needs      : [Classes -> SUBSET (Classes \cup {Given})],
     lazy       : SUBSET Classes,
     rejected   : SUBSET Classes,   \* the binder cannot make descriptors of them
     singletons : SUBSET Classes]

ASSUME DesignsAssumption == Designs \subseteq DesignType /\ Given \notin Classes

VARIABLES
    design,     \* the application; never changes
    at,         \* steps begun
    todo,       \* classes the step's forEach still has to get, in any order
    stack,      \* classes under construction, the outermost first
    bound,      \* classes the locator knows
    active,     \* singletons that exist
    made,       \* how many objects of each class were built
    threw,      \* history: classes whose constructor failed
    registered  \* what Dropwizard was given: <<kind, class>>

vars == <<design, at, todo, stack, bound, active, made, threw, registered>>

Init == /\ design \in Designs
        /\ at = 0 /\ todo = {} /\ stack = <<>>
        /\ bound = {} /\ active = {}
        /\ made = [c \in Classes |-> 0] /\ threw = {}
        /\ registered = {}

-----------------------------------------------------------------------------
(* The steps                                                               *)

InPhase(s) == {c \in Classes : design.phase[c] = s}

\* Seeded fault: the first class the binder rejects ends its loop.
BindsAllOrNone(s) ==
    IF s = "Configuration" THEN {Given}
    ELSE IF InPhase(s) \cap design.rejected = {} THEN InPhase(s) ELSE {}

(* A phase binds its classes before it activates those that are not lazy.  *)
(* A class that addActiveDescriptor rejects is logged and left unbound.    *)
Binds(s) == IF s = "Configuration" THEN {Given} ELSE InPhase(s) \ design.rejected

\* Seeded fault: a component is registered whatever phase it belongs to.
GetsOfAnyPhase(s) ==
    IF s \in Phases THEN InPhase(s) \ design.lazy
    ELSE {c \in Classes : s \in design.kinds[c]}

(* Components must be services, resources need not be.                     *)
Gets(s) ==
    IF s \in Phases THEN InPhase(s) \ design.lazy
    ELSE {c \in Classes : s \in design.kinds[c]
                          /\ (s = "Path" \/ design.phase[c] = "Service")}

Idle == todo = {} /\ stack = <<>>

Begin == /\ Idle /\ at < Len(Steps) /\ at' = at + 1
         /\ bound' = bound \cup Binds(Steps[at'])
         /\ todo' = Gets(Steps[at'])
         /\ UNCHANGED <<design, stack, active, made, threw, registered>>

(* The outermost object is there: the next class's turn.                   *)
Got(c) == /\ stack' = <<>> /\ todo' = todo \ {c}
          /\ registered' = registered \cup
                 ({Steps[at]} \cap Kinds) \X {c}

(* Seeded fault: one failure ends the forEach.                             *)
CaughtOutside == /\ stack' = <<>> /\ todo' = {}
                 /\ UNCHANGED <<active, made, registered>>

(* Seeded fault: what fails is tried again.                                *)
CaughtRetried == /\ stack' = <<>>
                 /\ UNCHANGED <<todo, active, made, registered>>

\* The exception of an inner object fails the outer ones too.
Caught == /\ stack' = <<>> /\ todo' = todo \ {stack[1].class}
          /\ UNCHANGED <<active, made, registered>>

-----------------------------------------------------------------------------
(* The locator                                                             *)

Frame(c) == [class |-> c, got |-> {}]
Top      == Last(stack)

\* Nothing is known of a resource that is no service, nor of a class that was
\* rejected: getService gives null, and there is no object to register.
GetNull(c) == /\ c \notin bound /\ todo' = todo \ {c}
              /\ UNCHANGED <<stack, registered>>

\* Seeded fault: the loop has its classes created, not looked up.
CreateService(c) ==
    /\ c \in todo /\ stack = <<>>
    /\ \/ GetNull(c)
       \/ c \in bound /\ stack' = <<Frame(c)>> /\ UNCHANGED <<todo, registered>>
    /\ UNCHANGED <<design, at, bound, active, made, threw>>

GetService(c) ==
    /\ c \in todo /\ stack = <<>>
    /\ \/ GetNull(c)
       \/ c \in active /\ Got(c)
       \/ /\ c \in bound \ active
          /\ stack' = <<Frame(c)>> /\ UNCHANGED <<todo, registered>>
    /\ UNCHANGED <<design, at, bound, active, made, threw>>

Injected(d) == stack' = [stack EXCEPT ![Len(stack)].got = @ \cup {d}]

Inject(d) ==
    /\ stack # <<>> /\ d \in design.needs[Top.class] \ Top.got
    /\ \/ d \notin bound /\ Caught
       \/ /\ d \in bound \cap (active \cup {Given}) /\ Injected(d)
          /\ UNCHANGED <<todo, active, made, registered>>
       \/ /\ d \in bound \ (active \cup {Given}) /\ stack' = Append(stack, Frame(d))
          /\ UNCHANGED <<todo, active, made, registered>>
    /\ UNCHANGED <<design, at, bound, threw>>

ConstructorThrows ==
    /\ stack # <<>> /\ Top.got = design.needs[Top.class]
    /\ threw' = threw \cup {Top.class} /\ Caught
    /\ UNCHANGED <<design, at, bound>>

Construct ==
    /\ stack # <<>> /\ Top.got = design.needs[Top.class]
    /\ LET c == Top.class
           n == Len(stack)
       IN /\ made' = [made EXCEPT ![c] = @ + 1]
          /\ active' = active \cup ({c} \cap design.singletons)
          /\ \/ n = 1 /\ Got(c)
             \/ /\ n > 1
                /\ stack' = [Front(stack) EXCEPT ![n - 1].got = @ \cup {c}]
                /\ UNCHANGED <<todo, registered>>
    /\ UNCHANGED <<design, at, bound, threw>>

Started == at = Len(Steps) /\ Idle

Running == Started /\ UNCHANGED vars

Next == \/ Begin
        \/ \E c \in Classes : GetService(c)
        \/ \E d \in Classes \cup {Given} : Inject(d)
        \/ ConstructorThrows \/ Construct
        \/ Running

Spec == Init /\ [][Next]_vars

\* The main thread runs; constructors return or throw.
FairSpec == Spec /\ WF_vars(Next)

-----------------------------------------------------------------------------
(* Properties                                                              *)

\* c and what it needs, directly or not
Needed(c) ==
    LET Closed(S) == \A d \in S \cap Classes : design.needs[d] \subseteq S
    IN {d \in Classes \cup {Given} :
           \A S \in SUBSET (Classes \cup {Given}) : c \in S /\ Closed(S) => d \in S}

\* What c needs, directly or not; c is among it in a circle only.
Below(c) == UNION {Needed(d) : d \in design.needs[c] \cap Classes}

\* What can be there after the i-th step: the classes annotated for a phase up to
\* then, but for rejected ones, and what the application was given.
Bindable(i) ==
    {b \in Classes \cup {Given} : \E j \in 1..i :
        IF b = Given THEN Steps[j] = "Configuration"
        ELSE Steps[j] = design.phase[b] /\ b \notin design.rejected}

(* When a phase is over each of its classes that is not lazy has been      *)
(* built, whatever the order of the loops and whatever else was rejected   *)
(* or failed in them; excused are classes that were rejected themselves or *)
(* need something that was or that later phases bind, or whose             *)
(* constructor, or that of something they need, has failed (ServiceBinder, *)
(* registerService and the javadoc of the annotations: "prior to basic     *)
(* service loading").                                                      *)
PhaseComplete ==
    \A i \in 1..at : Steps[i] \in Phases /\ (i < at \/ Idle) =>
        \A c \in Gets(Steps[i]) :
            \/ made[c] > 0
            \/ Needed(c) \cap threw # {}
            \/ ~(Needed(c) \subseteq Bindable(i))

(* What Dropwizard is given is whole: everything it needs was bound and    *)
(* the singletons among that exist; components other than resources come   *)
(* from the last phase only.                                               *)
RegisteredWhole ==
    \A r \in registered :
        LET c == r[2] IN
        /\ made[c] > 0 /\ Needed(c) \subseteq bound
        /\ Needed(c) \cap design.singletons \subseteq active
        /\ r[1] # "Path" => design.phase[c] = "Service"

(* A started application misses a component only if its constructor or     *)
(* that of something it needs failed, or it or something it needs was      *)
(* rejected by the binder or belongs to no phase: what was too early for   *)
(* its phase gets a second chance on registration.                         *)
LeftOutForAReason ==
    Started =>
        \A k \in Kinds : \A c \in Gets(k) :
            \/ <<k, c>> \in registered
            \/ Needed(c) \cap threw # {}
            \/ ~(Needed(c) \subseteq Bindable(Len(Steps)))

(* The loops of registration (registerLifecycle and those like it) miss    *)
(* nothing and take nothing unfinished.                                    *)
RegisteredOrExcused == RegisteredWhole /\ LeftOutForAReason

(* A singleton is built once, although its phase, the classes that need it *)
(* and each kind it is registered as all ask the locator for it, in any    *)
(* order, and a failure throws away what is under construction: what       *)
(* Dropwizard runs is the object that was injected (getService).           *)
SingletonsOnce ==
    \A c \in design.singletons : made[c] <= 1 \/ c \in Below(c)

(* Start-up ends, whatever fails on the way.                               *)
StartupEnds == <>Started
=============================================================================
