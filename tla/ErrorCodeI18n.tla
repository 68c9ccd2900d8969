--------------------------- MODULE ErrorCodeI18n ----------------------------
(***************************************************************************)
(* The error texts (baseservice-i18n, DefaultErrorCodeI18n.java): threads  *)
(* that meet in the lazily built singleton, its construction from the      *)
(* *-errorcode-*.json files of the class path, and what a caller gets out  *)
(* of an item: a label, and the canonical form that carries code, level    *)
(* and all labels to where a locale is known (ErrorCodeI18n.java).         *)
(***************************************************************************)
EXTENDS Locales, Sequences, FiniteSets

CONSTANTS
    Threads,
    ClassPaths,   \* sets of files
    Calls         \* [code, locale] a caller may ask for

NotANumber == -99      \* a code that is no integer
BadLocale  == Empty    \* a file name whose locale is empty or has three parts

Levels == {"ERROR", "INFO", "WARN", "other", "absent"}

FileType == [path : Nat, state : {"readable", "unreadable", "missing", "plain"},
             locale : LocaleType,
             errcodes : Seq([code : Int, level : Levels, label : STRING])]

ASSUME ClassPathsAssumption ==
    \A files \in ClassPaths : \A f, g \in files :
        f \in FileType /\ (f.path = g.path => f = g)

ASSUME CallsAssumption == Calls \subseteq [code : Int, locale : LocaleType]

ASSUME ThreadsAssumption == "free" \notin Threads

VARIABLES
    files,       \* what is on the class path
    call,        \* what each thread asks for
    pc,          \* where each thread is
    lock,        \* holder of the lock, or "free"
    singleton,   \* "null" or "made"
    toLoad,      \* files the constructor still has to read, in any order
    loading,     \* errorItems inside the constructor
    errorItems,  \* the field of the singleton; broken: null
    view,        \* what each thread sees of it: "none", "null" or "items"
    answer,      \* what each thread got
    inits,       \* history: constructions
    racing       \* history: threads that read the singleton without the lock

shared == <<singleton, toLoad, loading, errorItems, inits>>
vars   == <<files, call, pc, lock, shared, view, answer, racing>>

Items(items) == [broken |-> FALSE, items |-> items]
NoItems  == Items([c \in {} |-> 0])
Broken   == [broken |-> TRUE, items |-> [c \in {} |-> 0]]
NoAnswer == [found |-> "none"]

Init ==
    /\ files \in ClassPaths
    /\ call \in [Threads -> Calls]
    /\ pc = [t \in Threads |-> "call"]
    /\ lock = "free" /\ singleton = "null"
    /\ toLoad = {} /\ loading = NoItems /\ errorItems = Broken
    /\ view = [t \in Threads |-> "none"]
    /\ answer = [t \in Threads |-> NoAnswer]
    /\ inits = 0 /\ racing = {}

Goto(t, l) == pc' = [pc EXCEPT ![t] = l]

Visible == IF errorItems.broken THEN "null" ELSE "items"

-----------------------------------------------------------------------------
(* init                                                                    *)

LevelToInt(level) == CASE level = "ERROR" -> 0 [] level = "INFO" -> 1
                      [] level = "WARN" -> 2 [] OTHER -> -1

\* Seeded fault: a later file's labels replace those of the other locales.
AddEntryReplacing(loaded, locale, e) ==
    LET items == loaded.items
        item  == [level |-> LevelToInt(e.level), labels |-> [l \in {locale} |-> e.label]]
    IN IF loaded.broken \/ e.code = NotANumber \/ (e.code \notin DOMAIN items /\ e.level = "absent")
       THEN Broken
       ELSE Items([c \in DOMAIN items \cup {e.code} |-> IF c = e.code THEN item ELSE items[c]])

(* The first file that has a code decides on its level; a file that only   *)
(* adds a label needs none.                                                *)
AddEntry(loaded, locale, e) ==
    LET items == loaded.items
        old   == IF e.code \in DOMAIN items THEN items[e.code]
                 ELSE [level |-> LevelToInt(e.level), labels |-> [l \in {} |-> ""]]
        item  == [level  |-> old.level,
                  labels |-> [l \in DOMAIN old.labels \cup {locale} |->
                                IF l = locale THEN e.label ELSE old.labels[l]]]
    IN IF loaded.broken \/ e.code = NotANumber \/ (e.code \notin DOMAIN items /\ e.level = "absent")
       THEN Broken
       ELSE Items([c \in DOMAIN items \cup {e.code} |-> IF c = e.code THEN item ELSE items[c]])

Skipped(f) == f.state \in {"unreadable", "plain"} \/ f.locale = BadLocale

\* Only an IOException is caught file by file.
Load(loaded, f) ==
    IF f.state = "missing" THEN Broken
    ELSE IF Skipped(f) THEN loaded
    ELSE LET read[i \in 0..Len(f.errcodes)] ==
               IF i = 0 THEN loaded ELSE AddEntry(read[i - 1], f.locale, f.errcodes[i])
         IN read[Len(f.errcodes)]

LoadFile(t) ==
    /\ pc[t] = "init" /\ ~loading.broken
    /\ \E f \in toLoad : toLoad' = toLoad \ {f} /\ loading' = Load(loading, f)
    /\ UNCHANGED <<files, call, pc, lock, singleton, errorItems, view, answer, inits, racing>>

\* Seeded fault: the files are read by others while the constructor goes on.
EndInitEarly(t) ==
    /\ pc[t] = "init" /\ errorItems' = loading /\ Goto(t, "publish")
    /\ UNCHANGED <<files, call, lock, singleton, toLoad, loading, view, answer, inits, racing>>

\* The constructor catches what init throws and leaves errorItems null.
EndInit(t) ==
    /\ pc[t] = "init" /\ (loading.broken \/ toLoad = {})
    /\ errorItems' = loading /\ Goto(t, "publish")
    /\ UNCHANGED <<files, call, lock, singleton, toLoad, loading, view, answer, inits, racing>>

-----------------------------------------------------------------------------
(* getInstance                                                             *)

(* The first test is without the lock: a thread that finds the singleton   *)
(* made may not see the fields its constructor wrote.                      *)
FirstTest(t) ==
    /\ pc[t] = "call"
    /\ \/ /\ singleton = "null" /\ Goto(t, "lock")
          /\ UNCHANGED <<view, racing>>
       \/ /\ singleton = "made" /\ Goto(t, "have")
          /\ \E v \in {Visible, "null"} : view' = [view EXCEPT ![t] = v]
          /\ racing' = racing \cup {t}
    /\ UNCHANGED <<files, call, lock, shared, answer>>

Lock(t) ==
    /\ pc[t] = "lock" /\ lock = "free"
    /\ lock' = t /\ Goto(t, "secondTest")
    /\ UNCHANGED <<files, call, shared, view, answer, racing>>

\* Seeded fault: the test is not repeated under the lock.
SecondTestMissing(t) ==
    /\ pc[t] = "secondTest" /\ Goto(t, "init")
    /\ inits' = inits + 1 /\ toLoad' = files /\ loading' = NoItems
    /\ UNCHANGED <<files, call, lock, singleton, errorItems, view, answer, racing>>

SecondTest(t) ==
    /\ pc[t] = "secondTest"
    /\ \/ /\ singleton = "null" /\ Goto(t, "init")
          /\ inits' = inits + 1 /\ toLoad' = files /\ loading' = NoItems
       \/ /\ singleton = "made" /\ Goto(t, "unlock")
          /\ UNCHANGED <<inits, toLoad, loading>>
    /\ UNCHANGED <<files, call, lock, singleton, errorItems, view, answer, racing>>

Publish(t) ==
    /\ pc[t] = "publish" /\ Goto(t, "unlock")
    /\ singleton' = "made"
    /\ UNCHANGED <<files, call, lock, toLoad, loading, errorItems, view, answer, inits, racing>>

Unlock(t) ==
    /\ pc[t] = "unlock" /\ Goto(t, "have")
    /\ lock' = "free"
    /\ view' = [view EXCEPT ![t] = Visible]
    /\ UNCHANGED <<files, call, shared, answer, racing>>

-----------------------------------------------------------------------------
(* What a caller does with the item                                        *)

LevelToString(n) == CASE n = 0 -> "ERROR" [] n = 1 -> "INFO" [] n = 2 -> "WARN"
                  [] OTHER -> "absent"

\* getCanonicalLabels: the level is made of the code.
Canonical(code, item) ==
    [errorCode |-> code, level |-> LevelToString(code), errlabels |-> item.labels]

\* getLabel and getLabelFromCanonicalLabels
LabelLocales(labels, l) == IF l = Null THEN {Null} ELSE Transfer(l, DOMAIN labels)

Use(t, item) ==
    LET code == call[t].code
        json == Canonical(code, item)
    IN \E at \in LabelLocales(item.labels, call[t].locale) :
       \E back \in LabelLocales(json.errlabels, call[t].locale) :
         answer' = [answer EXCEPT ![t] =
           [found |-> "item", locale |-> at, level |-> item.level,
            codeBack |-> json.errorCode, localeBack |-> back,
            levelBack |-> LevelToInt(json.level)]]

\* getErrorItem: with errorItems null, a NullPointerException.
GetErrorItem(t) ==
    /\ pc[t] = "have" /\ Goto(t, "done")
    /\ LET code == call[t].code
           Found(what) == answer' = [answer EXCEPT ![t] = [found |-> what]]
       IN \/ view[t] = "null" /\ Found("NullPointerException")
          \/ view[t] = "items" /\ code \notin DOMAIN errorItems.items /\ Found("nothing")
          \/ view[t] = "items" /\ code \in DOMAIN errorItems.items
             /\ Use(t, errorItems.items[code])
    /\ UNCHANGED <<files, call, lock, shared, view, racing>>

Step(t) == \/ FirstTest(t) \/ Lock(t) \/ SecondTest(t) \/ LoadFile(t) \/ EndInit(t)
           \/ Publish(t) \/ Unlock(t) \/ GetErrorItem(t)

AllDone == (\A t \in Threads : pc[t] = "done") /\ UNCHANGED vars

Next == (\E t \in Threads : Step(t)) \/ AllDone

Spec == Init /\ [][Next]_vars

\* Threads run; each takes the lock at most once, so that weak fairness is
\* enough for it.
FairSpec == Spec /\ \A t \in Threads : WF_vars(Step(t))

-----------------------------------------------------------------------------
(* Properties                                                              *)

(* The class path is scanned at most once, whatever threads meet in        *)
(* getInstance and also when the scan failed; nobody is given the          *)
(* singleton before it is complete.                                        *)
BuiltOnce ==
    /\ inits <= 1
    /\ (\E t \in Threads : pc[t] \in {"have", "done"}) =>
           loading = errorItems /\ (toLoad = {} \/ loading.broken)

\* entries the constructor takes from a file
Entries(f) == IF Skipped(f) \/ f.state = "missing" THEN {}
              ELSE {f.errcodes[i] : i \in DOMAIN f.errcodes}

(* A class path that loads is loaded whole, in whatever order its files    *)
(* come: a code has a label in exactly the locales of the files that have  *)
(* it, each a text and a level that one of them gives.                     *)
LoadedWhole ==
    singleton = "made" /\ ~errorItems.broken =>
        LET With(c) == {f \in files : \E e \in Entries(f) : e.code = c}
            items   == errorItems.items
        IN /\ DOMAIN items = UNION {{e.code : e \in Entries(f)} : f \in files}
           /\ \A c \in DOMAIN items :
                LET labels == items[c].labels IN
                /\ DOMAIN labels = {f.locale : f \in With(c)}
                /\ \A l \in DOMAIN labels : \E f \in With(c) : \E e \in Entries(f) :
                     f.locale = l /\ e.code = c /\ e.label = labels[l]
                /\ \E f \in With(c) : \E e \in Entries(f) :
                     e.code = c /\ LevelToInt(e.level) = items[c].level

(* A caller sees an exception only if the class path is broken or it read  *)
(* the singleton without the lock, and "nothing" only of a code no file    *)
(* has.                                                                    *)
FailsForAReason ==
    \A t \in Threads :
        /\ answer[t].found = "NullPointerException" => errorItems.broken \/ t \in racing
        /\ answer[t].found = "nothing" =>
              \A f \in files : \A e \in Entries(f) : e.code # call[t].code

(* A label is in the nearest locale there is, directly and by way of the   *)
(* canonical form, which also keeps the code.                              *)
NearestLabel ==
    \A t \in Threads : answer[t].found = "item" =>
        LET l == call[t].locale
            labels == errorItems.items[call[t].code].labels
            near == IF l = Null THEN {Null} ELSE Nearest(l, DOMAIN labels)
        IN /\ answer[t].locale \in near /\ answer[t].localeBack \in near
           /\ answer[t].codeBack = call[t].code

-----------------------------------------------------------------------------
(* The promise of Singleton.tla, kept by getInstance.                      *)

\* The reference; which of its fields a thread sees is another matter.
object == IF singleton = "made" THEN <<errorItems>> ELSE <<>>

makers == {t \in Threads : pc[t] \in {"init", "publish"}}

held == [t \in Threads |-> IF pc[t] \in {"have", "done"} THEN <<errorItems>> ELSE <<>>]

OneObject == INSTANCE Singleton WITH
               Users <- Threads, NoObject <- <<>>,
               object <- object, makers <- makers, held <- held

\* getInstance implements Singleton: one thread at a time constructs, none once
\* the singleton is there, and every thread is handed the same complete object.
SingletonSpec == OneObject!Spec
=============================================================================
