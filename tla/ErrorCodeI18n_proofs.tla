------------------------ MODULE ErrorCodeI18n_proofs ------------------------
(***************************************************************************)
(* The safety invariants of ErrorCodeI18n, for any threads, calls and      *)
(* class paths: files of any number of entries, in any order.              *)
(***************************************************************************)
EXTENDS ErrorCodeI18n, WellFoundedInduction, TLAPS

-----------------------------------------------------------------------------
(* What the constructor has read                                           *)

\* the entries of a file, each with the locale it is in
Posting(f, e) == [locale |-> f.locale, entry |-> e]

Postings(fs) == UNION {{Posting(f, e) : e \in Entries(f)} : f \in fs}

\* The items are what the postings P say, whatever the order they came in.
Whole(items, P) ==
    /\ \A p \in P : /\ p.entry.code \in DOMAIN items
                    /\ p.locale \in DOMAIN items[p.entry.code].labels
    /\ \A c \in DOMAIN items :
          /\ \E p \in P : p.entry.code = c /\ LevelToInt(p.entry.level) = items[c].level
          /\ \A l \in DOMAIN items[c].labels : \E p \in P :
                p.entry.code = c /\ p.locale = l /\ p.entry.label = items[c].labels[l]

\* Nothing more is said of what is broken.
Good(loaded, P) == /\ loaded.broken \in BOOLEAN
                   /\ ~loaded.broken => Whole(loaded.items, P)

LEMMA PostingsHave ==
    ASSUME NEW fs, NEW f \in fs, NEW e \in Entries(f)
    PROVE  \E p \in Postings(fs) : p.locale = f.locale /\ p.entry = e
<1>1. PICK p : p = Posting(f, e)
  OBVIOUS
<1>2. p.locale = f.locale /\ p.entry = e
  BY <1>1 DEF Posting
<1>3. p \in Postings(fs)
  BY <1>1 DEF Postings
<1> QED
  BY <1>2, <1>3

LEMMA NothingRead == Good(NoItems, {})
BY DEF Good, Whole, NoItems, Items

(* One more entry is added to what was read before. *)
LEMMA AddEntryKeeps ==
    ASSUME NEW loaded, NEW P, NEW f, NEW e, Good(loaded, P)
    PROVE  Good(AddEntry(loaded, f.locale, e), P \cup {Posting(f, e)})
<1> DEFINE l     == f.locale
           items == loaded.items
           old   == IF e.code \in DOMAIN items THEN items[e.code]
                    ELSE [level |-> LevelToInt(e.level), labels |-> [k \in {} |-> ""]]
           item  == [level  |-> old.level,
                     labels |-> [k \in DOMAIN old.labels \cup {l} |->
                                   IF k = l THEN e.label ELSE old.labels[k]]]
           new   == [c \in DOMAIN items \cup {e.code} |-> IF c = e.code THEN item ELSE items[c]]
           fails == \/ loaded.broken \/ e.code = NotANumber
                    \/ (e.code \notin DOMAIN items /\ e.level = "absent")
<1>1. AddEntry(loaded, l, e) = IF fails THEN Broken ELSE Items(new)
  BY Zenon DEF AddEntry
<1>2. CASE fails
  <2> HIDE DEF fails, new
  <2> QED
    BY <1>1, <1>2 DEF Good, Broken
<1>3. CASE ~fails
  <2>1. Whole(items, P)
    BY <1>3 DEF Good
  <2>2. PICK q : q = Posting(f, e)
    OBVIOUS
  <2>3. q.locale = l /\ q.entry = e
    BY <2>2 DEF Posting
  <2>4. /\ DOMAIN item.labels = DOMAIN old.labels \cup {l} /\ item.level = old.level
        /\ item.labels[l] = e.label
        /\ \A k \in DOMAIN old.labels : k # l => item.labels[k] = old.labels[k]
    OBVIOUS
  <2>5. /\ DOMAIN new = DOMAIN items \cup {e.code} /\ new[e.code] = item
        /\ \A c \in DOMAIN items : c # e.code => new[c] = items[c]
    OBVIOUS
  <2>6. /\ \E p \in P \cup {q} : p.entry.code = e.code /\ LevelToInt(p.entry.level) = old.level
        /\ \A k \in DOMAIN old.labels : \E p \in P \cup {q} :
              p.entry.code = e.code /\ p.locale = k /\ p.entry.label = old.labels[k]
        /\ \A p \in P : p.entry.code = e.code => p.locale \in DOMAIN old.labels
    <3>1. CASE e.code \in DOMAIN items
      BY <2>1, <3>1 DEF Whole
    <3>2. CASE e.code \notin DOMAIN items
      BY <2>1, <2>3, <3>2 DEF Whole
    <3> QED
      BY <3>1, <3>2
  <2> HIDE DEF item, new, items, old
  <2>7. \A p \in P \cup {q} : /\ p.entry.code \in DOMAIN new
                              /\ p.locale \in DOMAIN new[p.entry.code].labels
    BY <2>1, <2>3, <2>4, <2>5, <2>6 DEF Whole
  <2>8. ASSUME NEW c \in DOMAIN new
        PROVE  /\ \E p \in P \cup {q} :
                     p.entry.code = c /\ LevelToInt(p.entry.level) = new[c].level
               /\ \A k \in DOMAIN new[c].labels : \E p \in P \cup {q} :
                     p.entry.code = c /\ p.locale = k /\ p.entry.label = new[c].labels[k]
    <3>1. CASE c = e.code
      BY <2>3, <2>4, <2>5, <2>6, <3>1
    <3>2. CASE c # e.code
      BY <2>1, <2>5, <3>2 DEF Whole
    <3> QED
      BY <3>1, <3>2
  <2>9. Whole(new, P \cup {q})
    BY <2>7, <2>8 DEF Whole
  <2> QED
    BY <1>1, <1>3, <2>2, <2>9 DEF Good, Items
<1> QED
  BY <1>2, <1>3

-----------------------------------------------------------------------------
(* The loop over the entries of a file                                     *)

(* What holds of 0 and goes on holds of every number: no set of numbers is *)
(* without a least one.                                                    *)
LEMMA Induction ==
    ASSUME NEW T \in SUBSET Nat, 0 \in T, \A n \in T : n + 1 \in T
    PROVE  T = Nat
<1> DEFINE R == {p \in Nat \X Nat : p[1] < p[2]}
           B == Nat \ T
<1>1. IsWellFoundedOn(R, Nat)
  BY NatLessThanWellFounded DEF OpToRel
<1>2. SUFFICES ASSUME B # {} PROVE FALSE
  OBVIOUS
<1> HIDE DEF R
<1>3. PICK x \in B : \A y \in B : ~ (<<y, x>> \in R)
  BY <1>1, <1>2, WFMin
<1>4. x \in Nat /\ x # 0 /\ x - 1 \in Nat /\ (x - 1) + 1 = x
  BY <1>3
<1>5. x - 1 \in B
  BY <1>3, <1>4
<1>6. <<x - 1, x>> \in R
  BY <1>4 DEF R
<1> QED
  BY <1>3, <1>5, <1>6

\* g is what has been loaded before and after each entry of f.
Reading(g, n, loaded, f) ==
    g = [i \in 0..n |-> IF i = 0 THEN loaded ELSE AddEntry(g[i - 1], f.locale, f.errcodes[i])]

LEMMA ReadingExists ==
    ASSUME NEW loaded, NEW f, NEW n \in Nat
    PROVE  \E g : Reading(g, n, loaded, f)
<1> DEFINE T == {m \in Nat : \E g : Reading(g, m, loaded, f)}
<1>1. 0 \in T
  <2> DEFINE g == [i \in 0..0 |-> loaded]
  <2>1. Reading(g, 0, loaded, f)
    BY DEF Reading
  <2> QED
    BY <2>1
<1>2. ASSUME NEW m \in T PROVE m + 1 \in T
  <2>1. PICK g : Reading(g, m, loaded, f)
    OBVIOUS
  <2> DEFINE h == [i \in 0..(m + 1) |->
                     IF i = m + 1 THEN AddEntry(g[m], f.locale, f.errcodes[m + 1]) ELSE g[i]]
  <2>2. ASSUME NEW i \in 0..(m + 1)
        PROVE  h[i] = IF i = 0 THEN loaded ELSE AddEntry(h[i - 1], f.locale, f.errcodes[i])
    <3>1. CASE i = m + 1
      <4>1. h[i] = AddEntry(g[m], f.locale, f.errcodes[m + 1]) /\ h[m] = g[m] /\ i # 0 /\ i - 1 = m
        BY <3>1
      <4> QED
        BY <3>1, <4>1
    <3>2. CASE i \in 0..m
      <4>1. h[i] = g[i] /\ (i # 0 => h[i - 1] = g[i - 1])
        BY <3>2
      <4>2. g[i] = IF i = 0 THEN loaded ELSE AddEntry(g[i - 1], f.locale, f.errcodes[i])
        BY <2>1, <3>2 DEF Reading
      <4> QED
        BY <4>1, <4>2
    <3> QED
      BY <3>1, <3>2
  <2>3. h = [i \in 0..(m + 1) |-> h[i]]
    OBVIOUS
  <2> HIDE DEF h
  <2>4. Reading(h, m + 1, loaded, f)
    BY <2>2, <2>3 DEF Reading
  <2> QED
    BY <2>4
<1> HIDE DEF T
<1>3. T = Nat
  BY <1>1, <1>2, Induction DEF T
<1> QED
  BY <1>3 DEF T

(* What is read of the file is added to what was read of others. *)
LEMMA ReadingKeeps ==
    ASSUME NEW f, NEW P, NEW loaded, NEW n \in Nat, NEW g, Reading(g, n, loaded, f),
           Good(loaded, P)
    PROVE  Good(g[n], P \cup {Posting(f, f.errcodes[j]) : j \in 1..n})
<1> DEFINE Before(m) == P \cup {Posting(f, f.errcodes[j]) : j \in 1..m}
           T == {m \in Nat : m <= n => Good(g[m], Before(m))}
<1>1. 0 \in T
  <2>1. Before(0) = P /\ 0 \in 0..n
    OBVIOUS
  <2>2. g[0] = loaded
    BY <2>1 DEF Reading
  <2> HIDE DEF Before
  <2> QED
    BY <2>1, <2>2
<1>2. ASSUME NEW m \in T PROVE m + 1 \in T
  <2>1. SUFFICES ASSUME m + 1 <= n PROVE Good(g[m + 1], Before(m + 1))
    OBVIOUS
  <2>2. /\ m + 1 \in 0..n /\ m + 1 # 0 /\ (m + 1) - 1 = m
        /\ 1..(m + 1) = (1..m) \cup {m + 1}
    BY <2>1
  <2>3. g[m + 1] = AddEntry(g[m], f.locale, f.errcodes[m + 1])
    BY <2>2 DEF Reading
  <2>4. Before(m + 1) = Before(m) \cup {Posting(f, f.errcodes[m + 1])}
    BY <2>2
  <2>5. Good(g[m], Before(m))
    BY <2>1
  <2> HIDE DEF Before
  <2> QED
    BY <2>3, <2>4, <2>5, AddEntryKeeps
<1> HIDE DEF T
<1>3. n \in T
  BY <1>1, <1>2, Induction DEF T
<1> QED
  BY <1>3 DEF T

LEMMA LoadIsReading ==
    ASSUME NEW f, NEW loaded, Len(f.errcodes) \in Nat, f.state # "missing", ~Skipped(f)
    PROVE  \E g : /\ Reading(g, Len(f.errcodes), loaded, f)
                  /\ Load(loaded, f) = g[Len(f.errcodes)]
<1> DEFINE g == CHOOSE read : read = [i \in 0..Len(f.errcodes) |->
                    IF i = 0 THEN loaded ELSE AddEntry(read[i - 1], f.locale, f.errcodes[i])]
<1>1. Reading(g, Len(f.errcodes), loaded, f)
  BY ReadingExists DEF Reading
<1>2. Load(loaded, f) = g[Len(f.errcodes)]
  BY DEF Load
<1> HIDE DEF g
<1> QED
  BY <1>1, <1>2

(* One more file is added to the files read before. *)
LEMMA LoadKeeps ==
    ASSUME NEW f \in FileType, NEW fs, NEW loaded, Good(loaded, Postings(fs))
    PROVE  Good(Load(loaded, f), Postings(fs \cup {f}))
<1>1. Postings(fs \cup {f}) = Postings(fs) \cup {Posting(f, e) : e \in Entries(f)}
  BY DEF Postings
<1>2. f.errcodes \in Seq([code : Int, level : Levels, label : STRING])
  BY DEF FileType
<1>3. Len(f.errcodes) \in Nat /\ DOMAIN f.errcodes = 1..Len(f.errcodes)
  BY <1>2
<1>4. CASE f.state = "missing"
  BY <1>4 DEF Load, Good, Broken
<1>5. CASE f.state # "missing" /\ Skipped(f)
  <2>1. Entries(f) = {}
    BY <1>5 DEF Entries
  <2>2. Postings(fs \cup {f}) = Postings(fs)
    BY <1>1, <2>1
  <2> QED
    BY <1>5, <2>2 DEF Load
<1>6. CASE f.state # "missing" /\ ~Skipped(f)
  <2>1. PICK g : /\ Reading(g, Len(f.errcodes), loaded, f)
                 /\ Load(loaded, f) = g[Len(f.errcodes)]
    BY <1>3, <1>6, LoadIsReading
  <2>2. Entries(f) = {f.errcodes[j] : j \in 1..Len(f.errcodes)}
    BY <1>3, <1>6 DEF Entries
  <2>3. {Posting(f, e) : e \in Entries(f)} = {Posting(f, f.errcodes[j]) : j \in 1..Len(f.errcodes)}
    BY <2>2
  <2>4. Good(g[Len(f.errcodes)],
             Postings(fs) \cup {Posting(f, f.errcodes[j]) : j \in 1..Len(f.errcodes)})
    BY <1>3, <2>1, ReadingKeeps
  <2> QED
    BY <1>1, <2>1, <2>3, <2>4
<1> QED
  BY <1>4, <1>5, <1>6

-----------------------------------------------------------------------------
(* The choice of a locale                                                  *)

(* Without a locale of the language, the first of the known ones. *)
LEMMA FetchDefaultNearest ==
    ASSUME NEW l, NEW locales,
           l \in {Null, Empty} \/ \A b \in locales : b # l /\ b # Language(l) /\ b.lang # l.lang
    PROVE  FetchDefault(locales) \subseteq Nearest(l, locales)
<1>1. \A b \in locales :
         Distance(l, b) = IF b = En THEN 3 ELSE IF b = EnUS THEN 4 ELSE IF b = Zh THEN 5
                          ELSE IF b = ZhCN THEN 6 ELSE 7
  BY Zenon DEF Distance
<1>2. En # EnUS /\ En # Zh /\ En # ZhCN /\ EnUS # Zh /\ EnUS # ZhCN /\ Zh # ZhCN
  BY Zenon DEF En, EnUS, Zh, ZhCN, L
<1> QED
  BY <1>1, <1>2 DEF FetchDefault, Nearest

(* What is answered is as near as any. *)
LEMMA TransferNearest ==
    ASSUME NEW l \in LocaleType, NEW locales \in SUBSET LocaleType, locales # {}
    PROVE  Transfer(l, locales) \subseteq Nearest(l, locales)
<1> DEFINE dialects == {d \in locales : d.lang = l.lang /\ d.country # ""}
<1>0. \A b \in locales : b.lang = l.lang => b \in dialects \/ b = Language(l)
  <2>1. \A b \in locales : b = [lang |-> b.lang, country |-> b.country]
    BY DEF LocaleType
  <2> QED
    BY Zenon, <2>1 DEF Language, L
<1>1. CASE l \in {Null, Empty}
  BY <1>1, FetchDefaultNearest DEF Transfer
<1>2. CASE l \notin {Null, Empty} /\ l \in locales
  <2>1. Distance(l, l) = 0 /\ \A b \in locales : Distance(l, b) \in 0..7
    BY <1>2 DEF Distance
  <2>2. Transfer(l, locales) = {l}
    BY <1>2 DEF Transfer
  <2> QED
    BY <1>2, <2>1, <2>2 DEF Nearest
<1>3. CASE l \notin {Null, Empty} \cup locales /\ Language(l) \in locales
  <2>1. /\ Distance(l, Language(l)) = 1
        /\ \A b \in locales : Distance(l, b) \in 1..7
    BY <1>3 DEF Distance
  <2>2. Transfer(l, locales) = {Language(l)}
    BY <1>3 DEF Transfer
  <2> QED
    BY <1>3, <2>1, <2>2 DEF Nearest
<1>4. CASE l \notin {Null, Empty} \cup locales /\ Language(l) \notin locales /\ dialects # {}
  <2>1. \A b \in dialects : Distance(l, b) = 2
    BY Zenon, <1>4 DEF Distance
  <2>2. \A b \in locales : Distance(l, b) \in {2, 3, 4, 5, 6, 7}
    BY Zenon, <1>4 DEF Distance
  <2>3. Transfer(l, locales) = dialects /\ dialects \subseteq locales
    BY Zenon, <1>4 DEF Transfer
  <2> HIDE DEF dialects
  <2> QED
    BY <2>1, <2>2, <2>3 DEF Nearest
<1>5. CASE l \notin {Null, Empty} \cup locales /\ Language(l) \notin locales /\ dialects = {}
  <2>1. \A b \in locales : b # l /\ b # Language(l) /\ b.lang # l.lang
    BY Zenon, <1>0, <1>5
  <2>2. Transfer(l, locales) = FetchDefault(locales)
    BY Zenon, <1>5 DEF Transfer
  <2> QED
    BY Zenon, <2>1, <2>2, FetchDefaultNearest
<1> QED
  BY Zenon, <1>1, <1>2, <1>3, <1>4, <1>5

-----------------------------------------------------------------------------
(* The inductive invariant                                                 *)

TypeOK ==
    /\ files \in ClassPaths /\ toLoad \subseteq files
    /\ call \in [Threads -> Calls]
    /\ pc \in [Threads -> {"call", "lock", "secondTest", "init", "publish", "unlock",
                           "have", "done"}]
    /\ lock \in Threads \cup {"free"}
    /\ singleton \in {"null", "made"}
    /\ view \in [Threads -> {"none", "null", "items"}]
    /\ DOMAIN answer = Threads
    /\ inits \in {0, 1}

\* One thread at most is between lock and unlock.
Exclusion ==
    \A t \in Threads : pc[t] \in {"secondTest", "init", "publish", "unlock"} <=> lock = t

Complete == errorItems = loading /\ (toLoad = {} \/ loading.broken)

\* The only construction is under way or over; what it has read is right.
Construction ==
    /\ \A t \in Threads :
          /\ pc[t] \in {"init", "publish"} => singleton = "null" /\ inits = 1
          /\ pc[t] = "publish" => Complete
          /\ pc[t] \in {"unlock", "have", "done"} => singleton = "made"
    /\ singleton = "made" => inits = 1 /\ Complete
    /\ inits = 0 \/ singleton = "made" \/ \E t \in Threads : pc[t] \in {"init", "publish"}
    /\ inits = 1 => Good(loading, Postings(files \ toLoad))

\* What a thread sees and got is of the one singleton.
Answers ==
    /\ \A t \in Threads :
          /\ view[t] # "none" => singleton = "made"
          /\ view[t] = "null" => errorItems.broken \/ t \in racing
          /\ view[t] = "items" => ~errorItems.broken
          /\ answer[t].found # "none" => singleton = "made"
          /\ answer[t].found = "NullPointerException" => errorItems.broken \/ t \in racing
          /\ answer[t].found = "nothing" =>
                ~errorItems.broken /\ call[t].code \notin DOMAIN errorItems.items
    /\ NearestLabel

IInv == TypeOK /\ Exclusion /\ Construction /\ Answers

LEMMA InitIInv == Init => IInv
<1> SUFFICES ASSUME Init PROVE IInv
  OBVIOUS
<1>1. TypeOK
  BY DEF Init, TypeOK
<1>2. Exclusion
  BY ThreadsAssumption DEF Init, Exclusion
<1>3. Construction
  BY DEF Init, Construction
<1>4. \A t \in Threads : answer[t].found = "none"
  BY DEF Init, NoAnswer
<1>5. Answers
  BY <1>4 DEF Init, Answers, NearestLabel
<1> QED
  BY <1>1, <1>2, <1>3, <1>5 DEF IInv

(* A class path that was loaded is there whole. *)
LEMMA MadeWhole ==
    ASSUME IInv, singleton = "made", ~errorItems.broken
    PROVE  Whole(errorItems.items, Postings(files))
<1>1. toLoad = {} /\ errorItems = loading /\ inits = 1
  BY DEF IInv, Construction, Complete
<1>2. files \ toLoad = files
  BY <1>1
<1>3. Good(loading, Postings(files))
  BY <1>1, <1>2 DEF IInv, Construction
<1> QED
  BY <1>1, <1>3 DEF Good

(* A code there is has a label, in some locale. *)
LEMMA LabelLocalesThere ==
    ASSUME IInv, singleton = "made", ~errorItems.broken, NEW c \in DOMAIN errorItems.items
    PROVE  /\ DOMAIN errorItems.items[c].labels # {}
           /\ DOMAIN errorItems.items[c].labels \subseteq LocaleType
<1>1. Whole(errorItems.items, Postings(files))
  BY MadeWhole
<1>2. PICK p \in Postings(files) : p.entry.code = c
  BY <1>1 DEF Whole
<1>3. p.locale \in DOMAIN errorItems.items[c].labels
  BY <1>1, <1>2 DEF Whole
<1>4. ASSUME NEW l \in DOMAIN errorItems.items[c].labels PROVE l \in LocaleType
  <2>1. PICK q \in Postings(files) : q.locale = l
    BY <1>1 DEF Whole
  <2>2. PICK f \in files : \E e \in Entries(f) : q = Posting(f, e)
    BY <2>1 DEF Postings
  <2>3. f \in FileType /\ q.locale = f.locale
    BY <2>2, ClassPathsAssumption DEF IInv, TypeOK, Posting
  <2> QED
    BY <2>1, <2>3 DEF FileType
<1> QED
  BY <1>3, <1>4

-----------------------------------------------------------------------------
(* The steps                                                               *)

USE ThreadsAssumption

(* What nobody touches stays as it was answered. *)
LEMMA AnswersKept ==
    ASSUME IInv, UNCHANGED <<call, answer, errorItems, view>>, racing \subseteq racing',
           singleton = "made" => singleton' = "made"
    PROVE  Answers'
BY DEF IInv, Answers, NearestLabel

LEMMA FirstTestStep == ASSUME IInv, NEW t \in Threads, FirstTest(t) PROVE IInv'
<1>1. /\ pc[t] = "call" /\ singleton \in {"null", "made"}
      /\ pc' = [pc EXCEPT ![t] = IF singleton = "null" THEN "lock" ELSE "have"]
      /\ UNCHANGED <<files, call, lock, shared, answer>>
  BY DEF FirstTest, Goto, IInv, TypeOK
<1>2. CASE singleton = "null" /\ UNCHANGED <<view, racing>>
  <2>1. TypeOK' /\ Exclusion' /\ Construction'
    BY <1>1, <1>2 DEF IInv, TypeOK, Exclusion, Construction, Complete, shared
  <2> QED
    BY <1>1, <1>2, <2>1, AnswersKept DEF IInv, shared
<1>3. ASSUME NEW v \in {Visible, "null"}, singleton = "made",
             view' = [view EXCEPT ![t] = v], racing' = racing \cup {t}
      PROVE  IInv'
  <2>1. TypeOK'
    BY <1>1, <1>3 DEF IInv, TypeOK, shared, Visible
  <2>2. Exclusion' /\ Construction'
    BY <1>1, <1>3 DEF IInv, TypeOK, Exclusion, Construction, Complete, shared
  <2>3. v = "items" => ~errorItems.broken
    BY <1>3 DEF Visible
  <2>4. Answers'
    BY <1>1, <1>3, <2>3 DEF IInv, TypeOK, Answers, NearestLabel, shared
  <2> QED
    BY <2>1, <2>2, <2>4 DEF IInv
<1> QED
  BY <1>2, <1>3 DEF FirstTest

LEMMA LockStep == ASSUME IInv, NEW t \in Threads, Lock(t) PROVE IInv'
<1>1. TypeOK' /\ Exclusion' /\ Construction'
  BY DEF Lock, Goto, IInv, TypeOK, Exclusion, Construction, Complete, shared
<1> QED
  BY <1>1, AnswersKept DEF Lock, IInv, shared

LEMMA SecondTestStep == ASSUME IInv, NEW t \in Threads, SecondTest(t) PROVE IInv'
<1>1. /\ pc[t] = "secondTest" /\ lock = t
      /\ UNCHANGED <<files, call, lock, singleton, errorItems, view, answer, racing>>
  BY DEF SecondTest, IInv, Exclusion
<1>2. \A u \in Threads : pc[u] \notin {"init", "publish"}
  BY <1>1 DEF IInv, Exclusion
<1>3. Answers'
  BY <1>1, AnswersKept
<1>4. CASE singleton = "made" /\ Goto(t, "unlock") /\ UNCHANGED <<inits, toLoad, loading>>
  <2>1. TypeOK' /\ Exclusion' /\ Construction'
    BY <1>1, <1>4 DEF Goto, IInv, TypeOK, Exclusion, Construction, Complete
  <2> QED
    BY <1>3, <2>1 DEF IInv
<1>5. CASE singleton = "null" /\ Goto(t, "init")
           /\ inits' = inits + 1 /\ toLoad' = files /\ loading' = NoItems
  <2>1. inits = 0
    BY <1>2, <1>5 DEF IInv, TypeOK, Construction
  <2>2. Good(NoItems, Postings(files \ files))
    BY NothingRead DEF Postings
  <2>3. Construction'
    BY <1>1, <1>2, <1>5, <2>1, <2>2 DEF Goto, IInv, TypeOK, Construction, Complete
  <2>4. TypeOK' /\ Exclusion'
    BY <1>1, <1>5, <2>1 DEF Goto, IInv, TypeOK, Exclusion
  <2> QED
    BY <1>3, <2>3, <2>4 DEF IInv
<1> QED
  BY <1>4, <1>5 DEF SecondTest

(* Another file, which is one of the class path. *)
LEMMA LoadFileStep == ASSUME IInv, NEW t \in Threads, LoadFile(t) PROVE IInv'
<1>1. /\ pc[t] = "init"
      /\ UNCHANGED <<files, call, pc, lock, singleton, errorItems, view, answer, inits, racing>>
  BY DEF LoadFile
<1>2. PICK f \in toLoad : toLoad' = toLoad \ {f} /\ loading' = Load(loading, f)
  BY DEF LoadFile
<1>3. f \in FileType
  BY ClassPathsAssumption DEF IInv, TypeOK
<1>4. files \ toLoad' = (files \ toLoad) \cup {f}
  BY <1>2 DEF IInv, TypeOK
<1>5. Good(loading, Postings(files \ toLoad)) /\ inits = 1 /\ singleton = "null"
  BY <1>1 DEF IInv, Construction
<1>6. Good(loading', Postings(files \ toLoad'))
  BY <1>2, <1>3, <1>4, <1>5, LoadKeeps
<1>7. \A u \in Threads : pc[u] # "publish"
  BY <1>1 DEF IInv, Exclusion
<1>8. Construction'
  BY <1>1, <1>5, <1>6, <1>7 DEF IInv, Construction
<1>9. TypeOK' /\ Exclusion'
  BY <1>1, <1>2 DEF IInv, TypeOK, Exclusion
<1>10. Answers'
  BY <1>1, AnswersKept
<1> QED
  BY <1>8, <1>9, <1>10 DEF IInv

(* Nobody has seen the field the constructor sets. *)
LEMMA EndInitStep == ASSUME IInv, NEW t \in Threads, EndInit(t) PROVE IInv'
<1>1. /\ pc[t] = "init" /\ (loading.broken \/ toLoad = {})
      /\ errorItems' = loading /\ pc' = [pc EXCEPT ![t] = "publish"]
      /\ UNCHANGED <<files, call, lock, singleton, toLoad, loading, view, answer, inits, racing>>
  BY DEF EndInit, Goto
<1>2. singleton = "null" /\ inits = 1
  BY <1>1 DEF IInv, Construction
<1>3. \A u \in Threads \ {t} : pc[u] \notin {"init", "publish"}
  BY <1>1 DEF IInv, Exclusion
<1>4. Construction'
  BY <1>1, <1>2, <1>3 DEF IInv, TypeOK, Construction, Complete
<1>5. TypeOK' /\ Exclusion'
  BY <1>1 DEF IInv, TypeOK, Exclusion
<1>6. \A u \in Threads : view[u] = "none" /\ answer[u].found = "none"
  BY <1>2 DEF IInv, Answers
<1>7. Answers'
  BY <1>1, <1>6 DEF Answers, NearestLabel
<1> QED
  BY <1>4, <1>5, <1>7 DEF IInv

LEMMA PublishStep == ASSUME IInv, NEW t \in Threads, Publish(t) PROVE IInv'
<1>1. /\ pc[t] = "publish" /\ singleton' = "made" /\ pc' = [pc EXCEPT ![t] = "unlock"]
      /\ UNCHANGED <<files, call, lock, toLoad, loading, errorItems, view, answer, inits, racing>>
  BY DEF Publish, Goto
<1>2. inits = 1 /\ Complete /\ lock = t
  BY <1>1 DEF IInv, Construction, Exclusion
<1>3. \A u \in Threads \ {t} : pc[u] \notin {"init", "publish"}
  BY <1>1 DEF IInv, Exclusion
<1>4. Construction'
  BY <1>1, <1>2, <1>3 DEF IInv, TypeOK, Construction, Complete
<1>5. TypeOK' /\ Exclusion'
  BY <1>1 DEF IInv, TypeOK, Exclusion
<1>6. Answers'
  BY <1>1, AnswersKept
<1> QED
  BY <1>4, <1>5, <1>6 DEF IInv

LEMMA UnlockStep == ASSUME IInv, NEW t \in Threads, Unlock(t) PROVE IInv'
<1>1. /\ pc[t] = "unlock" /\ lock' = "free" /\ pc' = [pc EXCEPT ![t] = "have"]
      /\ view' = [view EXCEPT ![t] = Visible]
      /\ UNCHANGED <<files, call, singleton, toLoad, loading, errorItems, inits, answer, racing>>
  BY DEF Unlock, Goto, shared
<1>2. singleton = "made" /\ lock = t
  BY <1>1 DEF IInv, Construction, Exclusion
<1>3. Construction'
  BY <1>1 DEF IInv, TypeOK, Construction, Complete
<1>4. TypeOK'
  BY <1>1 DEF IInv, TypeOK, Visible
<1>5. Exclusion'
  BY <1>1, <1>2 DEF IInv, TypeOK, Exclusion
<1>6. /\ Visible = "items" => ~errorItems.broken
      /\ Visible = "null" => errorItems.broken
  BY DEF Visible
<1>7. Answers'
  BY <1>1, <1>2, <1>6 DEF IInv, TypeOK, Answers, NearestLabel
<1> QED
  BY <1>3, <1>4, <1>5, <1>7 DEF IInv

(* What is answered is read of the items, and is the nearest there is. *)
LEMMA GetErrorItemStep == ASSUME IInv, NEW t \in Threads, GetErrorItem(t) PROVE IInv'
<1> DEFINE code == call[t].code
           item == errorItems.items[code]
           l    == call[t].locale
           near == IF l = Null THEN {Null} ELSE Nearest(l, DOMAIN item.labels)
<1>1. /\ pc[t] = "have" /\ pc' = [pc EXCEPT ![t] = "done"]
      /\ UNCHANGED <<files, call, lock, singleton, toLoad, loading, errorItems, inits,
                     view, racing>>
  BY DEF GetErrorItem, Goto, shared
<1>2. singleton = "made"
  BY <1>1 DEF IInv, Construction
<1>3. \E r : /\ answer' = [answer EXCEPT ![t] = r]
             /\ \/ r.found = "NullPointerException" /\ view[t] = "null"
                \/ r.found = "nothing" /\ view[t] = "items" /\ code \notin DOMAIN errorItems.items
                \/ /\ r.found = "item"
                   /\ r.locale \in near /\ r.localeBack \in near /\ r.codeBack = code
  <2>1. CASE view[t] = "null" /\ answer' = [answer EXCEPT ![t] = [found |-> "NullPointerException"]]
    <3>0. PICK r : r = [found |-> "NullPointerException"]
      OBVIOUS
    <3>1. r.found = "NullPointerException"
      BY <3>0
    <3>2. answer' = [answer EXCEPT ![t] = r]
      BY <2>1, <3>0
    <3> QED
      BY <2>1, <3>1, <3>2
  <2>2. CASE view[t] = "items" /\ code \notin DOMAIN errorItems.items
             /\ answer' = [answer EXCEPT ![t] = [found |-> "nothing"]]
    <3>0. PICK r : r = [found |-> "nothing"]
      OBVIOUS
    <3>1. r.found = "nothing"
      BY <3>0
    <3>2. answer' = [answer EXCEPT ![t] = r]
      BY <2>2, <3>0
    <3> QED
      BY <2>2, <3>1, <3>2
  <2>3. CASE view[t] = "items" /\ code \in DOMAIN errorItems.items /\ Use(t, item)
    <3>1. ~errorItems.broken /\ code \in DOMAIN errorItems.items
      BY <2>3 DEF IInv, Answers
    <3>2. DOMAIN item.labels # {} /\ DOMAIN item.labels \in SUBSET LocaleType
      BY <1>2, <3>1, LabelLocalesThere
    <3>3. l \in LocaleType
      BY CallsAssumption DEF IInv, TypeOK
    <3>4. LabelLocales(item.labels, l) \subseteq near
      BY <3>2, <3>3, TransferNearest DEF LabelLocales
    <3>5. PICK at, back \in LabelLocales(item.labels, l) :
             \E r : /\ answer' = [answer EXCEPT ![t] = r]
                    /\ r.found = "item" /\ r.locale = at /\ r.localeBack = back
                    /\ r.codeBack = code
      <4>1. Canonical(code, item).errlabels = item.labels /\ Canonical(code, item).errorCode = code
        BY DEF Canonical
      <4>2. PICK at \in LabelLocales(item.labels, l),
                 back \in LabelLocales(Canonical(code, item).errlabels, l) :
               answer' = [answer EXCEPT ![t] =
                 [found |-> "item", locale |-> at, level |-> item.level,
                  codeBack |-> Canonical(code, item).errorCode, localeBack |-> back,
                  levelBack |-> LevelToInt(Canonical(code, item).level)]]
        BY Zenon, <2>3 DEF Use
      <4>3. PICK r : r = [found |-> "item", locale |-> at, level |-> item.level,
                          codeBack |-> Canonical(code, item).errorCode, localeBack |-> back,
                          levelBack |-> LevelToInt(Canonical(code, item).level)]
        OBVIOUS
      <4>4. /\ r.found = "item" /\ r.locale = at /\ r.localeBack = back
            /\ r.codeBack = Canonical(code, item).errorCode
        BY <4>3
      <4>5. answer' = [answer EXCEPT ![t] = r]
        BY <4>2, <4>3
      <4> HIDE DEF item, code, l
      <4> QED
        BY <4>1, <4>4, <4>5
    <3> HIDE DEF near, item, code, l
    <3> QED
      BY <3>4, <3>5
  <2> QED
    BY <2>1, <2>2, <2>3 DEF GetErrorItem
<1>4. TypeOK' /\ Exclusion' /\ Construction'
  BY <1>1, <1>3 DEF IInv, TypeOK, Exclusion, Construction, Complete
<1>5. PICK r : /\ answer' = [answer EXCEPT ![t] = r]
               /\ \/ r.found = "NullPointerException" /\ view[t] = "null"
                  \/ r.found = "nothing" /\ view[t] = "items" /\ code \notin DOMAIN errorItems.items
                  \/ /\ r.found = "item"
                     /\ r.locale \in near /\ r.localeBack \in near /\ r.codeBack = code
  BY <1>3
<1>6. answer'[t] = r /\ \A u \in Threads \ {t} : answer'[u] = answer[u]
  BY <1>5 DEF IInv, TypeOK
<1>7. NearestLabel'
  <2>1. ASSUME r.found = "item"
        PROVE  r.locale \in near /\ r.localeBack \in near /\ r.codeBack = code
    BY <1>5, <2>1
  <2> QED
    BY <1>1, <1>6, <2>1 DEF IInv, Answers, NearestLabel
<1>8. /\ r.found = "NullPointerException" => errorItems.broken \/ t \in racing
      /\ r.found = "nothing" => ~errorItems.broken /\ code \notin DOMAIN errorItems.items
  BY <1>5 DEF IInv, Answers
<1> HIDE DEF near, item
<1>9. Answers'
  BY <1>1, <1>2, <1>6, <1>7, <1>8 DEF IInv, Answers
<1> QED
  BY <1>4, <1>9 DEF IInv

LEMMA NextIInv == IInv /\ [Next]_vars => IInv'
<1> SUFFICES ASSUME IInv, [Next]_vars PROVE IInv'
  OBVIOUS
<1>1. CASE UNCHANGED vars
  <2>1. TypeOK' /\ Exclusion' /\ Construction'
    BY <1>1 DEF IInv, TypeOK, Exclusion, Construction, Complete, vars, shared
  <2> QED
    BY <1>1, <2>1, AnswersKept DEF IInv, vars, shared
<1>2. ASSUME NEW t \in Threads, Step(t) PROVE IInv'
  BY <1>2, FirstTestStep, LockStep, SecondTestStep, LoadFileStep, EndInitStep, PublishStep,
     UnlockStep, GetErrorItemStep DEF Step
<1> QED
  BY <1>1, <1>2 DEF Next, AllDone

-----------------------------------------------------------------------------
(* The theorems                                                            *)

(* Lock, construction and what each thread has seen of it agree, in every  *)
(* interleaving of getInstance and getErrorItem.                           *)
THEOREM Inductive == Spec => []IInv
BY InitIInv, NextIInv, PTL DEF Spec

(* The class path is scanned at most once, and whoever is past getInstance *)
(* finds the scan over: the two tests and the lock of getInstance.         *)
THEOREM BuiltOnceTheorem == Spec => []BuiltOnce
<1>1. IInv => BuiltOnce
  BY DEF IInv, TypeOK, Construction, Complete, BuiltOnce
<1> QED
  BY <1>1, Inductive, PTL

(* The items of the singleton are what the files of the class path say,    *)
(* all of it and nothing else, for any files in any order: init.           *)
THEOREM LoadedWholeTheorem == Spec => []LoadedWhole
<1>1. IInv => LoadedWhole
  <2> SUFFICES ASSUME IInv, singleton = "made", ~errorItems.broken
               PROVE  LoadedWhole
    BY DEF LoadedWhole
  <2> DEFINE items   == errorItems.items
             With(c) == {f \in files : \E e \in Entries(f) : e.code = c}
  <2>1. Whole(items, Postings(files))
    BY MadeWhole
  <2>2. \A f \in files : \A e \in Entries(f) :
           \E p \in Postings(files) : p.locale = f.locale /\ p.entry = e
    BY PostingsHave
  <2>3. \A p \in Postings(files) : \E f \in files :
           p.entry \in Entries(f) /\ p.locale = f.locale
    BY DEF Postings, Posting
  <2>4. DOMAIN items = UNION {{e.code : e \in Entries(f)} : f \in files}
    <3>1. \A f \in files : \A e \in Entries(f) : e.code \in DOMAIN items
      BY <2>1, <2>2 DEF Whole
    <3>2. \A c \in DOMAIN items : \E f \in files : \E e \in Entries(f) : e.code = c
      BY <2>1, <2>3 DEF Whole
    <3> HIDE DEF items
    <3>3. ASSUME NEW c
          PROVE  c \in DOMAIN items <=> c \in UNION {{e.code : e \in Entries(f)} : f \in files}
      BY <3>1, <3>2
    <3> QED
      BY <3>3
  <2>5. ASSUME NEW c \in DOMAIN items
        PROVE  /\ DOMAIN items[c].labels = {f.locale : f \in With(c)}
               /\ \A l \in DOMAIN items[c].labels : \E f \in With(c) : \E e \in Entries(f) :
                     f.locale = l /\ e.code = c /\ e.label = items[c].labels[l]
               /\ \E f \in With(c) : \E e \in Entries(f) :
                     e.code = c /\ LevelToInt(e.level) = items[c].level
    <3>1. \A f \in With(c) : f.locale \in DOMAIN items[c].labels
      BY <2>1, <2>2 DEF Whole
    <3>2. ASSUME NEW l \in DOMAIN items[c].labels
          PROVE  \E f \in With(c) : \E e \in Entries(f) :
                    f.locale = l /\ e.code = c /\ e.label = items[c].labels[l]
      <4>1. PICK p \in Postings(files) :
               p.entry.code = c /\ p.locale = l /\ p.entry.label = items[c].labels[l]
        BY <2>1 DEF Whole
      <4>2. PICK f \in files : p.entry \in Entries(f) /\ p.locale = f.locale
        BY <2>3
      <4> QED
        BY <4>1, <4>2
    <3>3. \E f \in With(c) : \E e \in Entries(f) :
             e.code = c /\ LevelToInt(e.level) = items[c].level
      BY <2>1, <2>3 DEF Whole
    <3> HIDE DEF items, With
    <3> QED
      BY <3>1, <3>2, <3>3
  <2> QED
    BY <2>4, <2>5 DEF LoadedWhole
<1> QED
  BY <1>1, Inductive, PTL

(* A lookup throws only of a broken class path or a racing read, and finds *)
(* nothing only of a code no file has: getErrorItem.                       *)
THEOREM FailsForAReasonTheorem == Spec => []FailsForAReason
<1>1. IInv => FailsForAReason
  <2> SUFFICES ASSUME IInv, NEW t \in Threads, answer[t].found = "nothing",
                      NEW f \in files, NEW e \in Entries(f)
               PROVE  e.code # call[t].code
    BY DEF IInv, Answers, FailsForAReason
  <2>1. /\ singleton = "made" /\ ~errorItems.broken
        /\ call[t].code \notin DOMAIN errorItems.items
    BY DEF IInv, Answers
  <2>2. Whole(errorItems.items, Postings(files))
    BY <2>1, MadeWhole
  <2>3. \E p \in Postings(files) : p.entry = e
    BY PostingsHave
  <2> QED
    BY <2>1, <2>2, <2>3 DEF Whole
<1> QED
  BY <1>1, Inductive, PTL

(* A label is in the nearest locale there is, asked of the item or of its  *)
(* canonical form: transfer, getLabel and getLabelFromCanonicalLabels.     *)
THEOREM NearestLabelTheorem == Spec => []NearestLabel
<1>1. IInv => NearestLabel
  BY DEF IInv, Answers
<1> QED
  BY <1>1, Inductive, PTL

-----------------------------------------------------------------------------
(* The promise of Singleton.tla                                            *)

(* Steps that neither construct nor hand out. *)
LEMMA SingletonStutters ==
    ASSUME IInv, NEW t \in Threads,
           Lock(t) \/ LoadFile(t) \/ EndInit(t) \/ GetErrorItem(t)
    PROVE  UNCHANGED <<object, makers, held>>
<1>1. pc' = [pc EXCEPT ![t] = pc'[t]] /\ singleton' = singleton
  BY DEF Lock, LoadFile, EndInit, GetErrorItem, Goto, shared, IInv, TypeOK
<1>2. /\ pc[t] \in {"init", "publish"} <=> pc'[t] \in {"init", "publish"}
      /\ pc[t] \in {"have", "done"} <=> pc'[t] \in {"have", "done"}
  BY DEF Lock, LoadFile, EndInit, GetErrorItem, Goto, IInv, TypeOK
<1>3. singleton = "made" => errorItems' = errorItems
  BY DEF Lock, LoadFile, EndInit, GetErrorItem, shared, IInv, Construction
<1>4. \A u \in Threads : pc[u] \in {"have", "done"} => singleton = "made"
  BY DEF IInv, Construction
<1>5. \A u \in Threads : /\ pc[u] \in {"init", "publish"} <=> pc'[u] \in {"init", "publish"}
                         /\ pc[u] \in {"have", "done"} <=> pc'[u] \in {"have", "done"}
  BY <1>1, <1>2 DEF IInv, TypeOK
<1> QED
  BY <1>1, <1>3, <1>4, <1>5 DEF object, makers, held

(* A thread finds the singleton made, at once or on leaving the lock. *)
LEMMA SingletonTaken ==
    ASSUME IInv, NEW t \in Threads, singleton = "made",
           pc[t] \in {"call", "unlock"}, pc' = [pc EXCEPT ![t] = "have"],
           UNCHANGED <<singleton, errorItems>>
    PROVE  OneObject!Take(t)
<1>1. object = <<errorItems>> /\ object # <<>> /\ object' = object
  BY DEF object
<1>2. makers' = makers
  BY DEF makers, IInv, TypeOK
<1>3. held' = [held EXCEPT ![t] = <<errorItems>>]
  BY DEF held, IInv, TypeOK
<1> QED
  BY <1>1, <1>2, <1>3 DEF OneObject!Take

LEMMA SingletonMade ==
    ASSUME IInv, NEW t \in Threads, SecondTest(t)
    PROVE  OneObject!Make(t) \/ UNCHANGED <<object, makers, held>>
<1>1. pc[t] = "secondTest" /\ UNCHANGED <<singleton, errorItems>> /\ lock = t
  BY DEF SecondTest, IInv, Exclusion
<1>2. object' = object
  BY <1>1 DEF object
<1>3. CASE singleton = "null" /\ pc' = [pc EXCEPT ![t] = "init"]
  <2>1. object = <<>>
    BY <1>3 DEF object
  <2>2. makers = {} /\ makers' = {t}
    BY <1>1, <1>3 DEF makers, IInv, TypeOK, Exclusion
  <2>3. held' = held
    BY <1>1, <1>3 DEF held, IInv, TypeOK
  <2> QED
    BY <1>2, <2>1, <2>2, <2>3 DEF OneObject!Make
<1>4. CASE singleton = "made" /\ pc' = [pc EXCEPT ![t] = "unlock"]
  <2>1. makers' = makers /\ held' = held
    BY <1>1, <1>4 DEF makers, held, IInv, TypeOK
  <2> QED
    BY <1>2, <2>1
<1> QED
  BY <1>3, <1>4 DEF SecondTest, Goto

(* The one constructor publishes; nobody has got past getInstance. *)
LEMMA SingletonPublished ==
    ASSUME IInv, NEW t \in Threads, Publish(t)
    PROVE  OneObject!Publish(t)
<1>1. /\ pc[t] = "publish" /\ pc' = [pc EXCEPT ![t] = "unlock"]
      /\ singleton' = "made" /\ errorItems' = errorItems /\ singleton = "null"
  BY DEF Publish, Goto, IInv, Construction
<1>2. object = <<>> /\ object' = <<errorItems>> /\ object' # <<>>
  BY <1>1 DEF object
<1>3. makers = {t} /\ makers' = {}
  BY <1>1 DEF makers, IInv, TypeOK, Exclusion
<1>4. held' = held
  BY <1>1 DEF held, IInv, TypeOK
<1> QED
  BY <1>2, <1>3, <1>4 DEF OneObject!Publish

(* getInstance implements Singleton: one thread at a time constructs, none *)
(* once the singleton is there, and each is handed the same complete one.  *)
THEOREM SingletonKept == Spec => SingletonSpec
<1>1. Init => OneObject!Init
  BY DEF Init, OneObject!Init, makers, held
<1>2. IInv /\ [Next]_vars => [OneObject!Next]_(OneObject!vars)
  <2> SUFFICES ASSUME IInv, [Next]_vars
               PROVE  [OneObject!Next]_(OneObject!vars)
    OBVIOUS
  <2>1. ASSUME NEW t \in Threads, FirstTest(t)
        PROVE  OneObject!Take(t) \/ UNCHANGED <<object, makers, held>>
    <3>1. pc[t] = "call" /\ UNCHANGED <<singleton, errorItems>>
      BY <2>1 DEF FirstTest, shared
    <3>2. CASE singleton = "made" /\ pc' = [pc EXCEPT ![t] = "have"]
      BY <3>1, <3>2, SingletonTaken
    <3>3. CASE pc' = [pc EXCEPT ![t] = "lock"]
      BY <3>1, <3>3 DEF object, makers, held, IInv, TypeOK
    <3> QED
      BY <2>1, <3>2, <3>3 DEF FirstTest, Goto
  <2>2. ASSUME NEW t \in Threads, Unlock(t) PROVE OneObject!Take(t)
    <3>1. pc[t] = "unlock" /\ singleton = "made"
      BY <2>2 DEF Unlock, IInv, Construction
    <3>2. pc' = [pc EXCEPT ![t] = "have"] /\ UNCHANGED <<singleton, errorItems>>
      BY <2>2 DEF Unlock, Goto, shared
    <3> QED
      BY <3>1, <3>2, SingletonTaken
  <2>3. CASE UNCHANGED vars
    BY <2>3 DEF vars, shared, object, makers, held, OneObject!vars
  <2>4. ASSUME NEW t \in Threads, Step(t)
        PROVE  OneObject!Next \/ UNCHANGED <<object, makers, held>>
    BY <2>1, <2>2, <2>4, SingletonStutters, SingletonMade, SingletonPublished
    DEF Step, OneObject!Next
  <2> QED
    BY <2>3, <2>4 DEF Next, AllDone, OneObject!vars
<1> QED
  BY <1>1, <1>2, Inductive, PTL DEF Spec, SingletonSpec, OneObject!Spec
=============================================================================
