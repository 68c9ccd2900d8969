------------------------------ MODULE Locales -------------------------------
(***************************************************************************)
(* The choice of a locale among those a text exists in (baseservice-i18n,  *)
(* I18nLocaleTransfer in I18nJsonUtil.java).  A locale is a language and a *)
(* country, either of which may be empty.                                  *)
(***************************************************************************)
EXTENDS Integers

LocaleType == [lang : STRING, country : STRING]

L(lang, country) == [lang |-> lang, country |-> country]

Empty   == L("", "")
Null    == L("null", "null")     \* no locale
En      == L("en", "")
EnUS    == L("en", "US")
Zh      == L("zh", "")
ZhCN    == L("zh", "CN")

Language(l) == L(l.lang, "")

\* Without any of these, any.
FetchDefault(locales) ==
    IF En \in locales        THEN {En}
    ELSE IF EnUS \in locales THEN {EnUS}
    ELSE IF Zh \in locales   THEN {Zh}
    ELSE IF ZhCN \in locales THEN {ZhCN}
    ELSE locales

\* Seeded fault: the language itself is not tried.
TransferDialectsOnly(l, locales) ==
    LET dialects == {d \in locales : d.lang = l.lang /\ d.country # ""}
    IN IF locales = {} THEN {Null}
       ELSE IF l \in {Null, Empty} THEN FetchDefault(locales)
       ELSE IF l \in locales THEN {l}
       ELSE IF dialects # {} THEN dialects
       ELSE FetchDefault(locales)

(* The locales that may be answered: where several dialects fit, the       *)
(* first in the order of a hash set.                                       *)
Transfer(l, locales) ==
    LET dialects == {d \in locales : d.lang = l.lang /\ d.country # ""}
    IN IF locales = {} THEN {Null}
       ELSE IF l \in {Null, Empty} THEN FetchDefault(locales)
       ELSE IF l \in locales THEN {l}
       ELSE IF Language(l) \in locales THEN {Language(l)}
       ELSE IF dialects # {} THEN dialects
       ELSE FetchDefault(locales)

-----------------------------------------------------------------------------
(* Reference: how far off an answer is, by its place in the order of the   *)
(* comment on transfer and fetchDefault.                                   *)
Distance(l, answer) ==
    IF l \notin {Null, Empty} /\ answer = l                    THEN 0
    ELSE IF l \notin {Null, Empty} /\ answer = Language(l)     THEN 1
    ELSE IF l \notin {Null, Empty} /\ answer.lang = l.lang     THEN 2
    ELSE IF answer = En   THEN 3
    ELSE IF answer = EnUS THEN 4
    ELSE IF answer = Zh   THEN 5
    ELSE IF answer = ZhCN THEN 6
    ELSE 7

Nearest(l, locales) ==
    {a \in locales : \A b \in locales : Distance(l, a) <= Distance(l, b)}
=============================================================================
