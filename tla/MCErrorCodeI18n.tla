--------------------------- MODULE MCErrorCodeI18n --------------------------
(* Class paths of up to three files and two callers for TLC.               *)
EXTENDS ErrorCodeI18n

CONSTANTS t1, t2

E(code, level, label) == [code |-> code, level |-> level, label |-> label]

File(path, state, locale, errcodes) ==
    [path |-> path, state |-> state, locale |-> locale, errcodes |-> errcodes]

\* files that load, on their own or with others, or break the class path
GoodFiles ==
    {File(1, "readable", En, <<E(7, "ERROR", "red")>>),
     File(2, "readable", EnUS, <<E(7, "INFO", "colour"), E(1, "WARN", "one")>>),
     File(3, "readable", L("fr", "FR"), <<E(7, "absent", "rouge")>>),
     File(4, "readable", L("fr", "CA"), <<E(7, "other", "rouge")>>),
     File(5, "readable", ZhCN, <<E(7, "WARN", "hong")>>),
     File(6, "readable", En, <<E(7, "WARN", "crimson")>>),
     File(7, "readable", L("fr", ""), <<E(7, "INFO", "vermeil")>>),
     File(8, "readable", En, <<E(1, "INFO", "one"), E(NotANumber, "INFO", "x")>>)}

\* files that are skipped or missing
OddFiles ==
    {File(9, "readable", BadLocale, <<E(NotANumber, "INFO", "x")>>),
     File(10, "unreadable", Zh, <<>>),
     File(11, "missing", Zh, <<>>),
     File(12, "plain", L("de", ""), <<>>)}

SmallClassPaths ==
    {fs \in SUBSET GoodFiles : Cardinality(fs) <= 3} \cup
    {odd \cup {g} : odd \in {fs \in SUBSET OddFiles : Cardinality(fs) <= 2},
                   g \in {f \in GoodFiles : f.path \in {2, 4}}}

SomeCalls == {[code |-> 7, locale |-> L("fr", "FR")], [code |-> 7, locale |-> EnUS],
              [code |-> 7, locale |-> Null], [code |-> 7, locale |-> Empty],
              [code |-> 1, locale |-> L("de", "DE")]}
=============================================================================
