---------------------------- MODULE MCIocBundle -----------------------------
(* Applications of three classes for TLC: k2 may need k1, k3 may need both, *)
(* and k1 may be rejected by the binder.                                    *)
EXTENDS IocBundle

CONSTANTS k1, k2, k3

NeedsOf1 == {{}, {Given}}
NeedsOf2 == {{}, {k1}, {k1, Given}}
NeedsOf3 == {{k2}, {k1, k2}}

\* early, in the middle, last; k3 may be a resource that is no service
PhasesOf3 == {"BaseService", "Service", "none"}
EarlyOrLate == {"PreLoad", "PostBaseService", "Service"}

\* [Classes -> S] that map k1, k2 and k3 to x, y and z
Triple(x, y, z) == [k \in {k1, k2, k3} |-> CASE k = k1 -> x [] k = k2 -> y [] k = k3 -> z]

SmallDesigns ==
    {[phase      |-> Triple(pa, pb, pc),
      kinds      |-> Triple({}, kb, {"Path"}),
      needs      |-> Triple(na, nb, nc),
      lazy       |-> lazy,
      rejected   |-> rejected,
      singletons |-> singletons] :
        pa \in EarlyOrLate, pb \in EarlyOrLate, pc \in PhasesOf3,
        kb \in {{"LifeCycle"}, {"Task", "Path"}},
        na \in NeedsOf1, nb \in NeedsOf2, nc \in NeedsOf3,
        lazy \in {{}, {k1}}, rejected \in {{}, {k1}},
        singletons \in {{k1, k2, k3}, {k2}}}
=============================================================================
