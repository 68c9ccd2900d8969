---------------------------- MODULE MCBpsPackage ----------------------------
(* Small instances of BpsPackage for TLC.                                  *)
EXTENDS BpsPackage, TLC

CONSTANTS r1, r2, r3, p1, p2, good, multi

Up(p, a)  == [op |-> "upload", pkg |-> p, archive |-> a, zip |-> TRUE]
Del(p)    == [op |-> "delete", pkg |-> p, archive |-> good, zip |-> TRUE]
NotZip(p) == [op |-> "upload", pkg |-> p, archive |-> good, zip |-> FALSE]
Ls        == [op |-> "list", pkg |-> p1, archive |-> good, zip |-> TRUE]

\* one name, uploads and deletes only: who may operate when
ContendingCalls == {Up(p1, good), Up(p1, multi), Del(p1)}

\* every kind of request, two names
AllCalls == {Up(p1, good), Up(p1, multi), Up(p2, multi), Del(p1), NotZip(p1), Ls}

\* An upload and another request contend for p1 and the third is of any kind.
\* The requests are interchangeable, so one order of the three stands for all
\* of them: this replaces a symmetry set, which temporal properties do not allow.
OneOrder == /\ call[r1] = Up(p1, good)
            /\ call[r2] \in {Up(p1, good), Del(p1)}
            /\ IF call[r2] = Del(p1) THEN call[r3] # Up(p1, good)
                                     ELSE call[r3] \in ContendingCalls

MCInit == Init /\ OneOrder

MCSpec == MCInit /\ [][Next]_vars /\ Fairness
=============================================================================
