-------------------------- MODULE BpsPackage_proofs --------------------------
(***************************************************************************)
(* Theorems about BpsPackage, for any requests, names and archives.        *)
(***************************************************************************)
EXTENDS BpsPackage, TLAPS

USE DEF ERROR_CODE_NOERROR, ERROR_CODE_PACKAGE_UNSUPPORED_FILE,
        ERROR_CODE_PACKAGE_STATUS_BUSY, ERROR_CODE_PACKAGE_DUPLICATED_NAME,
        ERROR_CODE_PACKAGE_DEPLOY_INFORMATION_IS_LOST,
        ERROR_CODE_PACKAGE_UNDEPLOY_FAILED, ERROR_CODE_PACKAGE_NOTEXISTS,
        ERROR_CODE_RUNTIME_EXCEPTION, ERROR_CODE_RUNTIME_EXCEPTION_AXIS,
        ERROR_CODE_RUNTIME_EXCEPTION_IO, ErrorCodes

USE DEF locals, statics, server, history, vars, pkg

(* An exception on its way out is one the catch clauses know. *)
LEMMA ThrownType ==
    ASSUME TypeOK, NEW r \in Requests, NEW ex \in CallFaults
    PROVE  [thrown EXCEPT ![r] = [ex |-> ex, code |-> 0]] \in [Requests -> Throwns]
  BY DEF TypeOK, Throwns, CallFaults

(* So is one of the resource's own exceptions. *)
LEMMA ServiceThrownType ==
    ASSUME TypeOK, NEW r \in Requests, NEW c \in 10003..10006
    PROVE  [thrown EXCEPT ![r] = [ex |-> "BpsServiceException", code |-> c]]
              \in [Requests -> Throwns]
  BY DEF TypeOK, Throwns

(* Whatever was thrown, the catch clauses make an error code of it. *)
LEMMA CaughtCodeType ==
    ASSUME TypeOK, NEW r \in Requests
    PROVE  CaughtCode(r) \in ErrorCodes \cup {ERROR_CODE_NOERROR}
<1>1. thrown[r] \in Throwns
  BY DEF TypeOK
<1>2. CASE thrown[r] = NoThrow
  BY <1>2 DEF NoThrow, CaughtCode, TypeOK
<1>3. CASE thrown[r] \in [ex : CallFaults, code : {0}]
  BY <1>3 DEF CaughtCode, CallFaults
<1>4. CASE thrown[r] \in [ex : {"BpsServiceException"}, code : 10003..10006]
  BY <1>4 DEF CaughtCode
<1> QED
  BY <1>1, <1>2, <1>3, <1>4 DEF Throwns

(* Calls name a package, an archive and an operation of the resource. *)
LEMMA CallsTyped ==
    ASSUME TypeOK, NEW r \in Requests
    PROVE  /\ call[r] \in Calls
           /\ call[r].pkg \in Packages /\ call[r].archive \in Archives
           /\ call[r].zip \in BOOLEAN /\ call[r].op \in {"upload", "delete", "list"}
  BY CallsAssumption DEF TypeOK, CallType

LEMMA TypeInit == Init => TypeOK
  BY MaxPollsAssumption
  DEF Init, TypeOK, PCs, Throwns, Upload

(* Every step of every action keeps the types. *)
LEMMA TypeStep == TypeOK /\ [Next]_vars => TypeOK'
<1> SUFFICES ASSUME TypeOK, [Next]_vars PROVE TypeOK'
  OBVIOUS
<1> USE DEF PCs, InsidePCs, Goto, Throw, BpsServiceException
<1>1. ASSUME NEW r \in Requests, Receive(r) PROVE TypeOK'
  BY <1>1, ThrownType DEF Receive, TypeOK, CallFaults
<1>2. ASSUME NEW r \in Requests, LockPackageName(r) PROVE TypeOK'
  BY <1>2, CallsTyped DEF LockPackageName, TypeOK
<1>3. ASSUME NEW r \in Requests, Refuse(r) PROVE TypeOK'
  BY <1>3, ThrownType, CallsTyped DEF Refuse, TypeOK, CallFaults
<1>4. ASSUME NEW r \in Requests, BeginCopy(r) PROVE TypeOK'
  BY <1>4, CallsTyped DEF BeginCopy, TypeOK
<1>5. ASSUME NEW r \in Requests, EndCopy(r) PROVE TypeOK'
  BY <1>5, CallsTyped DEF EndCopy, TypeOK
<1>6. ASSUME NEW r \in Requests, CopyFails(r) PROVE TypeOK'
  BY <1>6, ThrownType DEF CopyFails, TypeOK, CallFaults
<1>7. ASSUME NEW r \in Requests, SetTrustStoreWildcard(r) \/ SetTrustStoreJks(r)
      PROVE TypeOK'
  BY <1>7 DEF SetTrustStoreWildcard, SetTrustStoreJks, TypeOK
<1>8. ASSUME NEW r \in Requests, Query(r) PROVE TypeOK'
  BY <1>8, ThrownType, ServiceThrownType DEF Query, TypeOK
<1>9. ASSUME NEW r \in Requests, List(r) PROVE TypeOK'
  BY <1>9, ThrownType DEF List, TypeOK
<1>10. ASSUME NEW r \in Requests, Deploy(r) PROVE TypeOK'
  <2>1. pending' \in [Packages -> SUBSET Upload]
    BY <1>10, CallsTyped DEF Deploy, Accept, TypeOK, Upload
  <2>2. thrown' \in [Requests -> Throwns]
    BY <1>10, ThrownType DEF Deploy, TypeOK, CallFaults
  <2> QED
    BY <1>10, <2>1, <2>2 DEF Deploy, TypeOK
<1>11. ASSUME NEW r \in Requests, Poll(r) PROVE TypeOK'
  <2>1. PICK info \in DeployedPackageInfo(pkg(r)) :
             \/ info \in CallFaults /\ Throw(r, info, 0) /\ UNCHANGED polls
             \/ info = "present" /\ Goto(r, "finally") /\ UNCHANGED polls
             \/ /\ info = "absent" /\ Goto(r, "sleep")
                /\ polls' = [polls EXCEPT ![r] = @ + 1]
    BY <1>11 DEF Poll
  <2> QED
    BY <1>11, <2>1, ThrownType DEF Poll, TypeOK
<1>12. ASSUME NEW r \in Requests, WakeUp(r) PROVE TypeOK'
  BY <1>12, ServiceThrownType DEF WakeUp, TypeOK
<1>13. ASSUME NEW r \in Requests, Undeploy(r) PROVE TypeOK'
  <2>1. thrown' \in [Requests -> Throwns] /\ pc' \in [Requests -> PCs]
    BY <1>13, ThrownType DEF Undeploy, TypeOK, CallFaults
  <2>2. deployed' \in [Packages -> Upload \cup {NotDeployed}]
    BY <1>13, CallsTyped DEF Undeploy, TypeOK
  <2> QED
    BY <1>13, <2>1, <2>2 DEF Undeploy, TypeOK
<1>14. ASSUME NEW r \in Requests, Recheck(r) PROVE TypeOK'
  <2>1. thrown' \in [Requests -> Throwns] /\ pc' = [pc EXCEPT ![r] = "finally"]
    BY <1>14, ThrownType, ServiceThrownType DEF Recheck, TypeOK
  <2> QED
    BY <1>14, <2>1 DEF Recheck, TypeOK
<1>15. ASSUME NEW r \in Requests, Finish(r) PROVE TypeOK'
  <2>1. /\ errorCode' \in [Requests -> ErrorCodes \cup {ERROR_CODE_NOERROR}]
        /\ pc' \in [Requests -> PCs]
    BY <1>15, CaughtCodeType DEF Finish, TypeOK
  <2>2. /\ packageNameSet' \subseteq Packages
        /\ late' \subseteq Requests /\ refused' \subseteq Packages
    BY <1>15 DEF Finish, Released, TypeOK
  <2> QED
    BY <1>15, <2>1, <2>2 DEF Finish, TypeOK
<1>16. ASSUME NEW p \in Packages, ServerDeploys(p) PROVE TypeOK'
  BY <1>16 DEF ServerDeploys, TypeOK, Upload
<1>17. CASE UNCHANGED vars
  BY <1>17 DEF TypeOK
<1> QED
  BY <1>1, <1>2, <1>3, <1>4, <1>5, <1>6, <1>7, <1>8, <1>9, <1>10, <1>11,
     <1>12, <1>13, <1>14, <1>15, <1>16, <1>17 DEF Next, Handler, AllAnswered

(* The variables keep their types in every execution. *)
THEOREM TypeCorrect == Spec => []TypeOK
  BY TypeInit, TypeStep, PTL DEF Spec
-----------------------------------------------------------------------------
(***************************************************************************)
(* The safety invariants.  IInv is inductive: one lemma per conjunct says  *)
(* that every step keeps it, the steps that can disturb it one by one, the *)
(* others together.                                                        *)
(***************************************************************************)

LEMMA SafetyInit == Init => IInv
  BY TypeInit
  DEF Init, IInv, StepsOfHandlers, RefusalsMarked, NoLockLeak,
      ExclusiveUnlessRefused, PendingOwned, FileOwned, ContentOwned,
      WaitingOwned, DuplicateCheckHolds, UploadAnswerHolds, DeleteAnswerHolds,
      Inside, InsidePCs, UploadPCs, Succeeding

(* Who is inside on an unmarked name after a request has finished is another
   request, was there before, and the name was unmarked already. *)
LEMMA FinishLeaves ==
    ASSUME IInv, NEW r \in Requests, Finish(r),
           NEW q \in Requests, Inside(q)', pkg(q) \notin refused'
    PROVE  q # r /\ pc'[q] = pc[q] /\ thrown'[q] = thrown[q] /\ pkg(q) \notin refused
<1> USE DEF IInv, TypeOK, Inside, InsidePCs, HasName, Finish, Goto
<1>1. q # r /\ pc'[q] = pc[q] /\ thrown'[q] = thrown[q]
  OBVIOUS
<1>2. ASSUME pkg(q) \in refused PROVE FALSE
  <2>1. Working(pkg(r)) = {r} /\ pkg(q) = pkg(r)
    BY <1>2
  <2>2. q \in Working(pkg(r))
    BY <2>1, <1>1 DEF Working
  <2> QED
    BY <1>1, <2>1, <2>2
<1> QED
  BY <1>1, <1>2

(* What the server deploys while q operates on an unmarked name is a late
   archive or q's own. *)
LEMMA ServerDeploysLateOrOwn ==
    ASSUME IInv, NEW p \in Packages, ServerDeploys(p),
           NEW q \in Requests, Inside(q), pkg(q) \notin refused
    PROVE  \/ deployed'[pkg(q)] = deployed[pkg(q)]
           \/ LeftBehind(pkg(q))'
           \/ /\ OwnDeployed(q)' /\ call[q].op = "upload"
              /\ pc[q] \in {"poll", "sleep", "finally"}
<1> USE DEF IInv, TypeOK
<1>1. PICK u \in pending[p] :
           /\ \/ UNCHANGED deployed
              \/ /\ u.content \in Archives
                 /\ deployed' = [deployed EXCEPT ![p] = u]
           /\ UNCHANGED <<call, locals, statics, history>>
  BY DEF ServerDeploys
<1>2. CASE deployed'[pkg(q)] = deployed[pkg(q)]
  BY <1>2
<1>3. CASE deployed'[pkg(q)] # deployed[pkg(q)]
  <2>1. pkg(q) = p /\ u.content \in Archives /\ deployed'[p] = u
    BY <1>1, <1>3, CallsTyped
  <2>2. u \in Upload /\ u.from \in Requests /\ u # NotDeployed
    BY <2>1, NamesAssumption DEF Upload, NotDeployed
  <2>3. CASE u.from \in late
    BY <1>1, <2>1, <2>2, <2>3 DEF LeftBehind
  <2>4. CASE u.from \notin late
    <3>1. /\ Inside(u.from) /\ pkg(u.from) = p /\ call[u.from].op = "upload"
          /\ pc[u.from] \in {"poll", "sleep", "finally"}
      BY <2>4 DEF PendingOwned, Inside, InsidePCs
    <3>2. u.from = q
      BY <2>1, <2>2, <3>1 DEF ExclusiveUnlessRefused
    <3>3. u.content = call[q].archive
      BY <2>1, <2>4, <3>2 DEF ContentOwned
    <3>4. u = [from |-> q, content |-> call[q].archive]
      BY <2>2, <3>2, <3>3 DEF Upload
    <3> QED
      BY <1>1, <2>1, <3>1, <3>2, <3>4 DEF OwnDeployed
  <2> QED
    BY <2>3, <2>4
<1> QED
  BY <1>2, <1>3

(* A step leads to a place that belongs to the handler of its operation. *)
LEMMA StepsOfHandlersStep == IInv /\ TypeOK' /\ [Next]_vars => StepsOfHandlers'
<1> SUFFICES ASSUME IInv, TypeOK', [Next]_vars PROVE StepsOfHandlers'
  OBVIOUS
<1> USE DEF IInv, TypeOK, Goto, Throw, BpsServiceException, StepsOfHandlers,
            UploadPCs, HasName
<1>1. ASSUME NEW r \in Requests, Receive(r) PROVE StepsOfHandlers'
  BY <1>1, CallsTyped DEF Receive
<1>2. ASSUME NEW r \in Requests, LockPackageName(r) PROVE StepsOfHandlers'
  BY <1>2, CallsTyped DEF LockPackageName
<1>3. ASSUME NEW r \in Requests, Query(r) PROVE StepsOfHandlers'
  BY <1>3, CallsTyped DEF Query
<1>4. ASSUME NEW r \in Requests, Deploy(r) PROVE StepsOfHandlers'
  BY <1>4, CallsTyped DEF Deploy
<1>5. ASSUME NEW r \in Requests, Undeploy(r) PROVE StepsOfHandlers'
  BY <1>5, CallsTyped DEF Undeploy
<1>6. ASSUME NEW r \in Requests,
             \/ Refuse(r) \/ BeginCopy(r) \/ EndCopy(r) \/ CopyFails(r)
             \/ SetTrustStoreWildcard(r) \/ SetTrustStoreJks(r)
      PROVE  StepsOfHandlers'
  BY <1>6, CallsTyped DEF Refuse, BeginCopy, EndCopy, CopyFails,
      SetTrustStoreWildcard, SetTrustStoreJks
<1>7. ASSUME NEW r \in Requests,
             \/ List(r) \/ Poll(r) \/ WakeUp(r) \/ Recheck(r)
             \/ Finish(r)
      PROVE  StepsOfHandlers'
  BY <1>7, CallsTyped DEF List, Poll, WakeUp, Recheck, Finish
<1>8. ASSUME NEW p \in Packages, ServerDeploys(p) PROVE StepsOfHandlers'
  BY <1>8 DEF ServerDeploys
<1>9. CASE UNCHANGED vars
  BY <1>9
<1> HIDE DEF IInv, TypeOK, Goto, Throw, BpsServiceException, StepsOfHandlers,
             UploadPCs, HasName
<1> QED
  BY <1>1, <1>2, <1>3, <1>4, <1>5, <1>6, <1>7, <1>8, <1>9 DEF Next, Handler, AllAnswered

(* Only the last request on a name takes the mark of its refusals away. *)
LEMMA RefusalsMarkedStep == IInv /\ TypeOK' /\ [Next]_vars => RefusalsMarked'
<1> SUFFICES ASSUME IInv, TypeOK', [Next]_vars PROVE RefusalsMarked'
  OBVIOUS
<1> USE DEF IInv, TypeOK, Goto, Throw, BpsServiceException, RefusalsMarked,
            StepsOfHandlers, UploadPCs, Working, InsidePCs, HasName
<1>1. ASSUME NEW r \in Requests, Refuse(r) PROVE RefusalsMarked'
  BY <1>1, CallsTyped DEF Refuse
<1>2. ASSUME NEW r \in Requests, Finish(r) PROVE RefusalsMarked'
  BY <1>2, CallsTyped DEF Finish
<1>3. ASSUME NEW r \in Requests,
             \/ Receive(r) \/ LockPackageName(r) \/ BeginCopy(r)
             \/ EndCopy(r) \/ CopyFails(r) \/ SetTrustStoreWildcard(r)
      PROVE  RefusalsMarked'
  BY <1>3, CallsTyped DEF Receive, LockPackageName, BeginCopy, EndCopy,
      CopyFails, SetTrustStoreWildcard
<1>4. ASSUME NEW r \in Requests,
             \/ SetTrustStoreJks(r) \/ Query(r) \/ List(r) \/ Deploy(r)
             \/ Poll(r) \/ WakeUp(r)
      PROVE  RefusalsMarked'
  BY <1>4, CallsTyped DEF SetTrustStoreJks, Query, List, Deploy, Poll, WakeUp
<1>5. ASSUME NEW r \in Requests,
             \/ Undeploy(r) \/ Recheck(r)
      PROVE  RefusalsMarked'
  BY <1>5, CallsTyped DEF Undeploy, Recheck
<1>6. ASSUME NEW p \in Packages, ServerDeploys(p) PROVE RefusalsMarked'
  BY <1>6 DEF ServerDeploys
<1>7. CASE UNCHANGED vars
  BY <1>7
<1> HIDE DEF IInv, TypeOK, Goto, Throw, BpsServiceException, RefusalsMarked,
             StepsOfHandlers, UploadPCs, Working, InsidePCs, HasName
<1> QED
  BY <1>1, <1>2, <1>3, <1>4, <1>5, <1>6, <1>7 DEF Next, Handler, AllAnswered

(* A name enters packageNameSet with a holder, and leaves it at the latest
   when that holder finishes. *)
LEMMA NoLockLeakStep == IInv /\ TypeOK' /\ [Next]_vars => NoLockLeak'
<1> SUFFICES ASSUME IInv, TypeOK', [Next]_vars PROVE NoLockLeak'
  OBVIOUS
<1> USE DEF IInv, TypeOK, Goto, Throw, BpsServiceException, NoLockLeak,
            StepsOfHandlers, UploadPCs, Inside, InsidePCs, HasName, Released
<1>1. ASSUME NEW r \in Requests, LockPackageName(r) PROVE NoLockLeak'
  BY <1>1, CallsTyped DEF LockPackageName
<1>2. ASSUME NEW r \in Requests, Finish(r) PROVE NoLockLeak'
  BY <1>2, CallsTyped DEF Finish
<1>3. ASSUME NEW r \in Requests,
             \/ Receive(r) \/ Refuse(r) \/ BeginCopy(r) \/ EndCopy(r)
             \/ CopyFails(r) \/ SetTrustStoreWildcard(r)
      PROVE  NoLockLeak'
  BY <1>3, CallsTyped DEF Receive, Refuse, BeginCopy, EndCopy, CopyFails,
      SetTrustStoreWildcard
<1>4. ASSUME NEW r \in Requests,
             \/ SetTrustStoreJks(r) \/ Query(r) \/ List(r) \/ Deploy(r)
             \/ Poll(r) \/ WakeUp(r)
      PROVE  NoLockLeak'
  BY <1>4, CallsTyped DEF SetTrustStoreJks, Query, List, Deploy, Poll, WakeUp
<1>5. ASSUME NEW r \in Requests,
             \/ Undeploy(r) \/ Recheck(r)
      PROVE  NoLockLeak'
  BY <1>5, CallsTyped DEF Undeploy, Recheck
<1>6. ASSUME NEW p \in Packages, ServerDeploys(p) PROVE NoLockLeak'
  BY <1>6 DEF ServerDeploys
<1>7. CASE UNCHANGED vars
  BY <1>7
<1> HIDE DEF IInv, TypeOK, Goto, Throw, BpsServiceException, NoLockLeak,
             StepsOfHandlers, UploadPCs, Inside, InsidePCs, HasName, Released
<1> QED
  BY <1>1, <1>2, <1>3, <1>4, <1>5, <1>6, <1>7 DEF Next, Handler, AllAnswered

(* Without a refusal the holder's own finally block is the only unlock. *)
LEMMA ExclusiveUnlessRefusedStep == IInv /\ TypeOK' /\ [Next]_vars => ExclusiveUnlessRefused'
<1> SUFFICES ASSUME IInv, TypeOK', [Next]_vars PROVE ExclusiveUnlessRefused'
  OBVIOUS
<1> USE DEF IInv, TypeOK, Goto, Throw, BpsServiceException,
            ExclusiveUnlessRefused, RefusalsMarked, Working, StepsOfHandlers,
            UploadPCs, Inside, InsidePCs, HasName, Released
<1>1. ASSUME NEW r \in Requests, LockPackageName(r) PROVE ExclusiveUnlessRefused'
  BY <1>1, CallsTyped DEF LockPackageName
<1>2. ASSUME NEW r \in Requests, Refuse(r) PROVE ExclusiveUnlessRefused'
  BY <1>2, CallsTyped DEF Refuse
<1>3. ASSUME NEW r \in Requests, Finish(r) PROVE ExclusiveUnlessRefused'
  BY <1>3, CallsTyped DEF Finish
<1>4. ASSUME NEW r \in Requests,
             \/ Receive(r) \/ BeginCopy(r) \/ EndCopy(r) \/ CopyFails(r)
             \/ SetTrustStoreWildcard(r) \/ SetTrustStoreJks(r)
      PROVE  ExclusiveUnlessRefused'
  BY <1>4, CallsTyped DEF Receive, BeginCopy, EndCopy, CopyFails,
      SetTrustStoreWildcard, SetTrustStoreJks
<1>5. ASSUME NEW r \in Requests,
             \/ Query(r) \/ List(r) \/ Deploy(r) \/ Poll(r) \/ WakeUp(r)
             \/ Undeploy(r)
      PROVE  ExclusiveUnlessRefused'
  BY <1>5, CallsTyped DEF Query, List, Deploy, Poll, WakeUp, Undeploy
<1>6. ASSUME NEW r \in Requests,
             \/ Recheck(r)
      PROVE  ExclusiveUnlessRefused'
  BY <1>6, CallsTyped DEF Recheck
<1>7. ASSUME NEW p \in Packages, ServerDeploys(p) PROVE ExclusiveUnlessRefused'
  BY <1>7 DEF ServerDeploys
<1>8. CASE UNCHANGED vars
  BY <1>8
<1> HIDE DEF IInv, TypeOK, Goto, Throw, BpsServiceException,
             ExclusiveUnlessRefused, RefusalsMarked, Working, StepsOfHandlers,
             UploadPCs, Inside, InsidePCs, HasName, Released
<1> QED
  BY <1>1, <1>2, <1>3, <1>4, <1>5, <1>6, <1>7, <1>8 DEF Next, Handler, AllAnswered

(* An answer given while the archive is pending is recorded in late. *)
LEMMA PendingOwnedStep == IInv /\ TypeOK' /\ [Next]_vars => PendingOwned'
<1> SUFFICES ASSUME IInv, TypeOK', [Next]_vars PROVE PendingOwned'
  OBVIOUS
<1> USE DEF IInv, TypeOK, Goto, Throw, BpsServiceException, PendingOwned,
            Accept, Upload, StepsOfHandlers, UploadPCs, Inside, InsidePCs,
            HasName
<1>1. ASSUME NEW r \in Requests, Deploy(r) PROVE PendingOwned'
  BY <1>1, CallsTyped DEF Deploy
<1>2. ASSUME NEW r \in Requests, Poll(r) PROVE PendingOwned'
  BY <1>2, CallsTyped DEF Poll
<1>3. ASSUME NEW r \in Requests, Finish(r) PROVE PendingOwned'
  BY <1>3, CallsTyped DEF Finish
<1>4. ASSUME NEW p \in Packages, ServerDeploys(p) PROVE PendingOwned'
  BY <1>4, NamesAssumption DEF ServerDeploys
<1>5. ASSUME NEW r \in Requests,
             \/ Receive(r) \/ LockPackageName(r) \/ Refuse(r)
             \/ BeginCopy(r) \/ EndCopy(r) \/ CopyFails(r)
      PROVE  PendingOwned'
  BY <1>5, CallsTyped DEF Receive, LockPackageName, Refuse, BeginCopy,
      EndCopy, CopyFails
<1>6. ASSUME NEW r \in Requests,
             \/ SetTrustStoreWildcard(r) \/ SetTrustStoreJks(r)
             \/ Query(r) \/ List(r) \/ WakeUp(r) \/ Undeploy(r)
      PROVE  PendingOwned'
  BY <1>6, CallsTyped DEF SetTrustStoreWildcard, SetTrustStoreJks, Query,
      List, WakeUp, Undeploy
<1>7. ASSUME NEW r \in Requests,
             \/ Recheck(r)
      PROVE  PendingOwned'
  BY <1>7, CallsTyped DEF Recheck
<1>8. CASE UNCHANGED vars
  BY <1>8
<1> HIDE DEF IInv, TypeOK, Goto, Throw, BpsServiceException, PendingOwned,
             Accept, Upload, StepsOfHandlers, UploadPCs, Inside, InsidePCs,
             HasName
<1> QED
  BY <1>1, <1>2, <1>3, <1>4, <1>5, <1>6, <1>7, <1>8 DEF Next, Handler, AllAnswered

(* The only copier of a file is its uploader. *)
LEMMA FileOwnedStep == IInv /\ TypeOK' /\ [Next]_vars => FileOwned'
<1> SUFFICES ASSUME IInv, TypeOK', [Next]_vars PROVE FileOwned'
  OBVIOUS
<1> USE DEF IInv, TypeOK, Goto, Throw, BpsServiceException, FileOwned,
            Copying, ExclusiveUnlessRefused, RefusalsMarked, Working,
            StepsOfHandlers, UploadPCs, Inside, InsidePCs, HasName
<1>1. ASSUME NEW r \in Requests, LockPackageName(r) PROVE FileOwned'
  BY <1>1, CallsTyped DEF LockPackageName
<1>2. ASSUME NEW r \in Requests, BeginCopy(r) PROVE FileOwned'
  BY <1>2, CallsTyped DEF BeginCopy
<1>3. ASSUME NEW r \in Requests, EndCopy(r) PROVE FileOwned'
  BY <1>3, CallsTyped DEF EndCopy
<1>4. ASSUME NEW r \in Requests, Finish(r) PROVE FileOwned'
  BY <1>4, CallsTyped DEF Finish
<1>5. ASSUME NEW r \in Requests,
             \/ Receive(r) \/ Refuse(r) \/ CopyFails(r)
             \/ SetTrustStoreWildcard(r) \/ SetTrustStoreJks(r)
             \/ Query(r)
      PROVE  FileOwned'
  BY <1>5, CallsTyped DEF Receive, Refuse, CopyFails, SetTrustStoreWildcard,
      SetTrustStoreJks, Query
<1>6. ASSUME NEW r \in Requests,
             \/ List(r) \/ Deploy(r) \/ Poll(r) \/ WakeUp(r)
             \/ Undeploy(r) \/ Recheck(r)
      PROVE  FileOwned'
  BY <1>6, CallsTyped DEF List, Deploy, Poll, WakeUp, Undeploy, Recheck
<1>7. ASSUME NEW p \in Packages, ServerDeploys(p) PROVE FileOwned'
  BY <1>7 DEF ServerDeploys
<1>8. CASE UNCHANGED vars
  BY <1>8
<1> HIDE DEF IInv, TypeOK, Goto, Throw, BpsServiceException, FileOwned,
             Copying, ExclusiveUnlessRefused, RefusalsMarked, Working,
             StepsOfHandlers, UploadPCs, Inside, InsidePCs, HasName
<1> QED
  BY <1>1, <1>2, <1>3, <1>4, <1>5, <1>6, <1>7, <1>8 DEF Next, Handler, AllAnswered

(* What is sent is the file on disk, which is the uploader's archive. *)
LEMMA ContentOwnedStep == IInv /\ TypeOK' /\ [Next]_vars => ContentOwned'
<1> SUFFICES ASSUME IInv, TypeOK', [Next]_vars PROVE ContentOwned'
  OBVIOUS
<1> USE DEF IInv, TypeOK, Goto, Throw, BpsServiceException, ContentOwned,
            PendingOwned, FileOwned, Accept, Upload, ExclusiveUnlessRefused,
            RefusalsMarked, Working, StepsOfHandlers, UploadPCs, Inside,
            InsidePCs, HasName
<1>1. ASSUME NEW r \in Requests, Deploy(r) PROVE ContentOwned'
  BY <1>1, CallsTyped DEF Deploy
<1>2. ASSUME NEW r \in Requests, Finish(r) PROVE ContentOwned'
  BY <1>2, CallsTyped DEF Finish
<1>3. ASSUME NEW p \in Packages, ServerDeploys(p) PROVE ContentOwned'
  BY <1>3, NamesAssumption DEF ServerDeploys
<1>4. ASSUME NEW r \in Requests,
             \/ Receive(r) \/ LockPackageName(r) \/ Refuse(r)
             \/ BeginCopy(r) \/ EndCopy(r) \/ CopyFails(r)
      PROVE  ContentOwned'
  BY <1>4, CallsTyped DEF Receive, LockPackageName, Refuse, BeginCopy,
      EndCopy, CopyFails
<1>5. ASSUME NEW r \in Requests,
             \/ SetTrustStoreWildcard(r) \/ SetTrustStoreJks(r)
             \/ Query(r) \/ List(r) \/ Poll(r) \/ WakeUp(r)
      PROVE  ContentOwned'
  BY <1>5, CallsTyped DEF SetTrustStoreWildcard, SetTrustStoreJks, Query,
      List, Poll, WakeUp
<1>6. ASSUME NEW r \in Requests,
             \/ Undeploy(r) \/ Recheck(r)
      PROVE  ContentOwned'
  BY <1>6, CallsTyped DEF Undeploy, Recheck
<1>7. CASE UNCHANGED vars
  BY <1>7
<1> HIDE DEF IInv, TypeOK, Goto, Throw, BpsServiceException, ContentOwned,
             PendingOwned, FileOwned, Accept, Upload, ExclusiveUnlessRefused,
             RefusalsMarked, Working, StepsOfHandlers, UploadPCs, Inside,
             InsidePCs, HasName
<1> QED
  BY <1>1, <1>2, <1>3, <1>4, <1>5, <1>6, <1>7 DEF Next, Handler, AllAnswered

(* What a step of one request does to a request q that operates on an unmarked
   name: the name was unmarked before, another request leaves q where it is,
   and the name of q loses its package only when that request undeploys it. *)
LEMMA StepSeenBy ==
    ASSUME IInv, NEW r \in Requests, Receive(r) \/ Handler(r),
           NEW q \in Requests, Inside(q)', pkg(q)' \notin refused'
    PROVE  /\ call' = call /\ pkg(q) \notin refused
           /\ q # r => pc'[q] = pc[q] /\ thrown'[q] = thrown[q]
           /\ late \subseteq late'
           /\ \/ deployed'[pkg(q)] = deployed[pkg(q)]
              \/ /\ pc[r] = "undeploy" /\ pkg(r) = pkg(q)
                 /\ deployed'[pkg(q)] = NotDeployed
<1>1. TypeOK
  BY DEF IInv
<1>2. ASSUME Finish(r)
      PROVE  /\ call' = call /\ deployed' = deployed /\ late \subseteq late'
             /\ pkg(q) \notin refused
             /\ pc'[q] = pc[q] /\ thrown'[q] = thrown[q]
  <2>1. call' = call /\ deployed' = deployed /\ late \subseteq late'
    BY <1>2 DEF Finish
  <2> QED
    BY <1>2, <2>1, FinishLeaves
<1>3. ASSUME Undeploy(r)
      PROVE  /\ call' = call /\ late' = late /\ refused' = refused
             /\ pc[r] = "undeploy"
             /\ q # r => pc'[q] = pc[q] /\ thrown'[q] = thrown[q]
             /\ \/ deployed' = deployed
                \/ deployed' = [deployed EXCEPT ![pkg(r)] = NotDeployed]
  BY <1>1, <1>3 DEF Undeploy, Goto, Throw, TypeOK
<1>4. ASSUME \/ Receive(r) \/ LockPackageName(r) \/ Refuse(r)
             \/ BeginCopy(r) \/ EndCopy(r) \/ CopyFails(r)
      PROVE  /\ call' = call /\ late' = late /\ refused \subseteq refused'
             /\ deployed' = deployed
             /\ q # r => pc'[q] = pc[q] /\ thrown'[q] = thrown[q]
  BY <1>1, <1>4 DEF Receive, LockPackageName, Refuse, BeginCopy, EndCopy,
     CopyFails, Goto, Throw, TypeOK
<1>5. ASSUME \/ SetTrustStoreWildcard(r) \/ SetTrustStoreJks(r)
             \/ Query(r) \/ List(r) \/ Deploy(r)
      PROVE  /\ call' = call /\ late' = late /\ refused' = refused
             /\ deployed' = deployed
             /\ q # r => pc'[q] = pc[q] /\ thrown'[q] = thrown[q]
  BY <1>1, <1>5 DEF SetTrustStoreWildcard, SetTrustStoreJks, Query, List,
     Deploy, Goto, Throw, BpsServiceException, TypeOK
<1>6. ASSUME Poll(r) \/ WakeUp(r) \/ Recheck(r)
      PROVE  /\ call' = call /\ late' = late /\ refused' = refused
             /\ deployed' = deployed
             /\ q # r => pc'[q] = pc[q] /\ thrown'[q] = thrown[q]
  BY <1>1, <1>6 DEF Poll, WakeUp, Recheck, Goto, Throw, BpsServiceException,
     TypeOK
<1>7. CASE Undeploy(r)
  <2>1. pkg(q) \in Packages /\ pkg(r) \in Packages /\ pkg(q)' = pkg(q)
    BY <1>1, <1>3, <1>7, CallsTyped
  <2> QED
    BY <1>1, <1>3, <1>7, <2>1 DEF TypeOK
<1> QED
  BY <1>2, <1>4, <1>5, <1>6, <1>7 DEF Handler

(* What the step of a request itself saw when it goes on to send the archive,
   to wait for it, or to the finally block without an exception. *)
LEMMA StepSaw ==
    ASSUME TypeOK, StepsOfHandlers, NEW r \in Requests, Receive(r) \/ Handler(r)
    PROVE  /\ pc'[r] = "deploy" => deployed[pkg(r)] = NotDeployed
           /\ pc'[r] \in {"poll", "sleep"} => pc[r] \in {"deploy", "poll", "sleep"}
           /\ pc'[r] = "finally" /\ thrown'[r] = NoThrow =>
                \/ call[r].op = "list"
                \/ /\ call[r].op = "upload" /\ pc[r] = "poll"
                   /\ deployed[pkg(r)] # NotDeployed
                \/ call[r].op = "delete" /\ deployed[pkg(r)] = NotDeployed
<1> USE DEF Goto, Throw, BpsServiceException, TypeOK, NoThrow
<1>1. CASE \/ Receive(r) \/ LockPackageName(r) \/ Refuse(r)
           \/ BeginCopy(r) \/ EndCopy(r) \/ CopyFails(r)
  BY <1>1 DEF Receive, LockPackageName, Refuse, BeginCopy, EndCopy, CopyFails
<1>2. CASE \/ SetTrustStoreWildcard(r) \/ SetTrustStoreJks(r)
           \/ List(r) \/ Deploy(r) \/ WakeUp(r)
  BY <1>2 DEF SetTrustStoreWildcard, SetTrustStoreJks, List, CallFaults, Deploy, WakeUp
<1>3. CASE Query(r)
  BY <1>3 DEF Query, DeployedPackageInfo, CallFaults
<1>4. CASE Poll(r)
  <2>1. call[r].op = "upload"
    BY <1>4 DEF Poll, StepsOfHandlers, UploadPCs
  <2> QED
    BY <1>4, <2>1 DEF Poll, DeployedPackageInfo, CallFaults
<1>5. CASE Recheck(r)
  <2>1. call[r].op = "delete"
    BY <1>5 DEF Recheck, StepsOfHandlers
  <2> QED
    BY <1>5, <2>1 DEF Recheck, DeployedPackageInfo, CallFaults
<1>6. CASE Undeploy(r)
  BY <1>6 DEF Undeploy
<1>7. CASE Finish(r)
  BY <1>7 DEF Finish
<1> QED
  BY <1>1, <1>2, <1>3, <1>4, <1>5, <1>6, <1>7 DEF Handler

(* An archive left behind stays one as long as it is deployed. *)
LEMMA LeftBehindStays ==
    ASSUME NEW p \in Packages, LeftBehind(p), deployed'[p] = deployed[p],
           late \subseteq late'
    PROVE  LeftBehind(p)'
  BY DEF LeftBehind

(* While an upload waits, only its archive or a late one gets deployed. *)
LEMMA WaitingOwnedStep == IInv /\ TypeOK' /\ [Next]_vars => WaitingOwned'
<1> SUFFICES ASSUME IInv, TypeOK', [Next]_vars,
                    NEW q \in Requests, pc'[q] \in {"poll", "sleep"}, pkg(q)' \notin refused'
             PROVE  (deployed[pkg(q)] = NotDeployed \/ OwnDeployed(q) \/ LeftBehind(pkg(q)))'
  BY DEF WaitingOwned
<1>1. TypeOK /\ StepsOfHandlers /\ WaitingOwned /\ DuplicateCheckHolds
  BY DEF IInv
<1>2. Inside(q)'
  <2>1. TypeOK' /\ StepsOfHandlers'
    BY StepsOfHandlersStep
  <2> QED
    BY <2>1 DEF StepsOfHandlers, UploadPCs, Inside, InsidePCs
<1>3. ASSUME NEW r \in Requests, Receive(r) \/ Handler(r)
      PROVE  (deployed[pkg(q)] = NotDeployed \/ OwnDeployed(q) \/ LeftBehind(pkg(q)))'
  <2>1. /\ call' = call /\ pkg(q) \notin refused
        /\ q # r => pc'[q] = pc[q] /\ thrown'[q] = thrown[q]
        /\ late \subseteq late'
        /\ \/ deployed'[pkg(q)] = deployed[pkg(q)]
           \/ /\ pc[r] = "undeploy" /\ pkg(r) = pkg(q)
              /\ deployed'[pkg(q)] = NotDeployed
    BY <1>2, <1>3, StepSeenBy
  <2>2. pkg(q) \in Packages
    BY <1>1, CallsTyped
  <2>3. CASE pc[q] \in {"poll", "sleep"}
    <3>1. deployed[pkg(q)] = NotDeployed \/ OwnDeployed(q) \/ LeftBehind(pkg(q))
      BY <1>1, <2>1, <2>3 DEF WaitingOwned
    <3> QED
      BY <2>1, <2>2, <3>1, LeftBehindStays DEF OwnDeployed
  <2>4. CASE pc[q] \notin {"poll", "sleep"}
    <3>1. q = r
      BY <2>1, <2>4
    <3>2. pc[q] = "deploy"
      BY <1>1, <1>3, <2>4, <3>1, StepSaw
    <3>3. deployed[pkg(q)] = NotDeployed \/ LeftBehind(pkg(q))
      BY <1>1, <2>1, <3>2 DEF DuplicateCheckHolds
    <3> QED
      BY <2>1, <2>2, <3>3, LeftBehindStays
  <2> QED
    BY <2>3, <2>4
<1>4. ASSUME NEW p \in Packages, ServerDeploys(p)
      PROVE  (deployed[pkg(q)] = NotDeployed \/ OwnDeployed(q) \/ LeftBehind(pkg(q)))'
  <2>1. UNCHANGED <<call, locals, statics, history>>
    BY <1>4 DEF ServerDeploys
  <2>2. pc[q] \in {"poll", "sleep"} /\ Inside(q) /\ pkg(q) \notin refused
    BY <1>2, <2>1 DEF Inside, HasName
  <2>3. \/ deployed'[pkg(q)] = deployed[pkg(q)]
        \/ LeftBehind(pkg(q))'
        \/ /\ OwnDeployed(q)' /\ call[q].op = "upload"
           /\ pc[q] \in {"poll", "sleep", "finally"}
    BY <1>4, <2>2, ServerDeploysLateOrOwn
  <2>4. pkg(q) \in Packages
    BY <1>1, CallsTyped
  <2>5. deployed[pkg(q)] = NotDeployed \/ OwnDeployed(q) \/ LeftBehind(pkg(q))
    BY <1>1, <2>2 DEF WaitingOwned
  <2> QED
    BY <2>1, <2>3, <2>4, <2>5, LeftBehindStays DEF OwnDeployed
<1>5. CASE UNCHANGED vars
  <2>1. pc[q] \in {"poll", "sleep"} /\ pkg(q) \notin refused
    BY <1>5
  <2> QED
    BY <1>1, <1>5, <2>1 DEF WaitingOwned, LeftBehind, OwnDeployed
<1> QED
  BY <1>3, <1>4, <1>5 DEF Next, AllAnswered

(* Nothing but a late archive is deployed after the check. *)
LEMMA DuplicateCheckHoldsStep == IInv /\ TypeOK' /\ [Next]_vars => DuplicateCheckHolds'
<1> SUFFICES ASSUME IInv, TypeOK', [Next]_vars,
                    NEW q \in Requests, pc'[q] = "deploy", pkg(q)' \notin refused'
             PROVE  (deployed[pkg(q)] = NotDeployed \/ LeftBehind(pkg(q)))'
  BY DEF DuplicateCheckHolds
<1>1. TypeOK /\ StepsOfHandlers /\ DuplicateCheckHolds
  BY DEF IInv
<1>2. Inside(q)'
  <2>1. TypeOK' /\ StepsOfHandlers'
    BY StepsOfHandlersStep
  <2> QED
    BY <2>1 DEF StepsOfHandlers, UploadPCs, Inside, InsidePCs
<1>3. ASSUME NEW r \in Requests, Receive(r) \/ Handler(r)
      PROVE  (deployed[pkg(q)] = NotDeployed \/ LeftBehind(pkg(q)))'
  <2>1. /\ call' = call /\ pkg(q) \notin refused
        /\ q # r => pc'[q] = pc[q] /\ thrown'[q] = thrown[q]
        /\ late \subseteq late'
        /\ \/ deployed'[pkg(q)] = deployed[pkg(q)]
           \/ /\ pc[r] = "undeploy" /\ pkg(r) = pkg(q)
              /\ deployed'[pkg(q)] = NotDeployed
    BY <1>2, <1>3, StepSeenBy
  <2>2. pkg(q) \in Packages
    BY <1>1, CallsTyped
  <2>3. CASE q = r
    <3>1. deployed[pkg(q)] = NotDeployed
      BY <1>1, <1>3, <2>3, StepSaw
    <3> QED
      BY <2>1, <3>1
  <2>4. CASE q # r
    <3>1. deployed[pkg(q)] = NotDeployed \/ LeftBehind(pkg(q))
      BY <1>1, <2>1, <2>4 DEF DuplicateCheckHolds
    <3> QED
      BY <2>1, <2>2, <3>1, LeftBehindStays
  <2> QED
    BY <2>3, <2>4
<1>4. ASSUME NEW p \in Packages, ServerDeploys(p)
      PROVE  (deployed[pkg(q)] = NotDeployed \/ LeftBehind(pkg(q)))'
  <2>1. UNCHANGED <<call, locals, statics, history>>
    BY <1>4 DEF ServerDeploys
  <2>2. pc[q] = "deploy" /\ Inside(q) /\ pkg(q) \notin refused
    BY <1>2, <2>1 DEF Inside, HasName
  <2>3. \/ deployed'[pkg(q)] = deployed[pkg(q)]
        \/ LeftBehind(pkg(q))'
        \/ /\ OwnDeployed(q)' /\ call[q].op = "upload"
           /\ pc[q] \in {"poll", "sleep", "finally"}
    BY <1>4, <2>2, ServerDeploysLateOrOwn
  <2>4. pkg(q) \in Packages
    BY <1>1, CallsTyped
  <2>5. deployed[pkg(q)] = NotDeployed \/ LeftBehind(pkg(q))
    BY <1>1, <2>2 DEF DuplicateCheckHolds
  <2> QED
    BY <2>1, <2>2, <2>3, <2>4, <2>5, LeftBehindStays
<1>5. CASE UNCHANGED vars
  <2>1. pc[q] = "deploy" /\ pkg(q) \notin refused
    BY <1>5
  <2> QED
    BY <1>1, <1>5, <2>1 DEF DuplicateCheckHolds, LeftBehind
<1> QED
  BY <1>3, <1>4, <1>5 DEF Next, AllAnswered

(* The poll that ends the wait saw the upload's own archive, or a late one. *)
LEMMA UploadAnswerHoldsStep == IInv /\ TypeOK' /\ [Next]_vars => UploadAnswerHolds'
<1> SUFFICES ASSUME IInv, TypeOK', [Next]_vars,
                    NEW q \in Requests, Succeeding(q, "upload")', pkg(q)' \notin refused'
             PROVE  (OwnDeployed(q) \/ LeftBehind(pkg(q)))'
  BY DEF UploadAnswerHolds
<1>1. TypeOK /\ StepsOfHandlers /\ WaitingOwned /\ UploadAnswerHolds
     /\ ExclusiveUnlessRefused
  BY DEF IInv
<1>2. Inside(q)'
  BY DEF Succeeding, Inside, InsidePCs
<1>3. ASSUME NEW r \in Requests, Receive(r) \/ Handler(r)
      PROVE  (OwnDeployed(q) \/ LeftBehind(pkg(q)))'
  <2>1. /\ call' = call /\ pkg(q) \notin refused
        /\ q # r => pc'[q] = pc[q] /\ thrown'[q] = thrown[q]
        /\ late \subseteq late'
        /\ \/ deployed'[pkg(q)] = deployed[pkg(q)]
           \/ /\ pc[r] = "undeploy" /\ pkg(r) = pkg(q)
              /\ deployed'[pkg(q)] = NotDeployed
    BY <1>2, <1>3, StepSeenBy
  <2>2. pkg(q) \in Packages
    BY <1>1, CallsTyped
  <2>3. CASE q = r
    <3>1. /\ call[q].op = "upload" /\ pc'[q] = "finally" /\ thrown'[q] = NoThrow
      BY <2>1 DEF Succeeding
    <3>2. pc[q] = "poll" /\ deployed[pkg(q)] # NotDeployed
      BY <1>1, <1>3, <2>3, <3>1, StepSaw
    <3>3. OwnDeployed(q) \/ LeftBehind(pkg(q))
      BY <1>1, <2>1, <3>2 DEF WaitingOwned
    <3> QED
      BY <2>1, <2>2, <2>3, <3>2, <3>3, LeftBehindStays DEF OwnDeployed
  <2>4. CASE q # r
    <3>1. Succeeding(q, "upload") /\ Inside(q)
      BY <2>1, <2>4 DEF Succeeding, HasName, Inside, InsidePCs
    <3>2. OwnDeployed(q) \/ LeftBehind(pkg(q))
      BY <1>1, <2>1, <3>1 DEF UploadAnswerHolds
    <3>3. pc[r] # "undeploy" \/ pkg(r) # pkg(q)
      <4> SUFFICES ASSUME pc[r] = "undeploy", pkg(r) = pkg(q) PROVE FALSE
        OBVIOUS
      <4>1. Inside(r)
        BY <1>1 DEF StepsOfHandlers, Inside, InsidePCs, HasName
      <4> QED
        BY <1>1, <2>1, <2>2, <2>4, <3>1, <4>1 DEF ExclusiveUnlessRefused
    <3> QED
      BY <2>1, <2>2, <3>2, <3>3, LeftBehindStays DEF OwnDeployed
  <2> QED
    BY <2>3, <2>4
<1>4. ASSUME NEW p \in Packages, ServerDeploys(p)
      PROVE  (OwnDeployed(q) \/ LeftBehind(pkg(q)))'
  <2>1. UNCHANGED <<call, locals, statics, history>>
    BY <1>4 DEF ServerDeploys
  <2>2. Succeeding(q, "upload") /\ Inside(q) /\ pkg(q) \notin refused
    BY <1>2, <2>1 DEF Inside, HasName, Succeeding
  <2>3. \/ deployed'[pkg(q)] = deployed[pkg(q)]
        \/ LeftBehind(pkg(q))'
        \/ /\ OwnDeployed(q)' /\ call[q].op = "upload"
           /\ pc[q] \in {"poll", "sleep", "finally"}
    BY <1>4, <2>2, ServerDeploysLateOrOwn
  <2>4. pkg(q) \in Packages
    BY <1>1, CallsTyped
  <2>5. OwnDeployed(q) \/ LeftBehind(pkg(q))
    BY <1>1, <2>2 DEF UploadAnswerHolds
  <2> QED
    BY <2>1, <2>3, <2>4, <2>5, LeftBehindStays DEF OwnDeployed
<1>5. CASE UNCHANGED vars
  <2>1. Succeeding(q, "upload") /\ pkg(q) \notin refused
    BY <1>5 DEF Succeeding, HasName
  <2> QED
    BY <1>1, <1>5, <2>1 DEF UploadAnswerHolds, LeftBehind, OwnDeployed
<1> QED
  BY <1>3, <1>4, <1>5 DEF Next, AllAnswered

(* The second look saw nothing, and only a late archive comes back. *)
LEMMA DeleteAnswerHoldsStep == IInv /\ TypeOK' /\ [Next]_vars => DeleteAnswerHolds'
<1> SUFFICES ASSUME IInv, TypeOK', [Next]_vars,
                    NEW q \in Requests, Succeeding(q, "delete")', pkg(q)' \notin refused'
             PROVE  (deployed[pkg(q)] = NotDeployed \/ LeftBehind(pkg(q)))'
  BY DEF DeleteAnswerHolds
<1>1. TypeOK /\ StepsOfHandlers /\ DeleteAnswerHolds
  BY DEF IInv
<1>2. Inside(q)'
  BY DEF Succeeding, Inside, InsidePCs
<1>3. ASSUME NEW r \in Requests, Receive(r) \/ Handler(r)
      PROVE  (deployed[pkg(q)] = NotDeployed \/ LeftBehind(pkg(q)))'
  <2>1. /\ call' = call /\ pkg(q) \notin refused
        /\ q # r => pc'[q] = pc[q] /\ thrown'[q] = thrown[q]
        /\ late \subseteq late'
        /\ \/ deployed'[pkg(q)] = deployed[pkg(q)]
           \/ /\ pc[r] = "undeploy" /\ pkg(r) = pkg(q)
              /\ deployed'[pkg(q)] = NotDeployed
    BY <1>2, <1>3, StepSeenBy
  <2>2. pkg(q) \in Packages
    BY <1>1, CallsTyped
  <2>3. CASE q = r
    <3>1. /\ call[q].op = "delete" /\ pc'[q] = "finally" /\ thrown'[q] = NoThrow
      BY <2>1 DEF Succeeding
    <3>2. deployed[pkg(q)] = NotDeployed
      BY <1>1, <1>3, <2>3, <3>1, StepSaw
    <3> QED
      BY <2>1, <3>2
  <2>4. CASE q # r
    <3>1. Succeeding(q, "delete")
      BY <2>1, <2>4 DEF Succeeding, HasName
    <3>2. deployed[pkg(q)] = NotDeployed \/ LeftBehind(pkg(q))
      BY <1>1, <2>1, <3>1 DEF DeleteAnswerHolds
    <3> QED
      BY <2>1, <2>2, <3>2, LeftBehindStays
  <2> QED
    BY <2>3, <2>4
<1>4. ASSUME NEW p \in Packages, ServerDeploys(p)
      PROVE  (deployed[pkg(q)] = NotDeployed \/ LeftBehind(pkg(q)))'
  <2>1. UNCHANGED <<call, locals, statics, history>>
    BY <1>4 DEF ServerDeploys
  <2>2. Succeeding(q, "delete") /\ Inside(q) /\ pkg(q) \notin refused
    BY <1>2, <2>1 DEF Inside, HasName, Succeeding
  <2>3. \/ deployed'[pkg(q)] = deployed[pkg(q)]
        \/ LeftBehind(pkg(q))'
        \/ /\ OwnDeployed(q)' /\ call[q].op = "upload"
           /\ pc[q] \in {"poll", "sleep", "finally"}
    BY <1>4, <2>2, ServerDeploysLateOrOwn
  <2>4. pkg(q) \in Packages
    BY <1>1, CallsTyped
  <2>5. deployed[pkg(q)] = NotDeployed \/ LeftBehind(pkg(q))
    BY <1>1, <2>2 DEF DeleteAnswerHolds
  <2>6. call[q].op = "delete"
    BY <2>2 DEF Succeeding
  <2> QED
    BY <2>1, <2>3, <2>4, <2>5, <2>6, LeftBehindStays
<1>5. CASE UNCHANGED vars
  <2>1. Succeeding(q, "delete") /\ pkg(q) \notin refused
    BY <1>5 DEF Succeeding, HasName
  <2> QED
    BY <1>1, <1>5, <2>1 DEF DeleteAnswerHolds, LeftBehind
<1> QED
  BY <1>3, <1>4, <1>5 DEF Next, AllAnswered

(* IInv holds in every execution. *)
THEOREM SafetyInvariant == Spec => []IInv
<1>1. IInv /\ [Next]_vars => IInv'
  BY TypeStep, StepsOfHandlersStep, RefusalsMarkedStep, NoLockLeakStep,
     ExclusiveUnlessRefusedStep, PendingOwnedStep, FileOwnedStep,
     ContentOwnedStep, WaitingOwnedStep, DuplicateCheckHoldsStep,
     UploadAnswerHoldsStep, DeleteAnswerHoldsStep
  DEF IInv
<1> QED
  BY <1>1, SafetyInit, PTL DEF Spec

(* No error path leaks the lock of a package name. *)
THEOREM NoLockLeakTheorem == Spec => []NoLockLeak
  BY SafetyInvariant, PTL DEF IInv

(* Until a request is refused on a name, at most one operates on it. *)
THEOREM ExclusionTheorem == Spec => []ExclusiveUnlessRefused
  BY SafetyInvariant, PTL DEF IInv

(* The duplicate check still holds when the archive is sent. *)
THEOREM DuplicateCheckTheorem == Spec => []DuplicateCheckHolds
  BY SafetyInvariant, PTL DEF IInv

(* A successful upload has its own archive deployed, up to what an earlier
   upload left behind. *)
THEOREM UploadAnswerTheorem == Spec => []UploadAnswerHolds
  BY SafetyInvariant, PTL DEF IInv

(* A successful delete leaves nothing deployed, up to the same. *)
THEOREM DeleteAnswerTheorem == Spec => []DeleteAnswerHolds
  BY SafetyInvariant, PTL DEF IInv

(* The success answers of uploads and deletes are true of WSO2. *)
THEOREM AnswersHoldTheorem == Spec => []AnswersHold
  BY UploadAnswerTheorem, DeleteAnswerTheorem, PTL DEF AnswersHold

-----------------------------------------------------------------------------
(* The promise of one request, and the trust store property.               *)

(* The place of a handler tells whether its changing call was made. *)
LEMMA CallsIssuedStep ==
    TypeOK /\ StepsOfHandlers /\ CallsIssued /\ [Next]_vars => CallsIssued'
<1> SUFFICES ASSUME TypeOK, StepsOfHandlers, CallsIssued, [Next]_vars
             PROVE  CallsIssued'
  OBVIOUS
<1> USE DEF TypeOK, StepsOfHandlers, UploadPCs, HasName, CallsIssued, NoThrow,
            Goto, Throw, BpsServiceException, CallFaults
<1>1. ASSUME NEW r \in Requests, Receive(r) \/ LockPackageName(r) \/ Refuse(r)
      PROVE  CallsIssued'
  BY <1>1, CallsTyped DEF Receive, LockPackageName, Refuse
<1>2. ASSUME NEW r \in Requests, BeginCopy(r) \/ EndCopy(r) \/ CopyFails(r)
      PROVE  CallsIssued'
  BY <1>2, CallsTyped DEF BeginCopy, EndCopy, CopyFails
<1>3. ASSUME NEW r \in Requests, SetTrustStoreWildcard(r) \/ SetTrustStoreJks(r)
      PROVE  CallsIssued'
  BY <1>3, CallsTyped DEF SetTrustStoreWildcard, SetTrustStoreJks
<1>4. ASSUME NEW r \in Requests, Query(r) \/ List(r) PROVE CallsIssued'
  BY <1>4, CallsTyped DEF Query, List
<1>5. ASSUME NEW r \in Requests, Deploy(r) PROVE CallsIssued'
  BY <1>5, CallsTyped DEF Deploy
<1>6. ASSUME NEW r \in Requests, Poll(r) \/ WakeUp(r) PROVE CallsIssued'
  BY <1>6, CallsTyped DEF Poll, WakeUp
<1>7. ASSUME NEW r \in Requests, Undeploy(r) PROVE CallsIssued'
  BY <1>7, CallsTyped DEF Undeploy
<1>8. ASSUME NEW r \in Requests, Recheck(r) PROVE CallsIssued'
  BY <1>8, CallsTyped DEF Recheck
<1>9. ASSUME NEW r \in Requests, Finish(r) PROVE CallsIssued'
  BY <1>9, CallsTyped DEF Finish
<1>10. ASSUME NEW p \in Packages, ServerDeploys(p) PROVE CallsIssued'
  BY <1>10 DEF ServerDeploys
<1>11. CASE UNCHANGED vars
  BY <1>11
<1> HIDE DEF TypeOK, StepsOfHandlers, CallsIssued
<1> QED
  BY <1>1, <1>2, <1>3, <1>4, <1>5, <1>6, <1>7, <1>8, <1>9, <1>10, <1>11
  DEF Next, Handler, AllAnswered

(* Two functions that agree up to one argument. *)
LEMMA UpdateOne ==
    ASSUME NEW S, NEW f, NEW g, NEW r \in S, NEW v,
           f = [x \in S |-> f[x]], g = [x \in S |-> g[x]],
           \A q \in S : g[q] = IF q = r THEN v ELSE f[q]
    PROVE  g = [f EXCEPT ![r] = v]
  OBVIOUS

(* The answer given by Finish is honest. *)
LEMMA FinishHonest ==
    ASSUME TypeOK, CallsIssued, NEW r \in Requests, pc[r] \in {"finally", "refused"}
    PROVE  /\ CaughtCode(r) \in {0} \cup Promise!Untouched \cup Promise!Touched
                                    \cup Promise!Unknown
           /\ Promise!Honest(r, CaughtCode(r))
<1> USE DEF Promise!Honest, Promise!Untouched, Promise!Touched, Promise!Unknown,
            CallsIssued
<1>1. thrown[r] \in Throwns
  BY DEF TypeOK
<1>2. CASE thrown[r] = NoThrow
  <2>1. CaughtCode(r) = 0 /\ pc[r] = "finally"
    BY <1>2 DEF CaughtCode, NoThrow
  <2>2. kind[r] = "list" \/ r \in issued
    BY <1>2, <2>1 DEF kind
  <2> QED
    BY <2>1, <2>2
<1>3. CASE thrown[r] \in [ex : CallFaults, code : {0}]
  <2>1. CaughtCode(r) \in {20001, 20002, 20003}
    BY <1>3 DEF CaughtCode, CallFaults
  <2> QED
    BY <2>1
<1>4. CASE thrown[r] \in [ex : {"BpsServiceException"}, code : 10003..10006]
  <2>1. CaughtCode(r) = thrown[r].code /\ pc[r] = "finally"
    BY <1>4 DEF CaughtCode
  <2> QED
    BY <1>4, <2>1
<1> QED
  BY <1>1, <1>2, <1>3, <1>4 DEF Throwns

(* The handlers implement PackagePromise: one answer, at most one changing
   call, never after the answer, and an answer that is honest about it. *)
THEOREM PromiseKept == Spec => PromiseSpec
<1> USE DEF phase, kind, answer
<1>1. Init => Promise!Init
  BY CallsAssumption DEF Init, Promise!Init, CallType
<1>2. IInv /\ CallsIssued /\ [Next]_vars
        => [Promise!Next]_(Promise!vars)
  <2> SUFFICES ASSUME TypeOK, StepsOfHandlers, CallsIssued, [Next]_vars
               PROVE  [Promise!Next]_(Promise!vars)
    BY DEF IInv
  <2> USE DEF TypeOK, StepsOfHandlers, UploadPCs, Goto, Throw,
              BpsServiceException, Promise!vars
  <2>1. ASSUME NEW r \in Requests, Receive(r) PROVE Promise!Open(r)
    <3>1. /\ pc[r] = "idle" /\ pc'[r] \in {"lock", "wildcard", "finally"}
          /\ pc' = [pc EXCEPT ![r] = pc'[r]] /\ call' = call
      BY <2>1 DEF Receive
    <3>2. /\ phase[r] = "waiting"
          /\ \A q \in Requests : phase'[q] = IF q = r THEN "open" ELSE phase[q]
      BY <3>1
    <3>3. answer' = answer
      BY <2>1, <3>1 DEF Receive
    <3>4. UNCHANGED <<kind, issued>>
      BY <2>1 DEF Receive
    <3>5. phase = [x \in Requests |-> phase[x]] /\ phase' = [x \in Requests |-> phase'[x]]
      OBVIOUS
    <3> HIDE DEF phase, kind, answer, TypeOK
    <3>6. phase' = [phase EXCEPT ![r] = "open"]
      BY <3>2, <3>5, UpdateOne
    <3> QED
      BY <3>2, <3>3, <3>4, <3>6 DEF Promise!Open
  <2>2. ASSUME NEW r \in Requests, Deploy(r) \/ Undeploy(r) PROVE Promise!Issue(r)
    <3>1. /\ pc[r] \in {"deploy", "undeploy"} /\ r \notin issued
          /\ call[r].op # "list" /\ issued' = issued \cup {r}
      BY <2>2 DEF Deploy, Undeploy, CallsIssued
    <3>2. /\ pc'[r] \in {"poll", "recheck", "finally"}
          /\ pc' = [pc EXCEPT ![r] = pc'[r]] /\ UNCHANGED <<call, errorCode>>
      BY <2>2 DEF Deploy, Undeploy
    <3>3. UNCHANGED <<phase, kind, answer>> /\ phase[r] = "open"
      BY <3>1, <3>2
    <3> QED
      BY <3>1, <3>3 DEF Promise!Issue
  <2>3. ASSUME NEW r \in Requests, Finish(r) PROVE Promise!Answer(r)
    <3>1. phase[r] = "open" /\ UNCHANGED <<kind, issued>>
      BY <2>3 DEF Finish
    <3>2. \A q \in Requests :
             /\ phase'[q] = IF q = r THEN "answered" ELSE phase[q]
             /\ answer'[q] = IF q = r THEN CaughtCode(r) ELSE answer[q]
      BY <2>3 DEF Finish
    <3>3. /\ phase = [x \in Requests |-> phase[x]]
          /\ phase' = [x \in Requests |-> phase'[x]]
          /\ answer = [x \in Requests |-> answer[x]]
          /\ answer' = [x \in Requests |-> answer'[x]]
      OBVIOUS
    <3>4. pc[r] \in {"finally", "refused"}
      BY <2>3 DEF Finish
    <3> HIDE DEF phase, kind, answer, TypeOK
    <3>5. /\ phase' = [phase EXCEPT ![r] = "answered"]
          /\ answer' = [answer EXCEPT ![r] = CaughtCode(r)]
      BY <3>2, <3>3, UpdateOne
    <3> QED
      BY <3>1, <3>4, <3>5, FinishHonest DEF Promise!Answer
  <2>4. ASSUME NEW r \in Requests,
               \/ LockPackageName(r) \/ Refuse(r)
               \/ BeginCopy(r) \/ EndCopy(r) \/ CopyFails(r)
               \/ SetTrustStoreWildcard(r) \/ SetTrustStoreJks(r)
        PROVE  UNCHANGED Promise!vars
    BY <2>4 DEF LockPackageName, Refuse, BeginCopy, EndCopy, CopyFails,
                SetTrustStoreWildcard, SetTrustStoreJks
  <2>5. ASSUME NEW r \in Requests,
               Query(r) \/ List(r) \/ Poll(r) \/ WakeUp(r) \/ Recheck(r)
        PROVE  UNCHANGED Promise!vars
    BY <2>5 DEF Query, List, Poll, WakeUp, Recheck
  <2>6. ASSUME NEW p \in Packages, ServerDeploys(p) PROVE UNCHANGED Promise!vars
    BY <2>6 DEF ServerDeploys
  <2>7. CASE UNCHANGED vars
    BY <2>7
  <2> HIDE DEF phase, kind, answer, TypeOK, StepsOfHandlers, Promise!vars
  <2> QED
    BY <2>1, <2>2, <2>3, <2>4, <2>5, <2>6, <2>7
    DEF Next, Handler, AllAnswered, Promise!Next
<1>3. Init => CallsIssued
  BY DEF Init, CallsIssued, NoThrow
<1>4. IInv /\ CallsIssued /\ [Next]_vars => CallsIssued'
  BY CallsIssuedStep DEF IInv
<1> QED
  BY <1>1, <1>2, <1>3, <1>4, SafetyInvariant, PTL
  DEF Spec, PromiseSpec, Promise!Spec

(* The wildcard value of the trust store property does not outlive the
   handlers that are between their two writes. *)
THEOREM TrustStoreTheorem == Spec => []TrustStoreSettles
<1>1. Init => TrustStoreSettles
  BY DEF Init, TrustStoreSettles
<1>2. TypeOK /\ TrustStoreSettles /\ [Next]_vars => TrustStoreSettles'
  <2> SUFFICES ASSUME TypeOK, TrustStoreSettles, [Next]_vars
               PROVE  TrustStoreSettles'
    OBVIOUS
  <2> USE DEF TypeOK, TrustStoreSettles, Goto, Throw, BpsServiceException
  <2>1. ASSUME NEW r \in Requests, SetTrustStoreWildcard(r) \/ SetTrustStoreJks(r)
        PROVE  TrustStoreSettles'
    BY <2>1 DEF SetTrustStoreWildcard, SetTrustStoreJks
  <2>2. ASSUME NEW r \in Requests,
               \/ Receive(r) \/ LockPackageName(r) \/ Refuse(r)
               \/ BeginCopy(r) \/ EndCopy(r) \/ CopyFails(r)
        PROVE  TrustStoreSettles'
    BY <2>2 DEF Receive, LockPackageName, Refuse, BeginCopy, EndCopy, CopyFails
  <2>3. ASSUME NEW r \in Requests,
               \/ Query(r) \/ List(r) \/ Deploy(r) \/ Poll(r)
               \/ WakeUp(r) \/ Undeploy(r) \/ Recheck(r) \/ Finish(r)
        PROVE  TrustStoreSettles'
    BY <2>3 DEF Query, List, Deploy, Poll, WakeUp, Undeploy, Recheck, Finish
  <2>4. ASSUME NEW p \in Packages, ServerDeploys(p) PROVE TrustStoreSettles'
    BY <2>4 DEF ServerDeploys
  <2>5. CASE UNCHANGED vars
    BY <2>5
  <2> HIDE DEF TypeOK, TrustStoreSettles
  <2> QED
    BY <2>1, <2>2, <2>3, <2>4, <2>5 DEF Next, Handler, AllAnswered
<1> QED
  BY <1>1, <1>2, TypeCorrect, PTL DEF Spec
=============================================================================
