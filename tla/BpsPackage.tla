----------------------------- MODULE BpsPackage -----------------------------
(***************************************************************************)
(* The package resource of the WSO2 BPEL manager                           *)
(* (wso2bpel-mgr, resources/BpsPackage.java): concurrent HTTP requests     *)
(* that upload, delete or list BPEL packages.  A request first takes its   *)
(* package name in the static packageNameSet, stores the archive on disk,  *)
(* writes the JVM-wide trust store property, and then talks to the WSO2    *)
(* server, which deploys an archive some time after it accepted it.        *)
(*                                                                         *)
(* One action is one indivisible step of one request (a synchronized       *)
(* block, a property write, one SOAP exchange) or one step of the server.  *)
(***************************************************************************)
EXTENDS Integers, FiniteSets

CONSTANTS
    Requests,      \* HTTP requests that may arrive, each served once
    Packages,      \* package names
    Archives,      \* contents an uploaded file can have
    MultiProcess,  \* archives with several processes per package
    Calls,         \* what a request may ask for
    MaxPolls       \* bound: polls of the 60 second loop (2 seconds apart)

CallType == [op : {"upload", "delete", "list"}, pkg : Packages,
             archive : Archives, zip : BOOLEAN]

ASSUME CallsAssumption == Calls \subseteq CallType
ASSUME ArchivesAssumption == MultiProcess \subseteq Archives
ASSUME NamesAssumption == {"absent", "partial", "torn", "nothing"} \cap Archives = {}
ASSUME MaxPollsAssumption == MaxPolls \in Nat \ {0}

ERROR_CODE_NOERROR                            == 0
ERROR_CODE_PACKAGE_UNSUPPORED_FILE            == 10001
ERROR_CODE_PACKAGE_STATUS_BUSY                == 10002
ERROR_CODE_PACKAGE_DUPLICATED_NAME            == 10003
ERROR_CODE_PACKAGE_DEPLOY_INFORMATION_IS_LOST == 10004
ERROR_CODE_PACKAGE_UNDEPLOY_FAILED            == 10005
ERROR_CODE_PACKAGE_NOTEXISTS                  == 10006
ERROR_CODE_RUNTIME_EXCEPTION                  == 20001
ERROR_CODE_RUNTIME_EXCEPTION_AXIS             == 20002
ERROR_CODE_RUNTIME_EXCEPTION_IO               == 20003

ErrorCodes == 10001..10006 \cup 20001..20003

NotDeployed == [from |-> "nobody", content |-> "nothing"]
NoThrow     == [ex |-> "none", code |-> 0]

VARIABLES
    call,            \* the request's parameters
    pc,              \* where the handler of the request is
    thrown,          \* exception on its way to the catch clauses
    errorCode,       \* the handler's errorCode; 0 in an answer is success
    polls,           \* iterations of the deployment poll
    packageNameSet,  \* static set of the names being operated on
    file,            \* content of uploadFilePath/<name>.zip
    trustStore,      \* system property javax.net.ssl.trustStore
    deployed,        \* WSO2: latest version of the package
    pending,         \* WSO2: accepted archives it has not deployed yet
    issued,          \* history: requests that called a changing service
    late,            \* history: answered while their archive was pending
    refused          \* history: names with a refusal since last quiescent

locals  == <<pc, thrown, errorCode, polls>>
statics == <<packageNameSet, file, trustStore>>
server  == <<deployed, pending>>
history == <<issued, late, refused>>
vars    == <<call, locals, statics, server, history>>

pkg(r) == call[r].pkg

(***************************************************************************)
(* packageName # null in the finally block: only an upload of a file that  *)
(* ends with .zip and every delete have a name; listPackages never has.    *)
(***************************************************************************)
HasName(r) == \/ call[r].op = "delete"
              \/ call[r].op = "upload" /\ call[r].zip

InsidePCs == {"copy", "copying", "wildcard", "jks", "query", "deploy",
              "poll", "sleep", "undeploy", "recheck", "finally"}

\* r passed lockPackageName and has not run its finally block
Inside(r) == HasName(r) /\ pc[r] \in InsidePCs

\* Requests on name p that still have their finally block to run
Working(p) == {r \in Requests : /\ HasName(r) /\ pkg(r) = p
                                /\ pc[r] \in InsidePCs \cup {"refused"}}

Init ==
    /\ call \in [Requests -> Calls]
    /\ pc = [r \in Requests |-> "idle"]
    /\ thrown = [r \in Requests |-> NoThrow]
    /\ errorCode = [r \in Requests |-> ERROR_CODE_NOERROR]
    /\ polls = [r \in Requests |-> 0]
    /\ packageNameSet = {}
    /\ file = [p \in Packages |-> "absent"]
    /\ trustStore = "unset"
    /\ deployed = [p \in Packages |-> NotDeployed]
    /\ pending = [p \in Packages |-> {}]
    /\ issued = {} /\ late = {} /\ refused = {}

-----------------------------------------------------------------------------
(* Steps of a handler                                                      *)

Goto(r, l) == pc' = [pc EXCEPT ![r] = l] /\ UNCHANGED thrown

Throw(r, ex, code) ==
    /\ pc' = [pc EXCEPT ![r] = "finally"]
    /\ thrown' = [thrown EXCEPT ![r] = [ex |-> ex, code |-> code]]

BpsServiceException(r, code) == Throw(r, "BpsServiceException", code)

\* A request arrives; an upload checks its file name before anything else.
Receive(r) ==
    /\ pc[r] = "idle"
    /\ \/ HasName(r) /\ Goto(r, "lock") /\ UNCHANGED errorCode
       \/ call[r].op = "list" /\ Goto(r, "wildcard") /\ UNCHANGED errorCode
       \/ /\ call[r].op = "upload" /\ ~call[r].zip
          /\ errorCode' =
                [errorCode EXCEPT ![r] = ERROR_CODE_PACKAGE_UNSUPPORED_FILE]
          /\ Throw(r, "Exception", 0)
    /\ UNCHANGED <<call, polls, statics, server, history>>

\* Seeded fault: the name is added without looking for it first.
LockPackageNameUnchecked(r) ==
    /\ pc[r] = "lock"
    /\ packageNameSet' = packageNameSet \cup {pkg(r)}
    /\ Goto(r, IF call[r].op = "upload" THEN "copy" ELSE "wildcard")
    /\ UNCHANGED <<call, errorCode, polls, file, trustStore, server, history>>

\* lockPackageName succeeds.
LockPackageName(r) ==
    /\ pc[r] = "lock" /\ pkg(r) \notin packageNameSet
    /\ packageNameSet' = packageNameSet \cup {pkg(r)}
    /\ Goto(r, IF call[r].op = "upload" THEN "copy" ELSE "wildcard")
    /\ UNCHANGED <<call, errorCode, polls, file, trustStore, server, history>>

\* lockPackageName fails: the handler throws a plain Exception.  Only the
\* upload sets errorCode first.
Refuse(r) ==
    /\ pc[r] = "lock" /\ pkg(r) \in packageNameSet
    /\ pc' = [pc EXCEPT ![r] = "refused"]
    /\ thrown' = [thrown EXCEPT ![r] = [ex |-> "Exception", code |-> 0]]
    /\ errorCode' = IF call[r].op = "upload"
                    THEN [errorCode EXCEPT ![r] = ERROR_CODE_PACKAGE_STATUS_BUSY]
                    ELSE errorCode
    /\ refused' = refused \cup {pkg(r)}
    /\ UNCHANGED <<call, polls, statics, server, issued, late>>

Copying(p) == {r \in Requests : pc[r] = "copying" /\ pkg(r) = p}

\* FileUtils.copyInputStreamToFile truncates the file and fills it.  Two
\* copies at a time leave a mixture.
BeginCopy(r) ==
    /\ pc[r] = "copy" /\ Goto(r, "copying")
    /\ file' = [file EXCEPT ![pkg(r)] =
                    IF Copying(pkg(r)) = {} THEN "partial" ELSE "torn"]
    /\ UNCHANGED <<call, errorCode, polls, packageNameSet, trustStore,
                   server, history>>

EndCopy(r) ==
    /\ pc[r] = "copying" /\ Goto(r, "wildcard")
    /\ LET p == pkg(r) IN
       \/ /\ file[p] # "torn"
          /\ file' = [file EXCEPT ![p] = call[r].archive]
       \/ /\ file[p] = "torn" /\ Copying(p) = {r}
          /\ \E c \in Archives \cup {"torn"} : file' = [file EXCEPT ![p] = c]
       \/ /\ file[p] = "torn" /\ Copying(p) # {r}
          /\ UNCHANGED file
    /\ UNCHANGED <<call, errorCode, polls, packageNameSet, trustStore,
                   server, history>>

CopyFails(r) ==
    /\ pc[r] = "copying" /\ Throw(r, "IOException", 0)
    /\ UNCHANGED <<call, errorCode, polls, statics, server, history>>

\* The two writes of javax.net.ssl.trustStore, common to all handlers.
SetTrustStoreWildcard(r) ==
    /\ pc[r] = "wildcard" /\ Goto(r, "jks")
    /\ trustStore' = "wildcard"
    /\ UNCHANGED <<call, errorCode, polls, packageNameSet, file, server, history>>

\* Seeded fault: listPackages lacks the second write.
SetTrustStoreJksUnlessList(r) ==
    /\ pc[r] = "jks" /\ Goto(r, "query")
    /\ trustStore' = IF call[r].op = "list" THEN trustStore ELSE "jks"
    /\ UNCHANGED <<call, errorCode, polls, packageNameSet, file, server, history>>

SetTrustStoreJks(r) ==
    /\ pc[r] = "jks" /\ Goto(r, "query")
    /\ trustStore' = "jks"
    /\ UNCHANGED <<call, errorCode, polls, packageNameSet, file, server, history>>

(***************************************************************************)
(* getDeployedPackageInfo(p): "present", "absent" or the exception that    *)
(* leaves it.  A SOAP fault is an AxisFault, a WSDL that cannot be         *)
(* imported a RuntimeException, an unreadable reply a JSON IOException,    *)
(* and the process list of a package with several processes is cast to a   *)
(* Map (ClassCastException).                                               *)
(***************************************************************************)
CallFaults == {"AxisFault", "IOException", "Exception"}

\* Seeded fault: the comparison of names never matches.
DeployedPackageInfoNoMatch(p) == CallFaults \cup {"absent"}

DeployedPackageInfo(p) ==
    CallFaults \cup
    (IF deployed[p] = NotDeployed THEN {"absent"}
     ELSE IF deployed[p].content \in MultiProcess THEN {} ELSE {"present"})

\* First look of bpsDeployPackage and bpsUndeployPackage.
Query(r) ==
    /\ pc[r] = "query" /\ HasName(r)
    /\ \E info \in DeployedPackageInfo(pkg(r)) :
         \/ info \in CallFaults /\ Throw(r, info, 0)
         \/ /\ info = "absent" /\ call[r].op = "upload"
            /\ Goto(r, "deploy")
         \/ /\ info = "present" /\ call[r].op = "upload"
            /\ BpsServiceException(r, ERROR_CODE_PACKAGE_DUPLICATED_NAME)
         \/ /\ info = "absent" /\ call[r].op = "delete"
            /\ BpsServiceException(r, ERROR_CODE_PACKAGE_NOTEXISTS)
         \/ /\ info = "present" /\ call[r].op = "delete"
            /\ Goto(r, "undeploy")
    /\ UNCHANGED <<call, errorCode, polls, statics, server, history>>

\* listPackages shows WSO2's own list and takes no lock.
List(r) ==
    /\ pc[r] = "query" /\ call[r].op = "list"
    /\ \/ Goto(r, "finally")
       \/ \E ex \in CallFaults : Throw(r, ex, 0)
    /\ UNCHANGED <<call, errorCode, polls, statics, server, history>>

Accept(r) == pending' = [pending EXCEPT ![pkg(r)] =
                            @ \cup {[from |-> r, content |-> file[pkg(r)]]}]

\* deployPackage sends the file that is on disk now.  The reply may be lost
\* after WSO2 accepted the archive; printing the reply may fail as well.
Deploy(r) ==
    /\ pc[r] = "deploy"
    /\ issued' = issued \cup {r}
    /\ \/ Accept(r) /\ Goto(r, "poll")
       \/ Accept(r) /\ \E ex \in {"AxisFault", "Exception"} : Throw(r, ex, 0)
       \/ UNCHANGED pending /\ Throw(r, "AxisFault", 0)
    /\ UNCHANGED <<call, errorCode, polls, statics, deployed, late, refused>>

\* Seeded fault: the loop ends after the first look, whatever it saw.
PollOnce(r) ==
    /\ pc[r] = "poll" /\ Goto(r, "finally")
    /\ UNCHANGED <<call, errorCode, polls, statics, server, history>>

\* Seeded fault: the start time is read again in each iteration.
PollForever(r) ==
    /\ pc[r] = "poll"
    /\ \E info \in DeployedPackageInfo(pkg(r)) :
         \/ info \in CallFaults /\ Throw(r, info, 0)
         \/ info = "present" /\ Goto(r, "finally")
         \/ info = "absent" /\ Goto(r, "sleep")
    /\ UNCHANGED <<call, errorCode, polls, statics, server, history>>

\* One iteration of the loop of bpsDeployPackage.
Poll(r) ==
    /\ pc[r] = "poll"
    /\ \E info \in DeployedPackageInfo(pkg(r)) :
         \/ info \in CallFaults /\ Throw(r, info, 0) /\ UNCHANGED polls
         \/ info = "present" /\ Goto(r, "finally") /\ UNCHANGED polls
         \/ /\ info = "absent" /\ Goto(r, "sleep")
            /\ polls' = [polls EXCEPT ![r] = @ + 1]
    /\ UNCHANGED <<call, errorCode, statics, server, history>>

\* After the sleep: another iteration, or the minute is over and what the
\* last poll saw counts.
WakeUp(r) ==
    /\ pc[r] = "sleep"
    /\ \/ polls[r] < MaxPolls /\ Goto(r, "poll")
       \/ BpsServiceException(r, ERROR_CODE_PACKAGE_DEPLOY_INFORMATION_IS_LOST)
    /\ UNCHANGED <<call, errorCode, polls, statics, server, history>>

\* undeployPackage: WSO2 removes the package or keeps it, and the reply may
\* be lost either way.
Undeploy(r) ==
    /\ pc[r] = "undeploy"
    /\ issued' = issued \cup {r}
    /\ \/ UNCHANGED deployed
       \/ deployed' = [deployed EXCEPT ![pkg(r)] = NotDeployed]
    /\ Goto(r, "recheck") \/ Throw(r, "AxisFault", 0)
    /\ UNCHANGED <<call, errorCode, polls, statics, pending, late, refused>>

\* Seeded fault: the second look is not taken.
RecheckSkipped(r) ==
    /\ pc[r] = "recheck" /\ Goto(r, "finally")
    /\ UNCHANGED <<call, errorCode, polls, statics, server, history>>

\* Seeded fault: the second look throws the first look's code.
RecheckWrongCode(r) ==
    /\ pc[r] = "recheck"
    /\ \E info \in DeployedPackageInfo(pkg(r)) :
         \/ info \in CallFaults /\ Throw(r, info, 0)
         \/ info = "absent" /\ Goto(r, "finally")
         \/ info = "present" /\ BpsServiceException(r, ERROR_CODE_PACKAGE_NOTEXISTS)
    /\ UNCHANGED <<call, errorCode, polls, statics, server, history>>

\* Second look of bpsUndeployPackage.
Recheck(r) ==
    /\ pc[r] = "recheck"
    /\ \E info \in DeployedPackageInfo(pkg(r)) :
         \/ info \in CallFaults /\ Throw(r, info, 0)
         \/ info = "absent" /\ Goto(r, "finally")
         \/ /\ info = "present"
            /\ BpsServiceException(r, ERROR_CODE_PACKAGE_UNDEPLOY_FAILED)
    /\ UNCHANGED <<call, errorCode, polls, statics, server, history>>

\* What the catch clauses make of an exception.  delete has no clause for
\* IOException; the plain Exception's errorCode is overwritten.
CaughtCode(r) ==
    CASE thrown[r].ex = "none"                -> errorCode[r]
      [] thrown[r].ex = "AxisFault"           -> ERROR_CODE_RUNTIME_EXCEPTION_AXIS
      [] thrown[r].ex = "BpsServiceException" -> thrown[r].code
      [] thrown[r].ex = "IOException"         ->
            IF call[r].op = "delete" THEN ERROR_CODE_RUNTIME_EXCEPTION
                                     ELSE ERROR_CODE_RUNTIME_EXCEPTION_IO
      [] thrown[r].ex = "Exception"           -> ERROR_CODE_RUNTIME_EXCEPTION

\* Seeded fault: the unlock is not in a finally block.
ReleasedOnSuccess(r) ==
    IF HasName(r) /\ thrown[r] = NoThrow
    THEN packageNameSet \ {pkg(r)} ELSE packageNameSet

\* The finally block: unlockPackageName whenever there is a name.
Released(r) == IF HasName(r) THEN packageNameSet \ {pkg(r)} ELSE packageNameSet

\* catch clauses, finally block and return.
Finish(r) ==
    /\ pc[r] \in {"finally", "refused"} /\ Goto(r, "done")
    /\ errorCode' = [errorCode EXCEPT ![r] = CaughtCode(r)]
    /\ packageNameSet' = Released(r)
    /\ late' = IF \E u \in pending[pkg(r)] : u.from = r THEN late \cup {r} ELSE late
    /\ refused' = IF Working(pkg(r)) = {r} THEN refused \ {pkg(r)} ELSE refused
    /\ UNCHANGED <<call, polls, file, trustStore, server, issued>>

\* WSO2's deployer takes an accepted archive: it deploys it as the latest
\* version or drops it.  A damaged archive is always dropped.
ServerDeploys(p) ==
    /\ \E u \in pending[p] :
         /\ pending' = [pending EXCEPT ![p] = @ \ {u}]
         /\ \/ UNCHANGED deployed
            \/ /\ u.content \in Archives
               /\ deployed' = [deployed EXCEPT ![p] = u]
    /\ UNCHANGED <<call, locals, statics, history>>

\* Every request has been answered: nothing is left to do.
AllAnswered == (\A r \in Requests : pc[r] = "done") /\ UNCHANGED vars

\* What happens to a request once it is in a handler.
Handler(r) ==
    \/ LockPackageName(r) \/ Refuse(r)
    \/ BeginCopy(r) \/ EndCopy(r) \/ CopyFails(r)
    \/ SetTrustStoreWildcard(r) \/ SetTrustStoreJks(r)
    \/ Query(r) \/ List(r) \/ Deploy(r) \/ Poll(r) \/ WakeUp(r)
    \/ Undeploy(r) \/ Recheck(r) \/ Finish(r)

Next == \/ \E r \in Requests : Receive(r) \/ Handler(r)
        \/ \E p \in Packages : ServerDeploys(p)
        \/ AllAnswered

\* The steps at which a handler looks at WSO2 (getFullDeployedPackageInfo): they
\* import its WSDL first, through an HttpClient that has no timeout.
Looks == {"query", "poll", "recheck"}

(***************************************************************************)
(* Fairness: a handler runs on a thread of its own, deployPackage and      *)
(* undeployPackage set SO_TIMEOUT, the sleep ends, and an upload whose     *)
(* client falls silent is ended by the server's idle timeout.  Nothing     *)
(* ends a look at a silent WSO2; nothing is assumed of clients or WSO2.    *)
(***************************************************************************)
Fairness == \A r \in Requests : WF_vars(Handler(r) /\ pc[r] \notin Looks)
Spec     == Init /\ [][Next]_vars
FairSpec == Spec /\ Fairness
-----------------------------------------------------------------------------
(* Properties                                                              *)

Upload == [from : Requests, content : Archives \cup {"absent", "partial", "torn"}]

PCs == InsidePCs \cup {"idle", "lock", "refused", "done"}

Throwns == {NoThrow} \cup [ex : CallFaults, code : {0}]
                     \cup [ex : {"BpsServiceException"}, code : 10003..10006]

\* Every variable has its type: the file, WSO2's packages and the codes only
\* take the values the handlers give them.
TypeOK ==
    /\ call \in [Requests -> Calls]
    /\ pc \in [Requests -> PCs]
    /\ thrown \in [Requests -> Throwns]
    /\ errorCode \in [Requests -> ErrorCodes \cup {ERROR_CODE_NOERROR}]
    /\ polls \in [Requests -> Nat]
    /\ packageNameSet \subseteq Packages
    /\ file \in [Packages -> Archives \cup {"absent", "partial", "torn"}]
    /\ trustStore \in {"unset", "wildcard", "jks"}
    /\ deployed \in [Packages -> Upload \cup {NotDeployed}]
    /\ pending \in [Packages -> SUBSET Upload]
    /\ issued \subseteq Requests /\ late \subseteq Requests
    /\ refused \subseteq Packages

\* A name in packageNameSet always has a request that will still run its
\* finally block for it: no error path leaks the lock of a name, not even
\* when a refused request has unlocked somebody else's.
NoLockLeak ==
    \A p \in packageNameSet : \E r \in Requests : Inside(r) /\ pkg(r) = p

\* As long as no request was refused on a name since the name was last
\* quiescent, at most one request operates on it, and packageNameSet says so.
\* (A refusal ends this: its finally block unlocks the name of the holder.)
ExclusiveUnlessRefused ==
    \A p \in Packages \ refused :
        /\ \A r, q \in Requests : Inside(r) /\ Inside(q) /\ pkg(r) = p /\ pkg(q) = p
                                    => r = q
        /\ (\E r \in Requests : Inside(r) /\ pkg(r) = p) => p \in packageNameSet

\* What WSO2 shows under p was left behind by an upload that had been
\* answered before WSO2 was done with it.
LeftBehind(p) == deployed[p] # NotDeployed /\ deployed[p].from \in late

OwnDeployed(r) == deployed[pkg(r)] = [from |-> r, content |-> call[r].archive]

\* The duplicate check of bpsDeployPackage still holds when the archive is
\* sent: only an archive left behind by an earlier answer can be there.
DuplicateCheckHolds ==
    \A r \in Requests : pc[r] = "deploy" /\ pkg(r) \notin refused
        => deployed[pkg(r)] = NotDeployed \/ LeftBehind(pkg(r))

Succeeding(r, op) == /\ call[r].op = op /\ HasName(r)
                     /\ pc[r] = "finally" /\ thrown[r] = NoThrow

\* An upload about to be answered "success" has its own archive, whole and
\* unmixed, deployed under its name (or one left behind by an earlier one).
UploadAnswerHolds ==
    \A r \in Requests : Succeeding(r, "upload") /\ pkg(r) \notin refused
        => OwnDeployed(r) \/ LeftBehind(pkg(r))

\* A delete about to be answered "success" leaves nothing deployed under the
\* name, except what an earlier upload left behind.
DeleteAnswerHolds ==
    \A r \in Requests : Succeeding(r, "delete") /\ pkg(r) \notin refused
        => deployed[pkg(r)] = NotDeployed \/ LeftBehind(pkg(r))

\* The "success" answers of uploads and deletes (errorCode of BpsPackage) are true
\* of WSO2, whatever it does late and other requests do meanwhile.
AnswersHold == UploadAnswerHolds /\ DeleteAnswerHolds

\* The "*.keystore" value of the trust store property never outlives the
\* handlers that are between their two writes: when none is, it is the
\* configured jks file.
TrustStoreSettles ==
    trustStore = "wildcard" => \E r \in Requests : pc[r] = "jks"

\* Every request that reached a handler is answered, whatever WSO2 and the
\* other requests do, unless one of its looks at WSO2 hangs for ever (with its
\* name locked): no poll, sleep, refusal or lost reply keeps it.
Answered ==
    \A r \in Requests : \/ pc[r] # "idle" ~> pc[r] = "done"
                        \/ <>[](pc[r] \in Looks)

\* The codes are documented for what the handlers set them for: 10001 "file type
\* not supported", 10002 "a package of the same name is being operated on".  A
\* code that a handler has set is the code of its answer.
CodeKept ==
    [][\A r \in Requests : errorCode[r] # ERROR_CODE_NOERROR
                            => errorCode'[r] = errorCode[r]]_vars

\* ERROR_CODE_PACKAGE_STATUS_BUSY is documented as "a package of the same
\* name is being operated on": two requests never operate on one name.
MutualExclusion ==
    \A r, q \in Requests : Inside(r) /\ Inside(q) /\ pkg(r) = pkg(q) => r = q

-----------------------------------------------------------------------------
(* The inductive invariant: what the properties above rest on.             *)

UploadPCs == {"copy", "copying", "deploy", "poll", "sleep"}

\* Only the handlers that have a step reach it, and only with a name.
StepsOfHandlers ==
    \A r \in Requests :
        /\ pc[r] \in UploadPCs => call[r].op = "upload" /\ HasName(r)
        /\ pc[r] \in {"undeploy", "recheck"} => call[r].op = "delete"
        /\ pc[r] \in {"lock", "refused"} => HasName(r)

\* A refused request that still runs its finally block keeps its name marked.
RefusalsMarked ==
    /\ \A r \in Requests : pc[r] = "refused" => pkg(r) \in refused
    /\ \A r \in late : pc[r] = "done"

\* An archive WSO2 has not deployed yet belongs to a request that waits for
\* it or that has been answered without it.
PendingOwned ==
    \A p \in Packages : \A u \in pending[p] :
        /\ pkg(u.from) = p /\ call[u.from].op = "upload"
        /\ \/ u.from \in late
           \/ HasName(u.from) /\ pc[u.from] \in {"poll", "sleep", "finally"}

\* The file on disk is the archive of the upload that operates on the name.
FileOwned ==
    \A r \in Requests : call[r].op = "upload" /\ Inside(r) /\ pkg(r) \notin refused =>
        /\ pc[r] = "copying" => file[pkg(r)] # "torn"
        /\ pc[r] \in {"wildcard", "jks", "query", "deploy"}
              => file[pkg(r)] = call[r].archive

\* What WSO2 has of an upload that is not answered yet is its own archive.
ContentOwned ==
    \A p \in Packages \ refused : \A u \in pending[p] :
        u.from \notin late => u.content = call[u.from].archive

\* While an upload waits, WSO2 shows nothing, its archive or one left behind.
WaitingOwned ==
    \A r \in Requests : pc[r] \in {"poll", "sleep"} /\ pkg(r) \notin refused
        => \/ deployed[pkg(r)] = NotDeployed
           \/ OwnDeployed(r) \/ LeftBehind(pkg(r))

IInv == /\ TypeOK /\ StepsOfHandlers /\ RefusalsMarked
        /\ NoLockLeak /\ ExclusiveUnlessRefused
        /\ PendingOwned /\ FileOwned /\ ContentOwned /\ WaitingOwned
        /\ DuplicateCheckHolds /\ UploadAnswerHolds /\ DeleteAnswerHolds

-----------------------------------------------------------------------------
(* The promise of PackagePromise.tla, kept by the handlers.                *)

phase == [r \in Requests |-> IF pc[r] = "idle" THEN "waiting"
                             ELSE IF pc[r] = "done" THEN "answered" ELSE "open"]

kind == [r \in Requests |-> call[r].op]

\* Where a handler is and what it throws tell whether it has called a
\* service that changes WSO2's packages.
CallsIssued ==
    \A r \in Requests :
        /\ pc[r] \in {"idle", "lock", "refused", "copy", "copying", "wildcard",
                      "jks", "query", "deploy", "undeploy"} => r \notin issued
        /\ pc[r] \in {"poll", "sleep", "recheck"} => r \in issued
        /\ call[r].op = "list" => r \notin issued
        /\ pc[r] \notin {"finally", "refused", "done"} => thrown[r] = NoThrow
        /\ pc[r] = "refused" => thrown[r].ex = "Exception"
        /\ pc[r] # "done" /\ thrown[r] = NoThrow
              => errorCode[r] = ERROR_CODE_NOERROR
        /\ pc[r] = "finally" /\ thrown[r] = NoThrow
              => call[r].op = "list" \/ r \in issued
        /\ pc[r] = "finally" /\ thrown[r].ex = "BpsServiceException" =>
              \/ thrown[r].code \in {10003, 10006} /\ r \notin issued
              \/ thrown[r].code \in {10004, 10005} /\ r \in issued

answer == [r \in Requests |-> IF pc[r] = "done" THEN errorCode[r] ELSE 0]

Promise == INSTANCE PackagePromise WITH
             phase <- phase, kind <- kind, issued <- issued, answer <- answer

\* Each handler implements PackagePromise: it is answered once, calls a changing
\* service of WSO2 at most once and never after its answer, and its answer says
\* what it can about that call.
PromiseSpec == Promise!Spec
=============================================================================
