---------------------------- MODULE BusRegistration --------------------------
(***************************************************************************)
(* The two ways services reach the microservice bus.  The BPEL manager     *)
(* starts a thread (ServiceRegistrer) that posts its entity until an       *)
(* answer says it is registered.  A web application that has common-util's *)
(* RegisterServiceListener posts every description of a directory, once.   *)
(***************************************************************************)
EXTENDS Integers

CONSTANTS
    Retries,    \* calls of the thread, 1000 in the code
    Files,      \* number of files in the directory
    Json        \* those whose name ends with .json

ASSUME RegistrationAssumption ==
    Retries \in Nat /\ Files \in Nat /\ Json \subseteq 1..Files

VARIABLES
    pc,             \* ServiceRegistrer.run
    retry,          \* its calls
    registrations,  \* entities of the BPEL manager the bus has taken
    lost,           \* answers of the bus that did not arrive
    listener,       \* RegisterServiceListener.contextInitialized
    file,           \* index of tempFile
    serviceInfo,    \* the text read from it: "empty" after a failure
    busPath,        \* RegisterService.busPath, "none" for null
    taken,          \* descriptions the bus has taken: file, address, text
    answered,       \* files whose post was answered, with whatever status
    skipped         \* files whose IOException was logged

registrar == <<pc, retry, registrations, lost>>
listening == <<listener, file, serviceInfo, busPath, taken, answered, skipped>>
vars == <<pc, retry, registrations, lost,
          listener, file, serviceInfo, busPath, taken, answered, skipped>>

Init ==
    /\ pc = "loop" /\ retry = 0 /\ registrations = 0 /\ lost = 0
    /\ listener = "list" /\ file = 1 /\ serviceInfo = "empty" /\ busPath = "none"
    /\ taken = {} /\ answered = {} /\ skipped = {}

-----------------------------------------------------------------------------
(* ServiceRegistrer.run, MicroserviceBusConsumer.registerService           *)

Call ==
    /\ pc = "loop" /\ retry < Retries
    /\ pc' = "called" /\ retry' = retry + 1
    /\ UNCHANGED <<registrations, lost, listening>>

\* The bus takes the request: it need not be told before the call has failed.
BusRegisters ==
    /\ pc = "called" /\ pc' = "registered"
    /\ registrations' = registrations + 1
    /\ UNCHANGED <<retry, lost, listening>>

Succeeds ==
    /\ pc = "registered" /\ pc' = "success"
    /\ UNCHANGED <<retry, registrations, lost, listening>>

\* No connection, a refusal, or an answer that is lost or cannot be read.
Fails ==
    /\ pc \in {"called", "registered"} /\ pc' = "loop"
    /\ lost' = IF pc = "registered" THEN lost + 1 ELSE lost
    /\ UNCHANGED <<retry, registrations, listening>>

GivesUp ==
    /\ pc = "loop" /\ retry >= Retries /\ pc' = "gaveUp"
    /\ UNCHANGED <<retry, registrations, lost, listening>>

Registrar == Call \/ BusRegisters \/ Succeeds \/ Fails \/ GivesUp

-----------------------------------------------------------------------------
(* RegisterServiceListener.contextInitialized, RegisterService             *)

\* Without the directory there is no list to go through.
ListFiles ==
    /\ listener = "list" /\ listener' \in {"loop", "thrown"}
    /\ UNCHANGED <<registrar, file, serviceInfo, busPath, taken, answered, skipped>>

NotJson ==
    /\ listener = "loop" /\ file \in (1..Files) \ Json
    /\ file' = file + 1
    /\ UNCHANGED <<registrar, listener, serviceInfo, busPath, taken, answered, skipped>>

\* A file that cannot be read is posted as an empty text.
GetServiceModel ==
    /\ listener = "loop" /\ file \in Json
    /\ listener' = "read" /\ serviceInfo' \in {"read", "empty"}
    /\ UNCHANGED <<registrar, file, busPath, taken, answered, skipped>>

\* The default if the file of the address cannot be read, and null, as text,
\* if it does not name one.
Addresses == {"configured", "default", "null"}

InitializeClient ==
    /\ listener = "read" /\ listener' = "post"
    /\ IF busPath = "none" THEN busPath' \in Addresses ELSE UNCHANGED busPath
    /\ UNCHANGED <<registrar, file, serviceInfo, taken, answered, skipped>>

\* Seeded fault: the exception is caught around the loop.
AfterIOException == listener' = "done"

NextFile == listener' = "loop"

\* Closing the file of the address fails: the exception of this description.
AddressFails ==
    /\ listener = "read" /\ busPath = "none"
    /\ NextFile /\ file' = file + 1 /\ skipped' = skipped \cup {file}
    /\ UNCHANGED <<registrar, serviceInfo, busPath, taken, answered>>

BusTakes ==
    /\ listener = "post" /\ listener' = "taken"
    /\ taken' = taken \cup {[file |-> file, address |-> busPath, text |-> serviceInfo]}
    /\ UNCHANGED <<registrar, file, serviceInfo, busPath, answered, skipped>>

\* The response is dropped, a refusal as well as a registration.
Responds ==
    /\ listener \in {"post", "taken"} /\ listener' = "loop"
    /\ file' = file + 1 /\ answered' = answered \cup {file}
    /\ UNCHANGED <<registrar, serviceInfo, busPath, taken, skipped>>

\* A connection that fails throws a runtime exception, which nobody contains.
ConnectionFails ==
    /\ listener \in {"post", "taken"} /\ listener' = "thrown"
    /\ UNCHANGED <<registrar, file, serviceInfo, busPath, taken, answered, skipped>>

AllListed ==
    /\ listener = "loop" /\ file > Files /\ listener' = "done"
    /\ UNCHANGED <<registrar, file, serviceInfo, busPath, taken, answered, skipped>>

Listener ==
    \/ ListFiles \/ NotJson \/ GetServiceModel \/ InitializeClient \/ AddressFails
    \/ BusTakes \/ Responds \/ ConnectionFails \/ AllListed

-----------------------------------------------------------------------------
Next == Registrar \/ Listener

Spec == Init /\ [][Next]_vars

\* Both threads run, and every call ends: with the answer of the bus or with
\* the end of its connection.
FairSpec == Spec /\ WF_vars(Registrar) /\ WF_vars(Listener)

-----------------------------------------------------------------------------
(* Properties                                                              *)

TypeOK ==
    /\ pc \in {"loop", "called", "registered", "success", "gaveUp"}
    /\ retry \in Nat /\ registrations \in Nat /\ lost \in Nat
    /\ listener \in {"list", "loop", "read", "post", "taken", "thrown", "done"}
    /\ file \in Nat \ {0} /\ serviceInfo \in {"empty", "read"}
    /\ busPath \in Addresses \cup {"none"}
    /\ taken \subseteq [file : Json, address : Addresses, text : {"empty", "read"}]
    /\ answered \subseteq Json /\ skipped \subseteq Json

(* The bus has the entity of the BPEL manager once for the call that       *)
(* succeeded and once for each answer that was lost, and never without a   *)
(* call; only a thread that made all its calls has given up.               *)
RegisteredAsTold ==
    /\ registrations = lost + (IF pc \in {"registered", "success"} THEN 1 ELSE 0)
    /\ registrations <= retry /\ retry <= Retries
    /\ pc = "gaveUp" => retry = Retries /\ registrations = lost

(* All descriptions go to one address.  Each of the directory before the   *)
(* current one had its answer or its own IOException; none is skipped once *)
(* the address is known; and after a failed connection nothing is sent.    *)
DescriptionsInTurn ==
    /\ \A p \in taken : p.address = busPath
    /\ \A k \in Json : k < file => k \in answered \cup skipped
    /\ \A p \in taken : p.file <= file
    /\ \A j \in answered, k \in skipped : k < j
    /\ listener = "done" => Json \subseteq answered \cup skipped

(* Both threads end, and what they leave at the bus is what they were told *)
(* by it: run of ServiceRegistrer, contextInitialized of the listener.     *)
RegistrationSettles ==
    <>[](/\ pc \in {"success", "gaveUp"} /\ listener \in {"done", "thrown"}
         /\ RegisteredAsTold /\ DescriptionsInTurn)
=============================================================================
