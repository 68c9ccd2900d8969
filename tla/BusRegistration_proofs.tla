------------------------ MODULE BusRegistration_proofs -----------------------
(***************************************************************************)
(* For any number of calls and any directory: what the two registrations   *)
(* of BusRegistration leave at the bus is what they were told.             *)
(***************************************************************************)
EXTENDS BusRegistration, TLAPS

\* While a call is on its way, it is not among the registrations.
CallsInv ==
    /\ RegisteredAsTold
    /\ pc = "called" => registrations < retry

\* The files behind the current one; an address is known before the first post.
TurnInv ==
    /\ DescriptionsInTurn
    /\ \A k \in answered \cup skipped : k < file
    /\ listener \in {"read", "post", "taken"} => file \in Json
    /\ listener \in {"post", "taken"} => busPath # "none"
    /\ busPath = "none" => answered = {} /\ taken = {}

IInv == TypeOK /\ CallsInv /\ TurnInv

LEMMA InitIInv == Init => IInv
<1> SUFFICES ASSUME Init PROVE IInv
  OBVIOUS
<1>1. TypeOK
  BY DEF Init, TypeOK
<1>2. CallsInv
  BY RegistrationAssumption DEF Init, CallsInv, RegisteredAsTold
<1>3. TurnInv
  BY RegistrationAssumption DEF Init, TurnInv, DescriptionsInTurn
<1> QED BY <1>1, <1>2, <1>3 DEF IInv

\* The thread of the BPEL manager.
LEMMA RegistrarStep == IInv /\ Registrar => IInv'
<1> SUFFICES ASSUME IInv, Registrar PROVE IInv'
  OBVIOUS
<1> USE RegistrationAssumption
<1>1. UNCHANGED listening
  BY DEF Registrar, Call, BusRegisters, Succeeds, Fails, GivesUp
<1>2. TurnInv'
  BY <1>1 DEF IInv, TurnInv, DescriptionsInTurn, listening
<1>3. TypeOK /\ CallsInv
  BY DEF IInv
<1>4. /\ listener' = listener /\ file' = file /\ serviceInfo' = serviceInfo
      /\ busPath' = busPath /\ taken' = taken /\ answered' = answered /\ skipped' = skipped
  BY <1>1 DEF listening
<1>5. CASE Call
  <2>1. TypeOK'
    BY <1>3, <1>4, <1>5 DEF Call, TypeOK
  <2>2. CallsInv'
    BY <1>3, <1>5 DEF Call, TypeOK, CallsInv, RegisteredAsTold
  <2> QED BY <2>1, <2>2, <1>2 DEF IInv
<1>6. CASE BusRegisters
  <2>1. TypeOK'
    BY <1>3, <1>4, <1>6 DEF BusRegisters, TypeOK
  <2>2. CallsInv'
    BY <1>3, <1>6 DEF BusRegisters, TypeOK, CallsInv, RegisteredAsTold
  <2> QED BY <2>1, <2>2, <1>2 DEF IInv
<1>7. CASE Succeeds
  <2>1. TypeOK'
    BY <1>3, <1>4, <1>7 DEF Succeeds, TypeOK
  <2>2. CallsInv'
    BY <1>3, <1>7 DEF Succeeds, TypeOK, CallsInv, RegisteredAsTold
  <2> QED BY <2>1, <2>2, <1>2 DEF IInv
<1>8. CASE Fails
  <2>1. TypeOK'
    BY <1>3, <1>4, <1>8 DEF Fails, TypeOK
  <2>2. CallsInv'
    BY <1>3, <1>8 DEF Fails, TypeOK, CallsInv, RegisteredAsTold
  <2> QED BY <2>1, <2>2, <1>2 DEF IInv
<1>9. CASE GivesUp
  <2>1. TypeOK'
    BY <1>3, <1>4, <1>9 DEF GivesUp, TypeOK
  <2>2. CallsInv'
    BY <1>3, <1>9 DEF GivesUp, TypeOK, CallsInv, RegisteredAsTold
  <2> QED BY <2>1, <2>2, <1>2 DEF IInv
<1> QED BY <1>5, <1>6, <1>7, <1>8, <1>9 DEF Registrar

\* The listener of the web application.
LEMMA ListenerStep == IInv /\ Listener => IInv'
<1> SUFFICES ASSUME IInv, Listener PROVE IInv'
  OBVIOUS
<1> USE RegistrationAssumption
<1>1. TypeOK /\ TurnInv
  BY DEF IInv
<1>2. UNCHANGED registrar
  BY DEF Listener, ListFiles, NotJson, GetServiceModel, InitializeClient, AddressFails,
         BusTakes, Responds, ConnectionFails, AllListed
<1>3. CallsInv'
  BY <1>2 DEF IInv, CallsInv, RegisteredAsTold, registrar
<1>4. pc' = pc /\ retry' = retry /\ registrations' = registrations /\ lost' = lost
  BY <1>2 DEF registrar
<1> SUFFICES TypeOK' /\ TurnInv'
  BY <1>3 DEF IInv
<1> USE DEF TurnInv, DescriptionsInTurn, TypeOK
<1>5. CASE ListFiles
  <2>1. TypeOK'
    BY <1>1, <1>4, <1>5 DEF ListFiles
  <2>2. listener' # "done" /\ listener' \notin {"read", "post", "taken"}
    BY <1>5 DEF ListFiles
  <2> QED BY <1>1, <1>5, <2>1, <2>2 DEF ListFiles
<1>6. CASE NotJson
  <2>1. file' = file + 1 /\ file \notin Json /\ Json \subseteq Int
    BY <1>6 DEF NotJson
  <2>2. TypeOK'
    BY <1>1, <1>4, <1>6 DEF NotJson
  <2>3. \A k \in Json : k < file' => k < file
    BY <1>1, <2>1
  <2>4. \A p \in taken' : p.file <= file'
    <3>1. \A p \in taken : p.file \in Int /\ p.file <= file
      BY <1>1, <2>1
    <3> QED BY <1>1, <1>6, <3>1 DEF NotJson
  <2>5. \A k \in answered' \cup skipped' : k < file'
    BY <1>1, <1>6, <2>1 DEF NotJson
  <2> QED BY <1>1, <1>6, <2>2, <2>3, <2>4, <2>5 DEF NotJson
<1>7. CASE GetServiceModel
  BY <1>1, <1>4, <1>7 DEF GetServiceModel
<1>8. CASE InitializeClient
  <2>1. busPath = "none" => busPath' \in Addresses /\ busPath' # "none"
    BY <1>8 DEF InitializeClient, Addresses
  <2>2. busPath # "none" => busPath' = busPath
    BY <1>8 DEF InitializeClient
  <2> QED BY <1>1, <1>4, <1>8, <2>1, <2>2 DEF InitializeClient
<1>9. CASE AddressFails
  BY <1>1, <1>4, <1>9 DEF AddressFails, NextFile
<1>10. CASE BusTakes
  <2> DEFINE new == [file |-> file, address |-> busPath, text |-> serviceInfo]
  <2>1. new \in [file : Json, address : Addresses, text : {"empty", "read"}]
    BY <1>1, <1>10 DEF BusTakes
  <2>2. \A p \in taken' : p = new \/ p \in taken
    BY <1>10 DEF BusTakes
  <2>3. new.address = busPath' /\ new.file <= file'
    BY <1>1, <1>10 DEF BusTakes
  <2> HIDE DEF new
  <2>4. TypeOK'
    BY <1>1, <1>4, <1>10, <2>1, <2>2 DEF BusTakes
  <2> QED BY <1>1, <1>10, <2>2, <2>3, <2>4 DEF BusTakes
<1>11. CASE Responds
  <2>1. file \in Json /\ file' = file + 1 /\ answered' = answered \cup {file}
    BY <1>1, <1>11 DEF Responds
  <2>2. TypeOK'
    BY <1>1, <1>4, <1>11, <2>1 DEF Responds
  <2>3. \A k \in Json : k < file' => k < file \/ k = file
    BY <1>1, <2>1
  <2>4. \A j \in answered', k \in skipped' : k < j
    BY <1>1, <1>11, <2>1 DEF Responds
  <2>5. \A p \in taken' : p.file <= file'
    <3>0. Json \subseteq Int
      OBVIOUS
    <3>1. \A p \in taken : p.file \in Int /\ p.file <= file
      BY <1>1, <3>0
    <3> QED BY <1>1, <1>11, <3>1 DEF Responds
  <2>6. \A k \in answered' \cup skipped' : k < file'
    BY <1>1, <1>11, <2>1 DEF Responds
  <2> QED BY <1>1, <1>11, <2>1, <2>2, <2>3, <2>4, <2>5, <2>6 DEF Responds
<1>12. CASE ConnectionFails
  BY <1>1, <1>4, <1>12 DEF ConnectionFails
<1>13. CASE AllListed
  BY <1>1, <1>4, <1>13 DEF AllListed
<1> QED BY <1>5, <1>6, <1>7, <1>8, <1>9, <1>10, <1>11, <1>12, <1>13 DEF Listener

LEMMA StepIInv == IInv /\ [Next]_vars => IInv'
<1> SUFFICES ASSUME IInv, UNCHANGED vars PROVE IInv'
  BY RegistrarStep, ListenerStep DEF Next
<1> QED BY DEF vars, IInv, TypeOK, CallsInv, TurnInv, RegisteredAsTold, DescriptionsInTurn

\* The thread reports what the bus has of it, and gives up only after all its
\* calls: ServiceRegistrer.run, whatever is refused, lost or answered.
THEOREM RegisteredAsToldHolds == Spec => []RegisteredAsTold
<1>1. IInv => RegisteredAsTold
  BY DEF IInv, CallsInv
<1> QED BY InitIInv, StepIInv, <1>1, PTL DEF Spec

\* The listener goes through the directory in order, to one address, and skips
\* a description only before the address is known.
THEOREM DescriptionsInTurnHolds == Spec => []DescriptionsInTurn
<1>1. IInv => DescriptionsInTurn
  BY DEF IInv, TurnInv
<1> QED BY InitIInv, StepIInv, <1>1, PTL DEF Spec
=============================================================================
