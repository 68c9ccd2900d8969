---------------------------- MODULE MessageBody -----------------------------
(***************************************************************************)
(* The data of a process request on its two ways: a request is filled in   *)
(* (MessageFill) before the process is called, its reply is converted      *)
(* (MessageJson) after.  The process is between them, and a reply may be   *)
(* anything; so a behaviour is either way, of any data.                    *)
(***************************************************************************)
EXTENDS Sequences

CONSTANTS
    Bodies,    \* requests to fill in
    Replies    \* replies to convert

VARIABLES
    stage,                             \* the way this is: "filling" or "converting"
    request, text, calls, visited,     \* of MessageFill
    reply, converting, response        \* of MessageJson

fillside == <<request, text, calls, visited>>
jsonside == <<reply, converting, response>>

messagevars == <<stage, fillside, jsonside>>

Fill == INSTANCE MessageFill WITH Requests <- Bodies
Json == INSTANCE MessageJson WITH calls <- converting

ASSUME MessagesAssumption == Fill!RequestsOK /\ Json!RepliesOK

NoReply   == reply = <<>> /\ converting = <<>> /\ response = <<>>
NoRequest == request = <<>> /\ text = <<>> /\ calls = <<>> /\ visited = {}
NoMessage == NoReply /\ NoRequest

MessageInit ==
    \/ stage = "filling" /\ Fill!Init /\ NoReply
    \/ stage = "converting" /\ Json!Init /\ NoRequest

FillIn  == stage = "filling" /\ Fill!Next /\ UNCHANGED <<stage, jsonside>>
Convert == stage = "converting" /\ Json!Next /\ UNCHANGED <<stage, fillside>>

MessageNext == FillIn \/ Convert

MessageSpec == MessageInit /\ [][MessageNext]_messagevars

-----------------------------------------------------------------------------
(* Properties                                                              *)

(* Each leaf of a request to the process holds the string found in the     *)
(* parameters under the names on the way to it (setParams of BpsProcess).  *)
FilledByPath == stage = "filling" => Fill!FilledByPath

(* The response has what the reply has, in order and at every depth, but   *)
(* for texts of one name (Xml2JsonUtil).                                   *)
ConvertedAsReferenced == stage = "converting" => Json!ConvertedAsReferenced
=============================================================================
