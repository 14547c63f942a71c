---------------------------- MODULE PacketStream ----------------------------
(***************************************************************************)
(* What the receiving half of NetworkManager_Wrapper promises to            *)
(* NetworkManager: on one connection the bodies handed to                   *)
(* onConnectionDataReceived are the bodies the server sent, in order, none  *)
(* lost, repeated, merged or cut, however the network split the bytes.      *)
(* The promise ends when the stream is lost (a length the parser refuses,   *)
(* or a reset in the middle of a connection) until the next connection.     *)
(***************************************************************************)
EXTENDS Naturals, Sequences

VARIABLES
    sent,       \* the bodies of the packets sent on this connection
    delivered,  \* the bodies handed to the delegate on this connection
    lost        \* the promise is off until the next connection

vars == <<sent, delivered, lost>>

Init == sent = <<>> /\ delivered = <<>> /\ lost = FALSE

Send ==
    /\ Len(sent') = Len(sent) + 1
    /\ \A k \in DOMAIN sent : sent'[k] = sent[k]
    /\ UNCHANGED <<delivered, lost>>

Deliver ==
    /\ ~ lost
    /\ Len(delivered) < Len(sent)
    /\ delivered' = Append(delivered, sent[Len(delivered) + 1])
    /\ UNCHANGED <<sent, lost>>

Lose == lost' = TRUE /\ UNCHANGED <<sent, delivered>>

DeliverAnything ==
    /\ lost
    /\ Len(delivered') = Len(delivered) + 1
    /\ UNCHANGED <<sent, lost>>

NewConnection == sent' = <<>> /\ delivered' = <<>> /\ lost' = FALSE

Next == Send \/ Deliver \/ Lose \/ DeliverAnything \/ NewConnection

Spec == Init /\ [][Next]_vars
=============================================================================
