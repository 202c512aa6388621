------------------------------ MODULE MCClients ------------------------------
(* Clients with MAX_LEN scaled from 255 down to 9.  As a delivery an empty  *)
(* text is just short enough for a receiver, one of 1 just too long.  That  *)
(* of 14 is too long for the server: its second piece takes as much as      *)
(* receive does at a time, and, if it reads as a sendall of its own, has    *)
(* for a receiver a rest with the space to read as a delivery.  There is    *)
(* one descriptor less than there may be clients.                           *)
EXTENDS Clients

MCTexts == {1, 14}
MCDelivery == [p \in Senders |-> 7]
MCRoomKinds == {"plain", "tab"}
=============================================================================
