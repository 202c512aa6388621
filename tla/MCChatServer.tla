---------------------------- MODULE MCChatServer ----------------------------
(***************************************************************************)
(* ChatServer with two stories for its safety, and one for liveness.  The  *)
(* client `any' sends any first message at all and may leave at any time;  *)
(* the senders s1, s2 and the receivers v1, v2 log in as such.             *)
(***************************************************************************)
EXTENDS ChatServer, FiniteSets, TLC

CONSTANTS any, s1, s2, v1, v2, r1, r2

SendersHere == {s1, s2}
ReceiversHere == {v1, v2}
TwoRooms == {r1, r2}
OneRoom == {r1}

LoginOf(w) == IF w = any THEN LoginMessage
              ELSE [tag : IF w \in SendersHere THEN {"slogin"} ELSE {"rlogin"},
                    body : {"good"}]

AllWorkers == {any} \cup SendersHere \cup ReceiversHere
AllLogins == [w \in AllWorkers |-> LoginOf(w)]
AllMoods == [w \in AllWorkers |-> IF w = any THEN {"eof", "reset"} ELSE {}]
AllSymmetry == {f @@ g @@ h : f \in Permutations(SendersHere),
                              g \in Permutations(ReceiversHere), h \in Permutations(TwoRooms)}

Here == {w \in AllWorkers : pc[w] # "unborn"}

OneRoomInUse == \E name \in TwoRooms : /\ \A w \in Here : arg[w] \in {None, name}
                                       /\ \A i \in RoomId : rooms[i].name = name

\* Everything a session can go through, beside one other client with two rooms, and
\* beside a sender and a receiver with one.
Session == /\ Cardinality(Here \cap SendersHere) <= 1
           /\ Cardinality(Here \cap ReceiversHere) <= 1
           /\ said <= 1
           /\ Cardinality(Here) <= 2 \/ OneRoomInUse

\* Two senders who make no mistake race in the room of two receivers.
Race == /\ any \notin Here
        /\ OneRoomInUse
        /\ \A w \in Here : pc[w] # "s_err"

Stories == Session \/ Race

\* A sender, a receiver that stops reading or disappears, and one that stays.
FairWorkers == {s1, v1, v2}
FairLogins == [w \in FairWorkers |-> LoginOf(w)]
FairMoods == [w \in FairWorkers |-> IF w = v1 THEN {"stalled", "reset"} ELSE {}]
=============================================================================
