-------------------------- MODULE ChatServerProof --------------------------
(***************************************************************************)
(* What ChatServer guarantees for any number of connections, rooms and     *)
(* broadcasts.  First its pointers, rooms, users and locks; then what the  *)
(* clients see: one reply to each request, and everything that is said in  *)
(* a room, once and in one order; last, that it implements ChatRooms.      *)
(***************************************************************************)
EXTENDS ChatServer, SequenceTheorems, TLAPS

(***************************************************************************)
(* The inductive invariant.  The locks are held exactly at the points of   *)
(* the code where their Guards are alive, the rooms hold exactly the       *)
(* workers between add_member and remove_member, and a User lives exactly  *)
(* as long as its worker.                                                  *)
(***************************************************************************)
Holding == {"f_find", "f_create"}
Member == Listening \cup {"r_remove"}

\* The map points to Rooms of the right name, and never loses one: a Room is
\* created only for a name that has none.
MapOK == /\ \A n \in RoomNames : m_rooms[n] # NullPtr => rooms[m_rooms[n]].name = n
         /\ \A w \in Workers : pc[w] = "f_create" => m_rooms[arg[w]] = NullPtr

ServerLockOK == \A w \in Workers : pc[w] \in Holding <=> m_lock = w

RoomLockOK == \A r \in RoomId, w \in Workers :
                rooms[r].lock = w <=> pc[w] \in Broadcasting /\ current_room[w] = r

MembersOK == \A r \in RoomId, u \in Workers :
               u \in rooms[r].members <=> pc[u] \in Member /\ current_room[u] = r

UserOK == \A w \in Workers : user[w] = "live" <=> pc[w] \notin {"unborn", "done"}

\* The iterator of broadcast_message is at a member of the room.
NowOK == \A w \in Workers :
           now[w] # None => /\ pc[w] = "b_enqueue"
                            /\ now[w] \in rooms[current_room[w]].members

Inv == /\ TypeOK
       /\ NoNullDereference
       /\ UniqueRoom
       /\ MapOK
       /\ ServerLockOK
       /\ RoomLockOK
       /\ MembersOK
       /\ UserOK
       /\ NowOK

(***************************************************************************)
(* Types                                                                   *)
(***************************************************************************)
LEMMA TypeInit == Init => TypeOK
<1> SUFFICES ASSUME Init PROVE TypeOK
  OBVIOUS
<1>1. rooms \in Seq(RoomType) /\ Len(rooms) = 0
  BY EmptySeq DEF Init
<1>2. NoLogin \in LoginMessage
  BY DEF NoLogin, LoginMessage, LoginTags, LoginBodies
<1>3. hand \in [Workers -> Seq(1 .. MaxBroadcasts)]
      /\ mqueue \in [Workers -> Seq(1 .. MaxBroadcasts)]
      /\ heard \in [Workers -> Seq(1 .. MaxBroadcasts)]
  BY EmptySeq DEF Init
<1> QED BY <1>1, <1>2, <1>3, ChatAssumption
        DEF Init, TypeOK, NullPtr, Points, Finding, Broadcasting, Listening, BlockedOnClient

LEMMA PointNames ==
  /\ "unborn" \in Points /\ "login" \in Points /\ "l_invalid" \in Points
  /\ "l_ok" \in Points /\ "l_reject" \in Points
  /\ "s_recv" \in Points /\ "s_ok" \in Points /\ "s_err" \in Points /\ "s_quit" \in Points
  /\ "f_lock" \in Points /\ "f_find" \in Points /\ "f_create" \in Points
  /\ "b_lock" \in Points /\ "b_loop" \in Points /\ "b_enqueue" \in Points
  /\ "r_join" \in Points /\ "r_reject" \in Points /\ "r_add" \in Points
  /\ "r_ok" \in Points /\ "r_deq" \in Points /\ "r_send" \in Points
  /\ "r_remove" \in Points /\ "cleanup" \in Points /\ "done" \in Points
  BY DEF Points, Finding, Broadcasting, BlockedOnClient

LEMMA PcType ==
  ASSUME TypeOK, NEW w \in Workers, NEW from, NEW to \in Points, Goto(w, from, to)
  PROVE  pc' \in [Workers -> Points]
  BY DEF TypeOK, Goto

LEMMA ReplyType ==
  ASSUME TypeOK, NEW w \in Workers,
         NEW from \in Points, NEW next \in Points, NEW failed \in Points,
         Reply(w, from, next, failed)
  PROVE  TypeOK'
<1>1. UNCHANGED <<peer, login_mes, arg, text, current_room, visited, now, hand,
                  m_lock, m_rooms, rooms, user, mqueue, said, heard, joined>>
  BY DEF Reply, thread, server, mail, history
<1>2. pc' \in [Workers -> Points] /\ owed' \in [Workers -> Int]
  <2>1. pc \in [Workers -> Points] /\ owed \in [Workers -> Int]
    BY DEF TypeOK
  <2>2. \/ pc' = [pc EXCEPT ![w] = next] /\ owed' = [owed EXCEPT ![w] = @ - 1]
        \/ pc' = [pc EXCEPT ![w] = failed] /\ owed' = owed
    BY DEF Reply, Goto
  <2> QED BY <2>1, <2>2
<1> QED BY <1>1, <1>2 DEF TypeOK

\* A Room that changes in place leaves the others, and the pointers to it, alone.
LEMMA RoomChange ==
  ASSUME TypeOK, NEW r \in 1 .. Len(rooms), NEW e \in RoomType,
         rooms' = [rooms EXCEPT ![r] = e]
  PROVE  /\ rooms' \in Seq(RoomType)
         /\ Len(rooms') = Len(rooms)
         /\ \A j \in 1 .. Len(rooms) : rooms'[j] = IF j = r THEN e ELSE rooms[j]
<1>1. rooms \in Seq(RoomType)
  BY DEF TypeOK
<1> HIDE DEF RoomType
<1> QED BY <1>1, ExceptSeq

LEMMA CurrentRoom ==
  ASSUME TypeOK, NoNullDereference, NEW w \in Workers, pc[w] \in InRoom
  PROVE  /\ current_room[w] \in 1 .. Len(rooms)
         /\ rooms \in Seq(RoomType)
         /\ rooms[current_room[w]] \in RoomType
  BY SMTT(30), ElementOfSeq DEF TypeOK, NoNullDereference, NullPtr

LEMMA TypeStep == TypeOK /\ NoNullDereference /\ [Next]_vars => TypeOK'
<1> SUFFICES ASSUME TypeOK, NoNullDereference, [Next]_vars PROVE TypeOK'
  OBVIOUS
<1> USE ChatAssumption DEF thread, server, mail, history
<1>1. ASSUME NEW w \in Workers, Client(w) PROVE TypeOK'
  <2>1. peer' \in [Workers -> {"unattended", "up", "stalled", "eof", "reset"}]
    <3>1. PICK to \in {"stalled", "up", "eof", "reset"} :
             peer' = [peer EXCEPT ![w] = to]
      BY <1>1 DEF Client, Becomes
    <3> QED BY <3>1 DEF TypeOK
  <2>2. UNCHANGED <<owed, pc, login_mes, arg, text, current_room, visited, now, hand,
                    m_lock, m_rooms, rooms, user, mqueue, said, heard, joined>>
    BY <1>1 DEF Client
  <2> QED BY <2>1, <2>2 DEF TypeOK
<1>2. ASSUME NEW w \in Workers, Accept(w) PROVE TypeOK'
  <2>1. pc' \in [Workers -> Points]
    BY <1>2, PointNames, PcType DEF Accept
  <2>2. /\ user' \in [Workers -> {"none", "live", "deleted"}]
        /\ peer' \in [Workers -> {"unattended", "up", "stalled", "eof", "reset"}]
    BY <1>2 DEF TypeOK, Accept
  <2> QED BY <1>2, <2>1, <2>2 DEF TypeOK, Accept
<1>3. ASSUME NEW w \in Workers, Login(w) PROVE TypeOK'
  <2>1. PICK mes \in Logins[w] :
          /\ login_mes' = [login_mes EXCEPT ![w] = mes]
          /\ pc' = [pc EXCEPT ![w] = IF mes.tag = "unknown" THEN "l_invalid"
                                     ELSE LoginVerdict(mes.body)]
    BY <1>3 DEF Login
  <2>2. pc' \in [Workers -> Points]
    BY <2>1, PointNames DEF TypeOK, LoginVerdict
  <2>3. login_mes' \in [Workers -> LoginMessage]
    BY <2>1 DEF TypeOK
  <2>4. owed' \in [Workers -> Int]
    BY <1>3 DEF TypeOK, Login, Received
  <2> QED BY <1>3, <2>2, <2>3, <2>4 DEF TypeOK, Login
<1>4. ASSUME NEW w \in Workers, SenderRequest(w) PROVE TypeOK'
  <2>1. PICK to \in {"s_err", "f_lock", "s_ok", "b_lock", "s_quit"} : Request(w, to)
    BY <1>4 DEF SenderRequest, BadRequest, Join, Leave, SendAll, Quit
  <2>2. pc' \in [Workers -> Points] /\ owed' \in [Workers -> Int]
    <3>1. pc' \in [Workers -> Points]
      BY <2>1, PointNames, PcType DEF Request
    <3>2. owed' \in [Workers -> Int]
      BY <2>1 DEF TypeOK, Request, Received
    <3> QED BY <3>1, <3>2
  <2>3. said' \in 0 .. MaxBroadcasts
    BY <1>4 DEF TypeOK, SenderRequest, BadRequest, Join, Leave, SendAll, Quit
  <2>4. arg' \in [Workers -> RoomNames \cup {None}]
    BY <1>4 DEF TypeOK, SenderRequest, BadRequest, Join, Leave, SendAll, Quit
  <2>5. text' \in [Workers -> 0 .. MaxBroadcasts]
    <3>1. \/ text' = text
          \/ text' = [text EXCEPT ![w] = said']
      BY <1>4 DEF SenderRequest, BadRequest, Join, Leave, SendAll, Quit
    <3> QED BY <2>3, <3>1 DEF TypeOK
  <2>6. current_room' \in [Workers -> 0 .. Len(rooms)]
    <3>1. Len(rooms) \in Nat /\ current_room \in [Workers -> 0 .. Len(rooms)]
      BY LenProperties DEF TypeOK
    <3>2. \/ current_room' = current_room
          \/ current_room' = [current_room EXCEPT ![w] = 0]
      BY <1>4 DEF SenderRequest, BadRequest, Join, Leave, SendAll, Quit, NullPtr
    <3> QED BY <3>1, <3>2
  <2> QED BY <2>1, <2>2, <2>3, <2>4, <2>5, <2>6 DEF TypeOK, Request
<1>5. ASSUME NEW w \in Workers, JoinRequest(w) PROVE TypeOK'
  <2>1. pc' \in [Workers -> Points]
    BY <1>5, PointNames, PcType DEF JoinRequest
  <2>2. arg' \in [Workers -> RoomNames \cup {None}]
    BY ZenonT(60), <1>5 DEF TypeOK, JoinRequest
  <2>3. owed' \in [Workers -> Int]
    BY <1>5 DEF TypeOK, JoinRequest, Received
  <2> QED BY <1>5, <2>1, <2>2, <2>3 DEF TypeOK, JoinRequest
<1>6. ASSUME NEW w \in Workers, ServerLock(w) PROVE TypeOK'
  <2>1. pc' \in [Workers -> Points]
    BY <1>6, PointNames, PcType DEF ServerLock
  <2> QED BY <1>6, <2>1 DEF TypeOK, ServerLock
<1>7. ASSUME NEW w \in Workers, AddMember(w) PROVE TypeOK'
  <2>1. pc' \in [Workers -> Points]
    BY <1>7, PointNames, PcType DEF AddMember
  <2>2. /\ current_room[w] \in 1 .. Len(rooms)
        /\ rooms \in Seq(RoomType)
        /\ rooms[current_room[w]] \in RoomType
    BY <1>7, CurrentRoom DEF InRoom, AddMember, Goto
  <2>3. rooms' \in Seq(RoomType) /\ Len(rooms') = Len(rooms)
    <3> DEFINE e == [rooms[current_room[w]] EXCEPT !.members = @ \cup {w}]
    <3>1. rooms' = [rooms EXCEPT ![current_room[w]] = e]
      BY <1>7 DEF AddMember
    <3>2. e \in RoomType
      BY <2>2 DEF RoomType
    <3> HIDE DEF e
    <3> QED BY <2>2, <3>1, <3>2, RoomChange
  <2>4. joined' \in [Workers -> Nat]
    <3>1. Len(rooms[current_room[w]].log) \in Nat
      BY <2>2, LenProperties DEF RoomType
    <3> QED BY <1>7, <3>1 DEF TypeOK, AddMember
  <2> QED BY <1>7, <2>1, <2>3, <2>4 DEF TypeOK, AddMember
<1>8. ASSUME NEW w \in Workers, BroadcastLock(w) PROVE TypeOK'
  <2>1. pc' \in [Workers -> Points]
    BY <1>8, PointNames, PcType DEF BroadcastLock
  <2>2. /\ current_room[w] \in 1 .. Len(rooms)
        /\ rooms \in Seq(RoomType)
        /\ rooms[current_room[w]] \in RoomType
    BY <1>8, CurrentRoom DEF InRoom, BroadcastLock, Goto
  <2>3. rooms' \in Seq(RoomType) /\ Len(rooms') = Len(rooms)
    <3> DEFINE new == Append(rooms[current_room[w]].log, text[w])
               e == [rooms[current_room[w]] EXCEPT !.lock = w, !.log = new]
    <3>1. rooms' = [rooms EXCEPT ![current_room[w]] = e]
      BY <1>8 DEF BroadcastLock
    <3>2. text[w] \in 1 .. MaxBroadcasts
      BY <1>8 DEF TypeOK, NoNullDereference, BroadcastLock, Goto
    <3>3. new \in Seq(1 .. MaxBroadcasts)
      BY <2>2, <3>2, AppendProperties DEF RoomType
    <3> HIDE DEF new
    <3>4. e \in RoomType
      BY <2>2, <3>3 DEF RoomType
    <3> HIDE DEF e
    <3> QED BY <2>2, <3>1, <3>4, RoomChange
  <2> QED BY <1>8, <2>1, <2>3 DEF TypeOK, BroadcastLock
<1>9. ASSUME NEW w \in Workers, RemoveMember(w) PROVE TypeOK'
  <2>1. pc' \in [Workers -> Points]
    BY <1>9, PointNames, PcType DEF RemoveMember
  <2>2. /\ current_room[w] \in 1 .. Len(rooms)
        /\ rooms \in Seq(RoomType)
        /\ rooms[current_room[w]] \in RoomType
    BY <1>9, CurrentRoom DEF InRoom, RemoveMember, Goto
  <2>3. rooms' \in Seq(RoomType) /\ Len(rooms') = Len(rooms)
    <3> DEFINE e == [rooms[current_room[w]] EXCEPT !.members = @ \ {w}]
    <3>1. rooms' = [rooms EXCEPT ![current_room[w]] = e]
      BY <1>9 DEF RemoveMember
    <3>2. e \in RoomType
      BY <2>2 DEF RoomType
    <3> HIDE DEF e
    <3> QED BY <2>2, <3>1, <3>2, RoomChange
  <2> QED BY <1>9, <2>1, <2>3 DEF TypeOK, RemoveMember
<1>10. ASSUME NEW w \in Workers, BroadcastReturn(w) PROVE TypeOK'
  <2>1. pc' \in [Workers -> Points]
    BY <1>10, PointNames, PcType DEF BroadcastReturn
  <2>2. /\ current_room[w] \in 1 .. Len(rooms)
        /\ rooms \in Seq(RoomType)
        /\ rooms[current_room[w]] \in RoomType
    BY <1>10, CurrentRoom DEF InRoom, Broadcasting, BroadcastReturn, Goto
  <2>3. rooms' \in Seq(RoomType) /\ Len(rooms') = Len(rooms)
    <3> DEFINE e == [rooms[current_room[w]] EXCEPT !.lock = None]
    <3>1. rooms' = [rooms EXCEPT ![current_room[w]] = e]
      BY <1>10 DEF BroadcastReturn
    <3>2. e \in RoomType
      BY <2>2 DEF RoomType
    <3> HIDE DEF e
    <3> QED BY <2>2, <3>1, <3>2, RoomChange
  <2>4. visited' \in [Workers -> SUBSET Workers]
    BY <1>10 DEF TypeOK, BroadcastReturn
  <2>5. text' \in [Workers -> 0 .. MaxBroadcasts]
    BY <1>10 DEF TypeOK, BroadcastReturn
  <2> QED BY <1>10, <2>1, <2>3, <2>4, <2>5 DEF TypeOK, BroadcastReturn
<1>11. ASSUME NEW w \in Workers, ReceiveEof(w) PROVE TypeOK'
  <2>1. pc' \in [Workers -> Points]
    BY <1>11, PointNames, PcType DEF ReceiveEof
  <2> QED BY <1>11, <2>1 DEF TypeOK, ReceiveEof
<1>12. ASSUME NEW w \in Workers, LoginReply(w) \/ SenderReply(w) \/ ReceiverReply(w)
       PROVE TypeOK'
  <2>1. LoginVerdict(login_mes[w].body) \in Points
    BY PointNames DEF LoginVerdict
  <2>2. AfterLogin[login_mes[w].tag] \in Points
    BY SMTT(30), PointNames DEF TypeOK, LoginMessage, LoginTags, AfterLogin
  <2>3. CASE LoginReply(w)
    BY <2>1, <2>2, <2>3, PointNames, ReplyType DEF LoginReply
  <2>4. CASE SenderReply(w)
    BY <2>4, PointNames, ReplyType DEF SenderReply
  <2>5. CASE ReceiverReply(w)
    BY <2>5, PointNames, ReplyType DEF ReceiverReply
  <2> QED BY <1>12, <2>3, <2>4, <2>5
<1>13. ASSUME NEW w \in Workers, FindRoom(w) PROVE TypeOK'
  <2>1. /\ pc' \in [Workers -> Points]
    BY <1>13, PointNames, PcType DEF FindRoom, FindReturns
  <2>2. arg[w] \in RoomNames
    BY <1>13 DEF NoNullDereference, FindRoom, Finding
  <2>3. current_room' \in [Workers -> 0 .. Len(rooms)]
    <3>1. /\ m_rooms[arg[w]] \in 0 .. Len(rooms)
          /\ current_room \in [Workers -> 0 .. Len(rooms)]
      BY <2>2 DEF TypeOK
    <3>2. \/ current_room' = [current_room EXCEPT ![w] = m_rooms[arg[w]]]
          \/ current_room' = current_room
      BY <1>13 DEF FindRoom, FindReturns
    <3> QED BY <3>1, <3>2
  <2>4. arg' \in [Workers -> RoomNames \cup {None}] /\ m_lock' \in Workers \cup {None}
    BY <1>13 DEF TypeOK, FindRoom, FindReturns
  <2> QED BY <1>13, <2>1, <2>3, <2>4 DEF TypeOK, FindRoom
<1>14. ASSUME NEW w \in Workers, CreateRoom(w) PROVE TypeOK'
  <2>1. /\ pc' \in [Workers -> Points]
    BY <1>14, PointNames, PcType DEF CreateRoom, FindReturns
  <2>2. arg[w] \in RoomNames
    BY <1>14 DEF NoNullDereference, CreateRoom, Finding, FindReturns, Goto
  <2>3. rooms' \in Seq(RoomType) /\ Len(rooms') = Len(rooms) + 1 /\ Len(rooms) \in Nat
    <3>1. NewRoom(arg[w]) \in RoomType
      BY <2>2, EmptySeq DEF NewRoom, RoomType
    <3>2. rooms \in Seq(RoomType) /\ rooms' = Append(rooms, NewRoom(arg[w]))
      BY <1>14 DEF TypeOK, CreateRoom
    <3> HIDE DEF RoomType, NewRoom
    <3> QED BY <3>1, <3>2, AppendProperties, LenProperties
  <2>4. m_rooms' \in [RoomNames -> 0 .. Len(rooms')] /\ m_rooms'[arg[w]] = Len(rooms')
    <3>1. m_rooms \in [RoomNames -> 0 .. Len(rooms)]
      BY DEF TypeOK
    <3>2. m_rooms' = [m_rooms EXCEPT ![arg[w]] = Len(rooms) + 1]
      BY <1>14 DEF CreateRoom
    <3> QED BY <2>2, <2>3, <3>1, <3>2
  <2>5. current_room' \in [Workers -> 0 .. Len(rooms')]
    <3>1. current_room \in [Workers -> 0 .. Len(rooms)]
      BY DEF TypeOK
    <3>2. current_room' = [current_room EXCEPT ![w] = Len(rooms')]
      BY <1>14, <2>4 DEF CreateRoom, FindReturns
    <3> QED BY <2>3, <3>1, <3>2
  <2>6. arg' \in [Workers -> RoomNames \cup {None}] /\ m_lock' \in Workers \cup {None}
    BY <1>14 DEF TypeOK, CreateRoom, FindReturns
  <2> QED BY <1>14, <2>1, <2>3, <2>4, <2>5, <2>6 DEF TypeOK, CreateRoom
<1>15. ASSUME NEW w \in Workers, BroadcastNext(w) PROVE TypeOK'
  <2>1. pc' \in [Workers -> Points]
    BY <1>15, PointNames, PcType DEF BroadcastNext
  <2>2. rooms[current_room[w]].members \subseteq Workers
    BY <1>15, CurrentRoom DEF InRoom, Broadcasting, BroadcastNext, Goto, RoomType
  <2>3. now' \in [Workers -> Workers \cup {None}]
    BY <1>15, <2>2 DEF TypeOK, BroadcastNext
  <2> QED BY <1>15, <2>1, <2>3 DEF TypeOK, BroadcastNext
<1>16. ASSUME NEW w \in Workers, BroadcastEnqueue(w) PROVE TypeOK'
  <2>1. pc' \in [Workers -> Points]
    BY <1>16, PointNames, PcType DEF BroadcastEnqueue
  <2>2. now[w] \in Workers /\ text[w] \in 1 .. MaxBroadcasts
    BY SMTT(30), <1>16 DEF TypeOK, NoNullDereference, BroadcastEnqueue, Goto, Broadcasting
  <2>3. mqueue' \in [Workers -> Seq(1 .. MaxBroadcasts)]
    <3>1. Append(mqueue[now[w]], text[w]) \in Seq(1 .. MaxBroadcasts)
      BY <2>2, AppendProperties DEF TypeOK
    <3> QED BY <1>16, <2>2, <3>1 DEF TypeOK, BroadcastEnqueue
  <2>4. visited' \in [Workers -> SUBSET Workers]
    BY <1>16, <2>2 DEF TypeOK, BroadcastEnqueue
  <2>5. now' \in [Workers -> Workers \cup {None}]
    BY <1>16 DEF TypeOK, BroadcastEnqueue
  <2> QED BY <1>16, <2>1, <2>3, <2>4, <2>5 DEF TypeOK, BroadcastEnqueue
<1>17. ASSUME NEW w \in Workers, Dequeue(w) PROVE TypeOK'
  <2>1. pc' \in [Workers -> Points]
    BY <1>17, PointNames, PcType DEF Dequeue
  <2>2. mqueue[w] \in Seq(1 .. MaxBroadcasts) /\ mqueue[w] # << >>
    BY <1>17 DEF TypeOK, Dequeue
  <2>3. Head(mqueue[w]) \in 1 .. MaxBroadcasts /\ Tail(mqueue[w]) \in Seq(1 .. MaxBroadcasts)
    BY <2>2, HeadTailProperties
  <2>4. hand' \in [Workers -> Seq(1 .. MaxBroadcasts)]
    BY <1>17, <2>3 DEF TypeOK, Dequeue
  <2>5. mqueue' \in [Workers -> Seq(1 .. MaxBroadcasts)]
    BY <1>17, <2>3 DEF TypeOK, Dequeue
  <2> QED BY <1>17, <2>1, <2>4, <2>5 DEF TypeOK, Dequeue
<1>18. ASSUME NEW w \in Workers, Deliver(w) PROVE TypeOK'
  <2>1. pc' \in [Workers -> Points]
    BY <1>18, PointNames, PcType DEF Deliver
  <2>2. heard[w] \o hand[w] \in Seq(1 .. MaxBroadcasts)
    BY ConcatProperties DEF TypeOK
  <2>3. heard' \in [Workers -> Seq(1 .. MaxBroadcasts)]
    BY <1>18, <2>2 DEF TypeOK, Deliver
  <2>4. hand' \in [Workers -> Seq(1 .. MaxBroadcasts)]
    BY <1>18, EmptySeq DEF TypeOK, Deliver
  <2> QED BY <1>18, <2>1, <2>3, <2>4 DEF TypeOK, Deliver
<1>19. ASSUME NEW w \in Workers, Cleanup(w) PROVE TypeOK'
  <2>1. pc' \in [Workers -> Points]
    BY <1>19, PointNames, PcType DEF Cleanup
  <2>2. user' \in [Workers -> {"none", "live", "deleted"}]
    BY <1>19 DEF TypeOK, Cleanup
  <2>3. mqueue' \in [Workers -> Seq(1 .. MaxBroadcasts)]
    BY <1>19, EmptySeq DEF TypeOK, Cleanup
  <2>4. peer' \in [Workers -> {"unattended", "up", "stalled", "eof", "reset"}]
    BY <1>19 DEF TypeOK, Cleanup
  <2>5. owed' \in [Workers -> Int]
    BY <1>19 DEF TypeOK, Cleanup
  <2>6. login_mes' \in [Workers -> LoginMessage]
    BY <1>19 DEF TypeOK, Cleanup, NoLogin, LoginMessage, LoginTags, LoginBodies
  <2>7. current_room' \in [Workers -> 0 .. Len(rooms)]
    <3>1. Len(rooms) \in Nat /\ current_room \in [Workers -> 0 .. Len(rooms)]
      BY LenProperties DEF TypeOK
    <3> QED BY <1>19, <3>1 DEF Cleanup, NullPtr
  <2>8. text' \in [Workers -> 0 .. MaxBroadcasts]
    BY <1>19 DEF TypeOK, Cleanup
  <2> QED BY <1>19, <2>1, <2>2, <2>3, <2>4, <2>5, <2>6, <2>7, <2>8 DEF TypeOK, Cleanup
<1>20. CASE UNCHANGED vars
  BY <1>20 DEF TypeOK, vars
<1> QED
  BY <1>1, <1>2, <1>3, <1>4, <1>5, <1>6, <1>7, <1>8, <1>9, <1>10, <1>11, <1>12, <1>13,
     <1>14, <1>15, <1>16, <1>17, <1>18, <1>19, <1>20
  DEF Next, Reads, Locks, Runs, DequeueNothing, Quiet

(***************************************************************************)
(* What the steps change.                                                  *)
(***************************************************************************)
LEMMA GotoAt ==
  ASSUME TypeOK, NEW w \in Workers, NEW from, NEW to, Goto(w, from, to)
  PROVE  /\ pc[w] = from
         /\ pc'[w] = to
         /\ \A v \in Workers \ {w} : pc'[v] = pc[v]
  BY DEF TypeOK, Goto

\* A step that touches no lock, no room, no map and no User, and that enters
\* or leaves none of the parts of the code which the invariant is about.
Private ==
  /\ UNCHANGED <<rooms, m_lock, m_rooms, user>>
  /\ \A v \in Workers :
       /\ pc[v] \in Holding <=> pc'[v] \in Holding
       /\ pc[v] \in Broadcasting <=> pc'[v] \in Broadcasting
       /\ pc[v] \in Member <=> pc'[v] \in Member
       /\ pc[v] \in {"unborn", "done"} <=> pc'[v] \in {"unborn", "done"}
       /\ pc'[v] = "f_create" => pc[v] = "f_create" /\ arg'[v] = arg[v]
       /\ pc[v] \in Broadcasting \cup Member => current_room'[v] = current_room[v]

PrivateStep(w) == \/ Client(w) \/ Reads(w) \/ ReceiveEof(w)
                  \/ LoginReply(w) \/ SenderReply(w) \/ ReceiverReply(w)
                  \/ BroadcastNext(w) \/ BroadcastEnqueue(w)
                  \/ Dequeue(w) \/ Deliver(w)

LEMMA LoginGoesOn ==
  ASSUME TypeOK, NEW w \in Workers
  PROVE  AfterLogin[login_mes[w].tag] \in {"s_recv", "r_join", "l_reject"}
<1>1. login_mes[w] \in LoginMessage
  BY DEF TypeOK
<1> QED BY <1>1 DEF LoginMessage, LoginTags, AfterLogin

LEMMA PrivateReply ==
  ASSUME TypeOK, NEW w \in Workers, NEW from, NEW next, NEW failed, Reply(w, from, next, failed),
         \A to \in {next, failed} :
           /\ from \notin Holding \cup Broadcasting /\ to \notin Holding \cup Broadcasting
           /\ from \in Member <=> to \in Member
           /\ from \notin {"unborn", "done"} /\ to \notin {"unborn", "done"}
  PROVE  Private
<1>1. UNCHANGED <<rooms, m_lock, m_rooms, user, arg, current_room>>
  BY DEF Reply, thread, server, mail
<1>2. PICK to \in {next, failed} : Goto(w, from, to)
  BY DEF Reply
<1>3. /\ pc[w] = from
      /\ pc'[w] = to
      /\ \A v \in Workers \ {w} : pc'[v] = pc[v]
  BY <1>2, GotoAt
<1> QED BY <1>1, <1>3 DEF Private, Holding

LEMMA PrivateSteps == ASSUME TypeOK, NEW w \in Workers, PrivateStep(w) PROVE Private
<1> USE DEF Holding, Broadcasting, Member, Listening, thread, server, mail
<1>1. CASE Client(w)
  BY <1>1 DEF Client, Private
<1>2. CASE Login(w)
  <2>1. PICK to \in {"l_invalid", "l_ok", "l_reject"} : Goto(w, "login", to)
    BY <1>2 DEF Login, LoginVerdict, Goto
  <2>2. UNCHANGED <<rooms, m_lock, m_rooms, user, arg, current_room>>
    BY <1>2 DEF Login
  <2> QED BY <2>1, <2>2, GotoAt DEF Private
<1>3. CASE SenderRequest(w)
  <2>1. PICK to \in {"s_err", "f_lock", "s_ok", "b_lock", "s_quit"} : Goto(w, "s_recv", to)
    BY <1>3 DEF SenderRequest, BadRequest, Join, Leave, SendAll, Quit, Request
  <2>2. UNCHANGED <<rooms, m_lock, m_rooms, user>>
    BY <1>3 DEF SenderRequest, BadRequest, Join, Leave, SendAll, Quit, Request
  <2>3. \A v \in Workers \ {w} : arg'[v] = arg[v] /\ current_room'[v] = current_room[v]
    BY <1>3 DEF TypeOK, SenderRequest, BadRequest, Join, Leave, SendAll, Quit
  <2> QED BY <2>1, <2>2, <2>3, GotoAt DEF Private
<1>4. CASE JoinRequest(w)
  <2>1. PICK to \in {"f_lock", "r_reject"} : Goto(w, "r_join", to)
    BY <1>4 DEF JoinRequest
  <2>2. UNCHANGED <<rooms, m_lock, m_rooms, user, current_room>>
    BY <1>4 DEF JoinRequest
  <2>3. \A v \in Workers \ {w} : arg'[v] = arg[v]
    BY <1>4 DEF TypeOK, JoinRequest
  <2> QED BY <2>1, <2>2, <2>3, GotoAt DEF Private
<1>5. CASE ReceiveEof(w)
  <2>1. UNCHANGED <<rooms, m_lock, m_rooms, user, arg, current_room>>
    BY <1>5 DEF ReceiveEof
  <2>2. PICK from \in {"login", "s_recv", "r_join"}, to \in {"cleanup", "r_reject"} :
          Goto(w, from, to)
    BY <1>5 DEF ReceiveEof
  <2> QED BY <2>1, <2>2, GotoAt DEF Private
<1>6. CASE LoginReply(w)
  <2>1. AfterLogin[login_mes[w].tag] \in {"s_recv", "r_join", "l_reject"}
    BY LoginGoesOn
  <2>2. LoginVerdict(login_mes[w].body) \in {"l_ok", "l_reject"}
    BY DEF LoginVerdict
  <2> QED BY <1>6, <2>1, <2>2, PrivateReply DEF LoginReply
<1>7. CASE SenderReply(w)
  BY <1>7, PrivateReply DEF SenderReply
<1>8. CASE ReceiverReply(w)
  BY <1>8, PrivateReply DEF ReceiverReply
<1>9. CASE BroadcastNext(w)
  BY <1>9, GotoAt DEF BroadcastNext, Private
<1>10. CASE BroadcastEnqueue(w)
  BY <1>10, GotoAt DEF BroadcastEnqueue, Private
<1>11. CASE Dequeue(w)
  BY <1>11, GotoAt DEF Dequeue, Private
<1>12. CASE Deliver(w)
  <2>1. UNCHANGED <<rooms, m_lock, m_rooms, user, arg, current_room>>
    BY <1>12 DEF Deliver
  <2>2. PICK to \in {"r_deq", "r_remove"} : Goto(w, "r_send", to)
    BY <1>12 DEF Deliver
  <2> QED BY <2>1, <2>2, GotoAt DEF Private
<1> QED
  BY <1>1, <1>2, <1>3, <1>4, <1>5, <1>6, <1>7, <1>8, <1>9, <1>10, <1>11, <1>12
  DEF PrivateStep, Reads

\* The four steps that change a Room in place.
RoomStep(w) == AddMember(w) \/ RemoveMember(w) \/ BroadcastLock(w) \/ BroadcastReturn(w)

LEMMA RoomSteps ==
  ASSUME TypeOK, NoNullDereference, NEW w \in Workers, RoomStep(w)
  PROVE  /\ current_room[w] \in RoomId
         /\ Len(rooms') = Len(rooms)
         /\ UNCHANGED <<m_lock, m_rooms, user, arg, current_room, now>>
         /\ \A j \in RoomId : /\ rooms'[j].name = rooms[j].name
                              /\ j # current_room[w] => rooms'[j] = rooms[j]
<1> DEFINE r == current_room[w]
<1>1. r \in 1 .. Len(rooms) /\ rooms[r] \in RoomType
  BY CurrentRoom
     DEF RoomStep, AddMember, RemoveMember, BroadcastLock, BroadcastReturn, Goto, InRoom,
         Broadcasting
<1>2. UNCHANGED <<m_lock, m_rooms, user, arg, current_room, now>>
  BY DEF RoomStep, AddMember, RemoveMember, BroadcastLock, BroadcastReturn, thread, server, mail
<1>3. PICK e : rooms' = [rooms EXCEPT ![r] = e] /\ e.name = rooms[r].name
  BY <1>1 DEF RoomStep, AddMember, RemoveMember, BroadcastLock, BroadcastReturn, RoomType
<1>4. rooms \in Seq(RoomType)
  BY DEF TypeOK
<1> HIDE DEF RoomType
<1> QED BY <1>1, <1>2, <1>3, <1>4 DEF RoomId

LEMMA Creation ==
  ASSUME TypeOK, NoNullDereference, NEW w \in Workers, CreateRoom(w)
  PROVE  LET new == Len(rooms) + 1 IN
         /\ new \notin RoomId /\ RoomId' = RoomId \cup {new}
         /\ rooms'[new] = NewRoom(arg[w])
         /\ \A j \in RoomId : rooms'[j] = rooms[j]
         /\ arg[w] \in RoomNames
         /\ \A n \in RoomNames : m_rooms'[n] = IF n = arg[w] THEN new ELSE m_rooms[n]
         /\ \A v \in Workers : current_room'[v] = IF v = w THEN new ELSE current_room[v]
         /\ \A v \in Workers \ {w} : pc'[v] = pc[v] /\ arg'[v] = arg[v]
         /\ pc[w] = "f_create" /\ pc'[w] \in {"s_ok", "r_add"}
         /\ m_lock' = None
         /\ UNCHANGED <<user, now>>
<1>1. /\ rooms \in Seq(RoomType) /\ NewRoom(arg[w]) \in RoomType
      /\ rooms' = Append(rooms, NewRoom(arg[w]))
  <2>1. arg[w] \in RoomNames
    BY DEF NoNullDereference, CreateRoom, Finding, FindReturns, Goto
  <2> QED BY <2>1, EmptySeq, ChatAssumption DEF TypeOK, CreateRoom, NewRoom, RoomType
<1>2. /\ Len(rooms) \in Nat
      /\ Len(rooms') = Len(rooms) + 1
      /\ rooms'[Len(rooms) + 1] = NewRoom(arg[w])
      /\ \A j \in RoomId : rooms'[j] = rooms[j]
  <2> HIDE DEF RoomType, NewRoom
  <2> QED BY <1>1, AppendProperties, LenProperties DEF RoomId
<1>3. /\ arg[w] \in RoomNames
      /\ \A n \in RoomNames :
           m_rooms'[n] = IF n = arg[w] THEN Len(rooms) + 1 ELSE m_rooms[n]
  BY DEF TypeOK, NoNullDereference, CreateRoom, Finding, FindReturns, Goto
<1>4. current_room' = [current_room EXCEPT ![w] = Len(rooms) + 1]
  BY <1>3 DEF CreateRoom, FindReturns
<1>5. /\ \A v \in Workers \ {w} : pc'[v] = pc[v] /\ arg'[v] = arg[v]
      /\ pc[w] = "f_create" /\ pc'[w] \in {"s_ok", "r_add"}
      /\ m_lock' = None
  BY SMTT(30), GotoAt DEF TypeOK, CreateRoom, FindReturns
<1>6. UNCHANGED <<user, now>>
  BY DEF CreateRoom, mail
<1> QED BY <1>2, <1>3, <1>4, <1>5, <1>6 DEF TypeOK, RoomId

\* FindRoom, when the map has a Room of the name.
Found(w) ==
  /\ UNCHANGED <<rooms, m_rooms, user, now>>
  /\ arg[w] \in RoomNames /\ m_rooms[arg[w]] # NullPtr
  /\ \A v \in Workers : current_room'[v] = IF v = w THEN m_rooms[arg[w]] ELSE current_room[v]
  /\ \A v \in Workers \ {w} : pc'[v] = pc[v] /\ arg'[v] = arg[v]
  /\ pc[w] = "f_find" /\ pc'[w] \in {"s_ok", "r_add"}
  /\ m_lock' = None

\* FindRoom, when it has not.
NotFound(w) ==
  /\ UNCHANGED <<rooms, m_rooms, user, now, current_room, arg, m_lock>>
  /\ arg[w] \in RoomNames /\ m_rooms[arg[w]] = NullPtr
  /\ \A v \in Workers \ {w} : pc'[v] = pc[v]
  /\ pc[w] = "f_find" /\ pc'[w] = "f_create"

LEMMA Search == ASSUME TypeOK, NoNullDereference, NEW w \in Workers, FindRoom(w)
                PROVE  Found(w) \/ NotFound(w)
<1>1. arg[w] \in RoomNames
  BY DEF NoNullDereference, FindRoom, Finding
<1>2. UNCHANGED <<rooms, m_rooms, user, now>>
  BY DEF FindRoom, mail
<1>3. CASE m_rooms[arg[w]] # NullPtr /\ FindReturns(w, "f_find", m_rooms[arg[w]])
  BY SMTT(30), <1>1, <1>2, <1>3, GotoAt DEF TypeOK, FindReturns, Found
<1>4. CASE /\ m_rooms[arg[w]] = NullPtr
           /\ Goto(w, "f_find", "f_create")
           /\ UNCHANGED <<current_room, arg, m_lock>>
  BY <1>1, <1>2, <1>4, GotoAt DEF NotFound
<1> QED BY <1>3, <1>4 DEF FindRoom

\* Every step of a worker.
Step(w) == PrivateStep(w) \/ RoomStep(w) \/ Accept(w) \/ ServerLock(w)
             \/ FindRoom(w) \/ CreateRoom(w) \/ Cleanup(w)

LEMMA Steps == ASSUME [Next]_vars
               PROVE  (\E w \in Workers : Step(w)) \/ UNCHANGED vars
  BY DEF Next, Reads, Locks, Runs, Step, PrivateStep, RoomStep, DequeueNothing, Quiet

\* The start and the end of a worker, and the server's lock.
LEMMA StartOrEnd ==
  ASSUME TypeOK, NEW w \in Workers, Accept(w) \/ Cleanup(w)
  PROVE  /\ UNCHANGED <<rooms, m_lock, m_rooms, now, arg>>
         /\ \A v \in Workers \ {w} : /\ pc'[v] = pc[v]
                                     /\ current_room'[v] = current_room[v]
                                     /\ user'[v] = user[v]
         /\ \/ pc[w] = "unborn" /\ pc'[w] = "login" /\ user'[w] = "live"
            \/ pc[w] = "cleanup" /\ pc'[w] = "done" /\ user'[w] = "deleted"
<1>1. CASE Accept(w)
  BY <1>1, GotoAt DEF TypeOK, Accept, thread, server
<1>2. CASE Cleanup(w)
  BY <1>2, GotoAt DEF TypeOK, Cleanup, server
<1> QED BY <1>1, <1>2

LEMMA LockTaken ==
  ASSUME TypeOK, NEW w \in Workers, ServerLock(w)
  PROVE  /\ UNCHANGED <<rooms, m_rooms, user, now, arg, current_room, text>>
         /\ m_lock = None /\ m_lock' = w
         /\ pc[w] = "f_lock" /\ pc'[w] = "f_find"
         /\ \A v \in Workers \ {w} : pc'[v] = pc[v]
  BY GotoAt DEF ServerLock, thread, mail

LEMMA RoomStepPoints ==
  ASSUME TypeOK, NEW w \in Workers, RoomStep(w)
  PROVE  /\ \A v \in Workers \ {w} : pc'[v] = pc[v]
         /\ \/ pc[w] = "r_add" /\ pc'[w] = "r_ok" /\ AddMember(w)
            \/ pc[w] = "r_remove" /\ pc'[w] = "cleanup" /\ RemoveMember(w)
            \/ pc[w] = "b_lock" /\ pc'[w] = "b_loop" /\ BroadcastLock(w)
            \/ pc[w] = "b_loop" /\ pc'[w] = "s_ok" /\ BroadcastReturn(w)
  BY GotoAt DEF RoomStep, AddMember, RemoveMember, BroadcastLock, BroadcastReturn

\* What they do to the Room.
LEMMA RoomStepFields ==
  ASSUME TypeOK, NoNullDereference, NEW w \in Workers
  PROVE  LET r == current_room[w] IN
         /\ AddMember(w) => /\ rooms[r].lock = None
                            /\ rooms'[r].lock = None
                            /\ rooms'[r].members = rooms[r].members \cup {w}
         /\ RemoveMember(w) => /\ rooms[r].lock = None
                               /\ rooms'[r].lock = None
                               /\ rooms'[r].members = rooms[r].members \ {w}
         /\ BroadcastLock(w) => /\ rooms[r].lock = None
                                /\ rooms'[r].lock = w
                                /\ rooms'[r].members = rooms[r].members
         /\ BroadcastReturn(w) => /\ rooms'[r].lock = None
                                  /\ rooms'[r].members = rooms[r].members
<1> DEFINE r == current_room[w]
<1>1. ASSUME RoomStep(w) PROVE r \in DOMAIN rooms /\ rooms[r] \in RoomType
  <2>1. rooms \in Seq(RoomType) /\ r \in 1 .. Len(rooms) /\ rooms[r] \in RoomType
    BY <1>1, CurrentRoom, RoomStepPoints DEF InRoom, Broadcasting
  <2> HIDE DEF RoomType, r
  <2> QED BY <2>1
<1>2. ASSUME AddMember(w)
      PROVE  /\ rooms[r].lock = None /\ rooms'[r].lock = None
             /\ rooms'[r].members = rooms[r].members \cup {w}
  BY <1>1, <1>2 DEF RoomStep, AddMember, RoomType
<1>3. ASSUME RemoveMember(w)
      PROVE  /\ rooms[r].lock = None /\ rooms'[r].lock = None
             /\ rooms'[r].members = rooms[r].members \ {w}
  BY <1>1, <1>3 DEF RoomStep, RemoveMember, RoomType
<1>4. ASSUME BroadcastLock(w)
      PROVE  /\ rooms[r].lock = None /\ rooms'[r].lock = w
             /\ rooms'[r].members = rooms[r].members
  BY <1>1, <1>4 DEF RoomStep, BroadcastLock, RoomType
<1>5. ASSUME BroadcastReturn(w)
      PROVE  rooms'[r].lock = None /\ rooms'[r].members = rooms[r].members
  BY <1>1, <1>5 DEF RoomStep, BroadcastReturn, RoomType
<1> QED BY <1>2, <1>3, <1>4, <1>5

(***************************************************************************)
(* Every step keeps every part of the invariant.                           *)
(***************************************************************************)
LEMMA UserStep ==
  ASSUME TypeOK, NoNullDereference, UserOK, NEW w \in Workers, Step(w) PROVE UserOK'
<1>1. CASE PrivateStep(w)
  BY <1>1, PrivateSteps DEF Private, UserOK
<1>2. CASE RoomStep(w)
  BY <1>2, RoomSteps, RoomStepPoints DEF UserOK
<1>3. CASE Accept(w) \/ Cleanup(w)
  BY <1>3, StartOrEnd DEF UserOK
<1>4. CASE ServerLock(w)
  BY <1>4, LockTaken DEF UserOK
<1>5. CASE FindRoom(w)
  BY <1>5, Search DEF UserOK, Found, NotFound
<1>6. CASE CreateRoom(w)
  BY <1>6, Creation DEF UserOK
<1> QED BY <1>1, <1>2, <1>3, <1>4, <1>5, <1>6 DEF Step

LEMMA ServerLockStep ==
  ASSUME TypeOK, NoNullDereference, ServerLockOK, NEW w \in Workers, Step(w)
  PROVE  ServerLockOK'
<1> USE ChatAssumption DEF Holding
<1>1. CASE PrivateStep(w)
  BY <1>1, PrivateSteps DEF Private, ServerLockOK
<1>2. CASE RoomStep(w)
  BY <1>2, RoomSteps, RoomStepPoints DEF ServerLockOK
<1>3. CASE Accept(w) \/ Cleanup(w)
  BY <1>3, StartOrEnd DEF ServerLockOK
<1>4. CASE ServerLock(w)
  BY <1>4, LockTaken DEF ServerLockOK
<1>5. CASE FindRoom(w)
  BY <1>5, Search DEF ServerLockOK, Found, NotFound
<1>6. CASE CreateRoom(w)
  BY <1>6, Creation DEF ServerLockOK
<1> QED BY <1>1, <1>2, <1>3, <1>4, <1>5, <1>6 DEF Step

LEMMA MapStep ==
  ASSUME TypeOK, NoNullDereference, UniqueRoom, MapOK, ServerLockOK,
         NEW w \in Workers, Step(w)
  PROVE  UniqueRoom' /\ MapOK'
<1> USE DEF NullPtr
<1>0. \A n \in RoomNames : m_rooms[n] \in Int /\ (m_rooms[n] # NullPtr => m_rooms[n] \in RoomId)
  BY DEF TypeOK, RoomId
<1>1. CASE PrivateStep(w)
  BY <1>1, PrivateSteps DEF Private, UniqueRoom, MapOK, RoomId
<1>2. CASE RoomStep(w)
  BY <1>0, <1>2, RoomSteps, RoomStepPoints DEF UniqueRoom, MapOK, RoomId
<1>3. CASE Accept(w) \/ Cleanup(w)
  BY <1>3, StartOrEnd DEF UniqueRoom, MapOK, RoomId
<1>4. CASE ServerLock(w)
  BY <1>4, LockTaken DEF UniqueRoom, MapOK, RoomId
<1>5. CASE FindRoom(w)
  BY <1>5, Search DEF UniqueRoom, MapOK, RoomId, Found, NotFound
<1>6. CASE CreateRoom(w)
  <2> DEFINE new == Len(rooms) + 1
  <2>1. /\ RoomId' = RoomId \cup {new} /\ new \notin RoomId
        /\ rooms'[new].name = arg[w]
        /\ \A j \in RoomId : rooms'[j] = rooms[j]
        /\ arg[w] \in RoomNames /\ m_rooms[arg[w]] = NullPtr
        /\ \A n \in RoomNames : m_rooms'[n] = IF n = arg[w] THEN new ELSE m_rooms[n]
    <3>1. /\ RoomId' = RoomId \cup {new} /\ new \notin RoomId
          /\ rooms'[new] = NewRoom(arg[w])
          /\ \A j \in RoomId : rooms'[j] = rooms[j]
          /\ arg[w] \in RoomNames /\ pc[w] = "f_create"
          /\ \A n \in RoomNames : m_rooms'[n] = IF n = arg[w] THEN new ELSE m_rooms[n]
      BY <1>6, Creation
    <3>2. m_rooms[arg[w]] = NullPtr
      BY <3>1 DEF MapOK
    <3>3. NewRoom(arg[w]).name = arg[w]
      BY DEF NewRoom
    <3> HIDE DEF new
    <3> QED BY <3>1, <3>2, <3>3
  <2>2. \A v \in Workers : pc'[v] # "f_create"
    BY <1>6, Creation DEF ServerLockOK, Holding
  <2> HIDE DEF new
  <2>3. UniqueRoom'
    <3> SUFFICES ASSUME NEW j \in RoomId' PROVE m_rooms'[rooms'[j].name] = j
      BY DEF UniqueRoom
    <3>1. CASE j = new
      BY <2>1, <3>1
    <3>2. CASE j \in RoomId
      <4>1. rooms[j] \in RoomType
        <5> HIDE DEF RoomType
        <5> QED BY <3>2, ElementOfSeq DEF TypeOK, RoomId
      <4>2. rooms[j].name \in RoomNames /\ m_rooms[rooms[j].name] = j /\ j # NullPtr
        BY <3>2, <4>1 DEF RoomType, UniqueRoom, RoomId
      <4> QED BY <2>1, <3>2, <4>2
    <3> QED BY <2>1, <3>1, <3>2
  <2>4. MapOK'
    <3>1. ASSUME NEW n \in RoomNames, m_rooms'[n] # NullPtr
          PROVE  rooms'[m_rooms'[n]].name = n
      <4>1. CASE n = arg[w]
        BY <2>1, <4>1
      <4>2. CASE n # arg[w]
        BY <1>0, <2>1, <3>1, <4>2 DEF MapOK
      <4> QED BY <4>1, <4>2
    <3> QED BY <2>2, <3>1 DEF MapOK
  <2> QED BY <2>3, <2>4
<1> QED BY <1>1, <1>2, <1>3, <1>4, <1>5, <1>6 DEF Step

LEMMA RoomLockStep ==
  ASSUME TypeOK, NoNullDereference, RoomLockOK, NEW w \in Workers, Step(w)
  PROVE  RoomLockOK'
<1> USE ChatAssumption DEF Broadcasting
<1>1. CASE PrivateStep(w)
  BY <1>1, PrivateSteps DEF Private, RoomLockOK, RoomId
<1>2. CASE RoomStep(w)
  <2>1. RoomId' = RoomId /\ current_room' = current_room /\ current_room[w] \in RoomId
    BY <1>2, RoomSteps DEF RoomId
  <2> SUFFICES ASSUME NEW r \in RoomId, NEW v \in Workers
               PROVE  rooms'[r].lock = v <=> pc'[v] \in Broadcasting /\ current_room'[v] = r
    BY <2>1 DEF RoomLockOK
  <2>2. CASE r # current_room[w]
    BY <1>2, <2>1, <2>2, RoomSteps, RoomStepPoints DEF RoomLockOK
  <2>3. CASE r = current_room[w]
    <3>1. /\ \A x \in Workers \ {w} : pc'[x] = pc[x]
          /\ \/ pc[w] = "r_add" /\ pc'[w] = "r_ok" /\ AddMember(w)
             \/ pc[w] = "r_remove" /\ pc'[w] = "cleanup" /\ RemoveMember(w)
             \/ pc[w] = "b_lock" /\ pc'[w] = "b_loop" /\ BroadcastLock(w)
             \/ pc[w] = "b_loop" /\ pc'[w] = "s_ok" /\ BroadcastReturn(w)
      BY <1>2, RoomStepPoints
    <3>2. CASE AddMember(w) \/ RemoveMember(w)
      <4>1. rooms[r].lock = None /\ rooms'[r].lock = None
        BY <2>3, <3>2, RoomStepFields
      <4>2. pc[w] \notin Broadcasting /\ pc'[w] \notin Broadcasting
        BY <3>1, <3>2 DEF AddMember, RemoveMember, Goto
      <4> QED BY <2>1, <3>1, <4>1, <4>2 DEF RoomLockOK
    <3>3. CASE BroadcastLock(w)
      <4>1. rooms[r].lock = None /\ rooms'[r].lock = w
        BY <2>3, <3>3, RoomStepFields
      <4>2. pc'[w] \in Broadcasting
        BY <3>3, GotoAt DEF BroadcastLock
      <4> QED BY <2>1, <2>3, <3>1, <4>1, <4>2 DEF RoomLockOK
    <3>4. CASE BroadcastReturn(w)
      <4>1. rooms'[r].lock = None
        BY <2>3, <3>4, RoomStepFields
      <4>2. pc[w] \in Broadcasting /\ pc'[w] \notin Broadcasting
        BY <3>4, GotoAt DEF BroadcastReturn
      <4>3. rooms[r].lock = w
        BY <2>3, <4>2 DEF RoomLockOK
      <4> QED BY <2>1, <2>3, <3>1, <4>1, <4>2, <4>3 DEF RoomLockOK
    <3> QED BY <1>2, <3>2, <3>3, <3>4 DEF RoomStep
  <2> QED BY <2>2, <2>3
<1>3. CASE Accept(w) \/ Cleanup(w)
  BY <1>3, StartOrEnd DEF RoomLockOK, RoomId
<1>4. CASE ServerLock(w)
  BY <1>4, LockTaken DEF RoomLockOK, RoomId
<1>5. CASE FindRoom(w)
  BY <1>5, Search DEF RoomLockOK, RoomId, Found, NotFound
<1>6. CASE CreateRoom(w)
  <2> DEFINE new == Len(rooms) + 1
  <2>1. /\ RoomId' = RoomId \cup {new} /\ new \notin RoomId
        /\ rooms'[new] = NewRoom(arg[w])
        /\ \A j \in RoomId : rooms'[j] = rooms[j]
        /\ \A v \in Workers : current_room'[v] = IF v = w THEN new ELSE current_room[v]
        /\ \A v \in Workers \ {w} : pc'[v] = pc[v]
        /\ pc[w] = "f_create" /\ pc'[w] \in {"s_ok", "r_add"}
    BY <1>6, Creation
  <2>2. NewRoom(arg[w]).lock = None
    BY DEF NewRoom
  <2>3. \A v \in Workers : current_room[v] # new
    BY DEF TypeOK
  <2> HIDE DEF new
  <2> QED BY <2>1, <2>2, <2>3 DEF RoomLockOK
<1> QED BY <1>1, <1>2, <1>3, <1>4, <1>5, <1>6 DEF Step

LEMMA MembersStep ==
  ASSUME TypeOK, NoNullDereference, MembersOK, NEW w \in Workers, Step(w)
  PROVE  MembersOK'
<1> USE DEF Member, Listening
<1>1. CASE PrivateStep(w)
  BY <1>1, PrivateSteps DEF Private, MembersOK, RoomId
<1>2. CASE RoomStep(w)
  <2>1. RoomId' = RoomId /\ current_room' = current_room /\ current_room[w] \in RoomId
    BY <1>2, RoomSteps DEF RoomId
  <2> SUFFICES ASSUME NEW r \in RoomId, NEW u \in Workers
               PROVE  u \in rooms'[r].members <=> pc'[u] \in Member /\ current_room'[u] = r
    BY <2>1 DEF MembersOK
  <2>2. CASE r # current_room[w]
    BY <1>2, <2>1, <2>2, RoomSteps, RoomStepPoints DEF MembersOK
  <2>3. CASE r = current_room[w]
    <3>0. \A x \in Workers \ {w} : pc'[x] = pc[x]
      BY <1>2, RoomStepPoints
    <3>1. CASE AddMember(w)
      <4>1. rooms'[r].members = rooms[r].members \cup {w}
        BY <2>3, <3>1, RoomStepFields
      <4>2. pc'[w] \in Member
        BY <3>1, GotoAt DEF AddMember
      <4> QED BY <2>1, <2>3, <3>0, <4>1, <4>2 DEF MembersOK
    <3>2. CASE RemoveMember(w)
      <4>1. rooms'[r].members = rooms[r].members \ {w}
        BY <2>3, <3>2, RoomStepFields
      <4>2. pc'[w] \notin Member
        BY <3>2, GotoAt DEF RemoveMember
      <4> QED BY <2>1, <2>3, <3>0, <4>1, <4>2 DEF MembersOK
    <3>3. CASE BroadcastLock(w) \/ BroadcastReturn(w)
      <4>1. rooms'[r].members = rooms[r].members
        BY <2>3, <3>3, RoomStepFields
      <4>2. pc[w] \notin Member /\ pc'[w] \notin Member
        BY <3>3, GotoAt DEF BroadcastLock, BroadcastReturn
      <4> QED BY <2>1, <3>0, <4>1, <4>2 DEF MembersOK
    <3> QED BY <1>2, <3>1, <3>2, <3>3 DEF RoomStep
  <2> QED BY <2>2, <2>3
<1>3. CASE Accept(w) \/ Cleanup(w)
  BY <1>3, StartOrEnd DEF MembersOK, RoomId
<1>4. CASE ServerLock(w)
  BY <1>4, LockTaken DEF MembersOK, RoomId
<1>5. CASE FindRoom(w)
  BY <1>5, Search DEF MembersOK, RoomId, Found, NotFound
<1>6. CASE CreateRoom(w)
  <2> DEFINE new == Len(rooms) + 1
  <2>1. /\ RoomId' = RoomId \cup {new} /\ new \notin RoomId
        /\ rooms'[new] = NewRoom(arg[w])
        /\ \A j \in RoomId : rooms'[j] = rooms[j]
        /\ \A v \in Workers : current_room'[v] = IF v = w THEN new ELSE current_room[v]
        /\ \A v \in Workers \ {w} : pc'[v] = pc[v]
        /\ pc[w] = "f_create" /\ pc'[w] \in {"s_ok", "r_add"}
    BY <1>6, Creation
  <2>2. NewRoom(arg[w]).members = {}
    BY DEF NewRoom
  <2>3. \A v \in Workers : current_room[v] # new
    BY DEF TypeOK
  <2> HIDE DEF new
  <2> QED BY <2>1, <2>2, <2>3 DEF MembersOK
<1> QED BY <1>1, <1>2, <1>3, <1>4, <1>5, <1>6 DEF Step

LEMMA NowStep ==
  ASSUME TypeOK, NoNullDereference, RoomLockOK, NowOK, NEW w \in Workers, Step(w)
  PROVE  NowOK'
<1> USE ChatAssumption
<1>1. CASE BroadcastNext(w)
  <2>1. PICK u \in rooms[current_room[w]].members : now' = [now EXCEPT ![w] = u]
    BY <1>1 DEF BroadcastNext
  <2>2. UNCHANGED <<rooms, current_room>> /\ now \in [Workers -> Workers \cup {None}]
    BY <1>1 DEF BroadcastNext, TypeOK
  <2>3. pc'[w] = "b_enqueue" /\ \A v \in Workers \ {w} : pc'[v] = pc[v]
    BY <1>1, GotoAt DEF BroadcastNext
  <2> QED BY <2>1, <2>2, <2>3 DEF NowOK
<1>2. CASE BroadcastEnqueue(w)
  <2>1. now' = [now EXCEPT ![w] = None]
    BY <1>2 DEF BroadcastEnqueue
  <2>2. UNCHANGED <<rooms, current_room>> /\ now \in [Workers -> Workers \cup {None}]
    BY <1>2 DEF BroadcastEnqueue, TypeOK
  <2>3. \A v \in Workers \ {w} : pc'[v] = pc[v]
    BY <1>2, GotoAt DEF BroadcastEnqueue
  <2> QED BY <2>1, <2>2, <2>3 DEF NowOK
<1>3. CASE Client(w) \/ Reads(w) \/ ReceiveEof(w)
             \/ LoginReply(w) \/ SenderReply(w) \/ ReceiverReply(w)
             \/ Dequeue(w) \/ Deliver(w)
  <2>1. Private
    BY <1>3, PrivateSteps DEF PrivateStep
  <2>2. now' = now
    BY <1>3 DEF Client, Reads, Login, SenderRequest, BadRequest, Join, Leave, SendAll, Quit,
                Request, JoinRequest, ReceiveEof, LoginReply, SenderReply, ReceiverReply,
                Reply, Dequeue, Deliver, thread
  <2>3. pc[w] = "b_enqueue" => pc' = pc
    BY <1>3 DEF Client, Reads, Login, SenderRequest, BadRequest, Join, Leave, SendAll, Quit,
                Request, JoinRequest, ReceiveEof, LoginReply, SenderReply, ReceiverReply,
                Reply, Dequeue, Deliver, Goto
  <2>4. \A v \in Workers \ {w} : pc'[v] = pc[v]
    BY SMTT(60), <1>3 DEF TypeOK, Client, Reads, Login, SenderRequest, BadRequest, Join, Leave, SendAll,
                Quit, Request, JoinRequest, ReceiveEof, LoginReply, SenderReply,
                ReceiverReply, Reply, Dequeue, Deliver, Goto
  <2> QED BY <2>1, <2>2, <2>3, <2>4 DEF NowOK, Private, Broadcasting
<1>4. CASE RoomStep(w)
  <2>1. /\ current_room[w] \in RoomId
        /\ UNCHANGED <<current_room, now>>
        /\ \A j \in RoomId : j # current_room[w] => rooms'[j] = rooms[j]
    BY <1>4, RoomSteps
  <2>2. /\ \A v \in Workers \ {w} : pc'[v] = pc[v]
        /\ pc[w] # "b_enqueue"
    BY <1>4, RoomStepPoints
  <2> SUFFICES ASSUME NEW v \in Workers, now'[v] # None
               PROVE  pc'[v] = "b_enqueue" /\ now'[v] \in rooms'[current_room'[v]].members
    BY DEF NowOK
  <2>3. v # w /\ pc'[v] = "b_enqueue" /\ now[v] \in rooms[current_room[v]].members
    BY <2>1, <2>2 DEF NowOK
  <2>4. current_room[v] \in RoomId
    BY <2>2, <2>3, CurrentRoom DEF InRoom, Broadcasting, RoomId
  <2>5. CASE current_room[v] # current_room[w]
    BY <2>1, <2>3, <2>4, <2>5
  <2>6. CASE current_room[v] = current_room[w]
    <3>1. rooms[current_room[w]].lock = v
      BY <2>2, <2>3, <2>4, <2>6 DEF RoomLockOK, Broadcasting
    <3>2. ~ RemoveMember(w)
      BY <2>3, <3>1, RoomStepFields
    <3>3. rooms[current_room[w]].members \subseteq rooms'[current_room[w]].members
      BY <1>4, <3>2, RoomStepFields DEF RoomStep
    <3> QED BY <2>1, <2>3, <2>6, <3>3
  <2> QED BY <2>3, <2>5, <2>6
<1>5. CASE Accept(w) \/ Cleanup(w)
  <2>1. /\ UNCHANGED <<rooms, now>>
        /\ pc[w] # "b_enqueue"
        /\ \A v \in Workers \ {w} : pc'[v] = pc[v] /\ current_room'[v] = current_room[v]
    BY <1>5, StartOrEnd
  <2> QED BY <2>1 DEF NowOK
<1>6. CASE ServerLock(w)
  BY <1>6, LockTaken DEF NowOK
<1>7. CASE FindRoom(w)
  BY <1>7, Search DEF NowOK, Found, NotFound
<1>8. CASE CreateRoom(w)
  <2>1. /\ \A j \in RoomId : rooms'[j] = rooms[j]
        /\ \A v \in Workers \ {w} : pc'[v] = pc[v] /\ current_room'[v] = current_room[v]
        /\ pc[w] = "f_create"
        /\ now' = now
    BY <1>8, Creation
  <2>2. \A v \in Workers : pc[v] = "b_enqueue" => current_room[v] \in RoomId
    BY CurrentRoom DEF InRoom, Broadcasting, RoomId
  <2> QED BY <2>1, <2>2 DEF NowOK
<1> QED BY <1>1, <1>2, <1>3, <1>4, <1>5, <1>6, <1>7, <1>8 DEF Step, PrivateStep

\* A worker changes no other worker's locals.
LEMMA Others ==
  ASSUME TypeOK, NEW w \in Workers, Step(w), NEW v \in Workers \ {w}
  PROVE  /\ pc'[v] = pc[v] /\ current_room'[v] = current_room[v] /\ arg'[v] = arg[v]
         /\ text'[v] = text[v] /\ now'[v] = now[v]
<1> USE DEF thread
<1>1. CASE Client(w) \/ ReceiveEof(w) \/ LoginReply(w) \/ SenderReply(w) \/ ReceiverReply(w)
  BY <1>1 DEF TypeOK, Client, ReceiveEof, LoginReply, SenderReply, ReceiverReply, Reply, Goto
<1>2. CASE Login(w) \/ JoinRequest(w)
  BY <1>2 DEF TypeOK, Login, JoinRequest, Goto
<1>3. CASE SenderRequest(w)
  BY <1>3 DEF TypeOK, SenderRequest, BadRequest, Join, Leave, SendAll, Quit, Request, Goto
<1>4. CASE BroadcastNext(w) \/ BroadcastEnqueue(w) \/ Dequeue(w) \/ Deliver(w)
  BY SMTT(30), <1>4 DEF TypeOK, BroadcastNext, BroadcastEnqueue, Dequeue, Deliver, Goto
<1>5. CASE RoomStep(w)
  BY <1>5 DEF TypeOK, RoomStep, AddMember, RemoveMember, BroadcastLock, BroadcastReturn, Goto
<1>6. CASE Accept(w) \/ Cleanup(w) \/ ServerLock(w)
  BY SMTT(30), <1>6 DEF TypeOK, Accept, Cleanup, ServerLock, Goto
<1>7. CASE FindRoom(w)
  BY <1>7 DEF TypeOK, FindRoom, FindReturns, Goto
<1>8. CASE CreateRoom(w)
  BY <1>8 DEF TypeOK, CreateRoom, FindReturns, Goto
<1> QED
  BY <1>1, <1>2, <1>3, <1>4, <1>5, <1>6, <1>7, <1>8 DEF Step, PrivateStep, Reads

LEMMA NoNullStep ==
  ASSUME TypeOK, NoNullDereference, NEW w \in Workers, Step(w), TypeOK'
  PROVE  NoNullDereference'
<1> USE DEF Finding, InRoom, Broadcasting, Listening
<1> DEFINE Safe == /\ pc'[w] \in Finding => arg'[w] \in RoomNames
                   /\ pc'[w] \in InRoom => current_room'[w] # NullPtr
                   /\ pc'[w] \in Broadcasting \cup {"b_lock"} => text'[w] # 0
                   /\ pc'[w] = "b_enqueue" => now'[w] \in Workers
<1> SUFFICES Safe
  BY Others DEF NoNullDereference
<1>0. /\ pc[w] \in Finding => arg[w] \in RoomNames
      /\ pc[w] \in InRoom => current_room[w] # NullPtr
      /\ pc[w] \in Broadcasting \cup {"b_lock"} => text[w] # 0
      /\ pc[w] = "b_enqueue" => now[w] \in Workers
  BY DEF NoNullDereference
<1>1. CASE Client(w)
  BY <1>0, <1>1 DEF Client, thread
<1>2. CASE Login(w)
  <2>1. pc'[w] \in {"l_invalid", "l_ok", "l_reject"}
    BY <1>2 DEF TypeOK, Login, LoginVerdict
  <2> QED BY <2>1
<1>3. CASE SenderRequest(w)
  <2>1. CASE BadRequest(w) \/ Leave(w) \/ Quit(w)
    <3>1. pc'[w] \in {"s_err", "s_ok", "s_quit"}
      BY <2>1, GotoAt DEF BadRequest, Leave, Quit, Request
    <3> QED BY <3>1
  <2>2. CASE Join(w)
    <3>1. pc'[w] = "f_lock"
      BY <2>2, GotoAt DEF Join, Request
    <3>2. PICK name \in RoomNames : arg' = [arg EXCEPT ![w] = name]
      BY <2>2 DEF Join
    <3>3. arg'[w] \in RoomNames
      BY <3>2 DEF TypeOK
    <3> QED BY <3>1, <3>3
  <2>3. CASE SendAll(w)
    <3>1. /\ pc'[w] = IF current_room[w] = NullPtr THEN "s_err" ELSE "b_lock"
          /\ current_room' = current_room
      BY <2>3, GotoAt DEF SendAll, Request
    <3>2. text'[w] = said + 1 /\ said \in Nat
      BY <2>3, ChatAssumption DEF TypeOK, SendAll
    <3> QED BY <3>1, <3>2
  <2> QED BY <1>3, <2>1, <2>2, <2>3 DEF SenderRequest
<1>4. CASE JoinRequest(w)
  <2>1. CASE pc'[w] = "r_reject"
    BY <2>1
  <2>2. CASE \E name \in RoomNames : /\ Goto(w, "r_join", "f_lock")
                                     /\ arg' = [arg EXCEPT ![w] = name]
    <3>1. pc'[w] = "f_lock"
      BY <2>2, GotoAt
    <3>2. arg'[w] \in RoomNames
      BY <2>2 DEF TypeOK
    <3> QED BY <3>1, <3>2
  <2> QED BY <1>4, <2>1, <2>2, GotoAt DEF JoinRequest
<1>5. CASE ReceiveEof(w)
  <2>1. pc'[w] \in {"cleanup", "r_reject"}
    BY <1>5, GotoAt DEF ReceiveEof
  <2> QED BY <2>1
<1>6. CASE LoginReply(w)
  <2>1. AfterLogin[login_mes[w].tag] \in {"s_recv", "r_join", "l_reject"}
    BY LoginGoesOn
  <2>2. LoginVerdict(login_mes[w].body) \in {"l_ok", "l_reject"}
    BY DEF LoginVerdict
  <2>3. pc'[w] \in {"s_recv", "r_join", "l_reject", "l_ok", "cleanup"}
    BY <1>6, <2>1, <2>2, GotoAt DEF LoginReply, Reply
  <2> QED BY <2>3
<1>7. CASE SenderReply(w)
  <2>1. pc'[w] \in {"s_recv", "cleanup"}
    BY <1>7, GotoAt DEF SenderReply, Reply
  <2> QED BY <2>1
<1>8. CASE ReceiverReply(w)
  <2>1. /\ pc[w] \in {"r_ok", "r_reject"}
        /\ pc'[w] \in {"r_deq", "cleanup", "r_remove"}
        /\ pc[w] = "r_reject" => pc'[w] = "cleanup"
        /\ current_room' = current_room
    BY <1>8, GotoAt DEF ReceiverReply, Reply, thread
  <2> QED BY <1>0, <2>1
<1>9. CASE BroadcastNext(w)
  <2>1. rooms[current_room[w]].members \subseteq Workers
    BY <1>9, CurrentRoom DEF BroadcastNext, Goto, RoomType
  <2>2. pc[w] = "b_loop" /\ pc'[w] = "b_enqueue" /\ now'[w] \in Workers
    <3>1. PICK u \in rooms[current_room[w]].members : now' = [now EXCEPT ![w] = u]
      BY <1>9 DEF BroadcastNext
    <3>2. now'[w] \in Workers
      BY <2>1, <3>1 DEF TypeOK
    <3> QED BY <1>9, <3>2, GotoAt DEF BroadcastNext
  <2>3. UNCHANGED <<current_room, text>>
    BY <1>9 DEF BroadcastNext
  <2> QED BY <1>0, <2>2, <2>3
<1>10. CASE BroadcastEnqueue(w)
  BY <1>0, <1>10, GotoAt DEF BroadcastEnqueue
<1>11. CASE Dequeue(w)
  BY <1>0, <1>11, GotoAt DEF Dequeue
<1>12. CASE Deliver(w)
  <2>1. pc[w] = "r_send" /\ pc'[w] \in {"r_deq", "r_remove"} /\ current_room' = current_room
    BY <1>12, GotoAt DEF Deliver
  <2> QED BY <1>0, <2>1
<1>13. CASE RoomStep(w)
  <2>1. \/ pc[w] = "r_add" /\ pc'[w] = "r_ok"
        \/ pc[w] = "r_remove" /\ pc'[w] = "cleanup"
        \/ pc[w] = "b_lock" /\ pc'[w] = "b_loop" /\ BroadcastLock(w)
        \/ pc[w] = "b_loop" /\ pc'[w] = "s_ok"
    BY <1>13, RoomStepPoints
  <2>2. current_room' = current_room
    BY <1>13, RoomSteps
  <2>3. BroadcastLock(w) => text' = text
    BY DEF BroadcastLock, thread
  <2> QED BY <1>0, <2>1, <2>2, <2>3
<1>14. CASE Accept(w) \/ Cleanup(w)
  <2>1. pc'[w] \in {"login", "done"}
    BY <1>14, StartOrEnd
  <2> QED BY <2>1
<1>15. CASE ServerLock(w)
  BY <1>0, <1>15, LockTaken
<1>16. CASE FindRoom(w)
  BY <1>16, Search DEF Found, NotFound
<1>17. CASE CreateRoom(w)
  <2>1. pc'[w] \in {"s_ok", "r_add"} /\ current_room'[w] = Len(rooms) + 1 /\ Len(rooms) \in Nat
    BY <1>17, Creation, LenProperties DEF TypeOK
  <2> QED BY <2>1 DEF NullPtr
<1> QED
  BY <1>1, <1>2, <1>3, <1>4, <1>5, <1>6, <1>7, <1>8, <1>9, <1>10, <1>11, <1>12, <1>13,
     <1>14, <1>15, <1>16, <1>17 DEF Step, PrivateStep, Reads

LEMMA InvInit == Init => Inv
<1> SUFFICES ASSUME Init PROVE Inv
  OBVIOUS
<1>1. TypeOK
  BY TypeInit
<1>2. RoomId = {}
  BY DEF Init, RoomId
<1>3. \A w \in Workers : pc[w] = "unborn" /\ user[w] = "none" /\ now[w] = None
  BY DEF Init
<1>4. NoNullDereference
  BY <1>3 DEF NoNullDereference, Finding, InRoom, Broadcasting, Listening
<1>5. UniqueRoom /\ RoomLockOK /\ MembersOK
  BY <1>2 DEF UniqueRoom, RoomLockOK, MembersOK
<1>6. MapOK
  BY <1>3 DEF Init, MapOK
<1>7. ServerLockOK
  BY <1>3, ChatAssumption DEF Init, ServerLockOK, Holding
<1>8. UserOK /\ NowOK
  BY <1>3 DEF UserOK, NowOK
<1> QED BY <1>1, <1>4, <1>5, <1>6, <1>7, <1>8 DEF Inv

LEMMA InvNext == Inv /\ [Next]_vars => Inv'
<1> SUFFICES ASSUME Inv, [Next]_vars PROVE Inv'
  OBVIOUS
<1>1. TypeOK'
  BY TypeStep DEF Inv
<1>2. ASSUME NEW w \in Workers, Step(w) PROVE Inv'
  BY <1>1, <1>2, NoNullStep, MapStep, ServerLockStep, RoomLockStep, MembersStep, UserStep,
     NowStep
  DEF Inv
<1>3. CASE UNCHANGED vars
  BY <1>3, <1>1
  DEF Inv, vars, thread, server, mail, history, NoNullDereference, UniqueRoom, RoomId, MapOK,
      ServerLockOK, RoomLockOK, MembersOK, UserOK, NowOK
<1> QED BY <1>2, <1>3, Steps

LEMMA Invariance == Spec => []Inv
  BY InvInit, InvNext, PTL DEF Spec

(***************************************************************************)
(* The theorems.                                                           *)
(***************************************************************************)
\* Every variable keeps its type: in particular each Room* a worker or the
\* map holds is null or points to a Room.
THEOREM TypeCorrect == Spec => []TypeOK
<1>1. Inv => TypeOK
  BY DEF Inv
<1> QED BY <1>1, Invariance, PTL

\* broadcast_message, add_member and remove_member are never called through a
\* null Room*, and find_or_create_room never without a name.
THEOREM PointersGood == Spec => []NoNullDereference
<1>1. Inv => NoNullDereference
  BY DEF Inv
<1> QED BY <1>1, Invariance, PTL

\* find_or_create_room returns the one Room of a name, whatever the calls of
\* other workers.
THEOREM RoomsUnique == Spec => []UniqueRoom
<1>1. Inv => UniqueRoom
  BY DEF Inv
<1> QED BY <1>1, Invariance, PTL

\* A User is in no room and in no broadcast when its worker deletes it.
THEOREM UsersOutlived == Spec => []NoUseAfterFree
<1>1. Inv => NoUseAfterFree
  <2> SUFFICES ASSUME Inv PROVE NoUseAfterFree
    OBVIOUS
  <2>1. ASSUME NEW r \in RoomId, NEW u \in rooms[r].members PROVE user[u] = "live"
    <3>1. u \in Workers
      <4>1. rooms[r] \in RoomType
        <5> HIDE DEF RoomType
        <5> QED BY ElementOfSeq DEF Inv, TypeOK, RoomId
      <4> QED BY <4>1 DEF RoomType
    <3>2. pc[u] \in Member
      BY <3>1 DEF Inv, MembersOK
    <3> QED BY <3>1, <3>2 DEF Inv, UserOK, Member, Listening
  <2>2. ASSUME NEW w \in Workers, now[w] # None PROVE user[now[w]] = "live"
    <3>1. pc[w] = "b_enqueue" /\ now[w] \in rooms[current_room[w]].members
      BY <2>2 DEF Inv, NowOK
    <3>2. current_room[w] \in RoomId
      BY <3>1, CurrentRoom DEF Inv, InRoom, Broadcasting, RoomId
    <3> QED BY <2>1, <3>1, <3>2
  <2> QED BY <2>1, <2>2 DEF NoUseAfterFree
<1> QED BY <1>1, Invariance, PTL

\* A client that stops reading or writing never does so while its worker holds
\* the server's lock or the lock of a room.
THEOREM NoLockHeldUp == Spec => []NoLockWhileBlocked
<1>1. Inv => NoLockWhileBlocked
  BY DEF Inv, NoLockWhileBlocked, ServerLockOK, RoomLockOK, Holding, Broadcasting,
         BlockedOnClient
<1> QED BY <1>1, Invariance, PTL

-----------------------------------------------------------------------------
(***************************************************************************)
(* Sequences.                                                              *)
(***************************************************************************)
Messages == 1 .. MaxBroadcasts

LEMMA SeqEnqueue ==
  ASSUME NEW h \in Seq(Messages), NEW m \in Seq(Messages), NEW t \in Messages
  PROVE  (h \o Append(m, t)) \o << >> = (h \o m) \o <<t>>
<1>1. <<t>> \in Seq(Messages) /\ Append(m, t) = m \o <<t>>
  BY AppendIsConcat
<1>2. h \o (m \o <<t>>) = (h \o m) \o <<t>> /\ h \o (m \o <<t>>) \in Seq(Messages)
  BY <1>1, ConcatAssociative, ConcatProperties
<1> QED BY <1>1, <1>2, ConcatEmptySeq

LEMMA SeqDequeue ==
  ASSUME NEW m \in Seq(Messages), m # << >>
  PROVE  <<Head(m)>> \o Tail(m) = << >> \o m
<1>1. Len(m) \in Nat \ {0} /\ 1 \in 1 .. Len(m) /\ Len(m) \in 1 .. Len(m)
  BY EmptySeq
<1>2. SubSeq(m, 1, Len(m)) = <<m[1]>> \o SubSeq(m, 2, Len(m))
  BY <1>1, SubSeqRecursiveFirst
<1>3. Head(m) = m[1] /\ Tail(m) = SubSeq(m, 2, Len(m)) /\ SubSeq(m, 1, Len(m)) = m
  BY <1>1, TailIsSubSeq, SubSeqFull
<1> QED BY <1>2, <1>3, ConcatEmptySeq

LEMMA SeqAssociative ==
  ASSUME NEW e \in Seq(Messages), NEW h \in Seq(Messages), NEW i \in Seq(Messages)
  PROVE  (e \o h) \o i = e \o (h \o i)
BY ConcatAssociative

LEMMA SeqBroadcast ==
  ASSUME NEW e \in Seq(Messages), NEW i \in Seq(Messages), NEW log \in Seq(Messages), NEW t \in Messages,
         NEW j \in 0 .. Len(log),
         e \o (i \o << >>) = SubSeq(log, j + 1, Len(log))
  PROVE  e \o (i \o <<t>>) = SubSeq(Append(log, t), j + 1, Len(Append(log, t)))
<1> DEFINE n == Len(log)
           all == Append(log, t)
<1>1. n \in Nat /\ all \in Seq(Messages) /\ Len(all) = n + 1 /\ all[n + 1] = t /\ all = log \o <<t>>
  BY AppendProperties, AppendIsConcat
<1>2. <<t>> \in Seq(Messages)
  OBVIOUS
<1>3. SubSeq(all, j + 1, n) = SubSeq(log, j + 1, n)
  <2>1. CASE j = n
    BY <1>1, <2>1, SubSeqEmpty
  <2>2. CASE j # n
    <3>1. j + 1 \in 1 .. n /\ n \in 1 .. n
      BY <1>1, <2>2
    <3> HIDE DEF all, n
    <3> QED BY <1>1, <1>2, <3>1, SubSeqOfConcat1 DEF n
  <2> QED BY <2>1, <2>2
<1>4. SubSeq(all, j + 1, n + 1) = SubSeq(all, j + 1, n) \o <<t>>
  <2>1. j + 1 \in 1 .. Len(all) /\ n + 1 \in j + 1 .. Len(all) /\ (n + 1) - 1 = n
    BY <1>1
  <2> HIDE DEF all, n
  <2>2. SubSeq(all, j + 1, n + 1) = SubSeq(all, j + 1, (n + 1) - 1) \o <<all[n + 1]>>
    BY <1>1, <2>1, SubSeqRecursiveSecond
  <2> QED BY <1>1, <2>1, <2>2
<1>5. (e \o i) \o <<t>> = e \o (i \o <<t>>)
  BY <1>2, SeqAssociative
<1>6. i \o << >> = i
  BY ConcatEmptySeq
<1> HIDE DEF all, n
<1> QED BY <1>1, <1>3, <1>4, <1>5, <1>6 DEF n, all

-----------------------------------------------------------------------------
(***************************************************************************)
(* What a step leaves alone.                                               *)
(***************************************************************************)
LEMMA Untouched ==
  ASSUME NEW w \in Workers, Step(w)
  PROVE  /\ Dequeue(w) \/ Deliver(w) \/ Cleanup(w) \/ BroadcastEnqueue(w)
              \/ UNCHANGED <<heard, hand, mqueue>>
         /\ AddMember(w) \/ UNCHANGED joined
         /\ BroadcastEnqueue(w) \/ BroadcastReturn(w) \/ UNCHANGED visited
         /\ SendAll(w) \/ BroadcastReturn(w) \/ Cleanup(w) \/ UNCHANGED text
         /\ BroadcastNext(w) \/ BroadcastEnqueue(w) \/ UNCHANGED now
<1> USE DEF thread, server, mail, history
<1>1. CASE Client(w) \/ ReceiveEof(w) \/ LoginReply(w) \/ SenderReply(w) \/ ReceiverReply(w)
  BY <1>1 DEF Client, ReceiveEof, LoginReply, SenderReply, ReceiverReply, Reply
<1>2. CASE Login(w) \/ JoinRequest(w)
  BY <1>2 DEF Login, JoinRequest
<1>3. CASE SenderRequest(w)
  BY <1>3 DEF SenderRequest, BadRequest, Join, Leave, SendAll, Quit, Request
<1>4. CASE BroadcastNext(w) \/ BroadcastEnqueue(w) \/ Dequeue(w) \/ Deliver(w)
  BY <1>4 DEF BroadcastNext, BroadcastEnqueue, Dequeue, Deliver
<1>5. CASE RoomStep(w)
  BY <1>5 DEF RoomStep, AddMember, RemoveMember, BroadcastLock, BroadcastReturn
<1>6. CASE Accept(w) \/ Cleanup(w) \/ ServerLock(w)
  BY <1>6 DEF Accept, Cleanup, ServerLock
<1>7. CASE FindRoom(w)
  BY <1>7 DEF FindRoom, FindReturns
<1>8. CASE CreateRoom(w)
  BY <1>8 DEF CreateRoom, FindReturns
<1> QED
  BY <1>1, <1>2, <1>3, <1>4, <1>5, <1>6, <1>7, <1>8 DEF Step, PrivateStep, Reads

\* A worker touches nothing that is another's, except that it puts messages into
\* mailboxes.
LEMMA OthersHistory ==
  ASSUME TypeOK, NEW w \in Workers, Step(w), NEW v \in Workers \ {w}
  PROVE  /\ heard'[v] = heard[v] /\ hand'[v] = hand[v] /\ joined'[v] = joined[v]
         /\ visited'[v] = visited[v]
         /\ ~ BroadcastEnqueue(w) => mqueue'[v] = mqueue[v]
<1>1. heard'[v] = heard[v] /\ hand'[v] = hand[v]
      /\ (~ BroadcastEnqueue(w) => mqueue'[v] = mqueue[v])
  <2>1. CASE UNCHANGED <<heard, hand, mqueue>>
    BY <2>1
  <2>2. CASE Dequeue(w)
    BY <2>2 DEF TypeOK, Dequeue, history
  <2>3. CASE Deliver(w)
    BY <2>3 DEF TypeOK, Deliver, mail
  <2>4. CASE Cleanup(w)
    BY <2>4 DEF TypeOK, Cleanup, history
  <2>5. CASE BroadcastEnqueue(w)
    BY <2>5 DEF TypeOK, BroadcastEnqueue, history
  <2> QED BY <2>1, <2>2, <2>3, <2>4, <2>5, Untouched
<1>2. joined'[v] = joined[v]
  BY Untouched DEF TypeOK, AddMember
<1>3. visited'[v] = visited[v]
  <2>1. CASE visited' = visited
    BY <2>1
  <2>2. CASE BroadcastEnqueue(w)
    BY <2>2 DEF TypeOK, BroadcastEnqueue
  <2>3. CASE BroadcastReturn(w)
    BY <2>3 DEF TypeOK, BroadcastReturn
  <2> QED BY <2>1, <2>2, <2>3, Untouched
<1> QED BY <1>1, <1>2, <1>3

\* Only broadcast_message adds to what has been said in a room.
LEMMA LogStep ==
  ASSUME TypeOK, NoNullDereference, NEW w \in Workers, Step(w), NEW r \in RoomId
  PROVE  /\ rooms[r].log \in Seq(1 .. MaxBroadcasts)
         /\ BroadcastLock(w) /\ r = current_room[w]
              => rooms'[r].log = Append(rooms[r].log, text[w])
         /\ ~ (BroadcastLock(w) /\ r = current_room[w]) => rooms'[r].log = rooms[r].log
<1>0. rooms \in Seq(RoomType) /\ rooms[r] \in RoomType
  <2> HIDE DEF RoomType
  <2> QED BY ElementOfSeq DEF TypeOK, RoomId
<1>1. rooms[r].log \in Seq(1 .. MaxBroadcasts)
  BY <1>0 DEF RoomType
<1>2. ASSUME BroadcastLock(w), r = current_room[w]
      PROVE  rooms'[r].log = Append(rooms[r].log, text[w])
  <2>1. r \in DOMAIN rooms
    <3> HIDE DEF RoomType
    <3> QED BY <1>0 DEF RoomId
  <2> QED BY <1>0, <1>2, <2>1 DEF BroadcastLock, RoomType
<1>3. ASSUME ~ (BroadcastLock(w) /\ r = current_room[w])
      PROVE  rooms'[r].log = rooms[r].log
  <2>1. CASE RoomStep(w) /\ r = current_room[w]
    <3>1. r \in DOMAIN rooms
      <4> HIDE DEF RoomType
      <4> QED BY <1>0 DEF RoomId
    <3>2. AddMember(w) \/ RemoveMember(w) \/ BroadcastReturn(w)
      BY <1>3, <2>1 DEF RoomStep
    <3> QED BY <1>0, <2>1, <3>1, <3>2 DEF AddMember, RemoveMember, BroadcastReturn, RoomType
  <2>2. CASE RoomStep(w) /\ r # current_room[w]
    BY <2>2, RoomSteps
  <2>3. CASE ~ RoomStep(w)
    <3>1. CASE PrivateStep(w)
      BY <3>1, PrivateSteps DEF Private
    <3>2. CASE Accept(w) \/ Cleanup(w)
      BY <3>2, StartOrEnd
    <3>3. CASE ServerLock(w)
      BY <3>3, LockTaken
    <3>4. CASE FindRoom(w)
      BY <3>4, Search DEF Found, NotFound
    <3>5. CASE CreateRoom(w)
      BY <3>5, Creation
    <3> QED BY <2>3, <3>1, <3>2, <3>3, <3>4, <3>5 DEF Step
  <2> QED BY <2>1, <2>2, <2>3
<1> QED BY <1>1, <1>2, <1>3

-----------------------------------------------------------------------------
(***************************************************************************)
(* The invariant on broadcasts and mailboxes.                              *)
(***************************************************************************)
\* broadcast_message starts with no member visited, and never comes back to one.
VisitedOK == \A w \in Workers :
               /\ pc[w] \notin Broadcasting => visited[w] = {}
               /\ now[w] # None => now[w] \notin visited[w]

\* A worker has something in hand only on the way from its mailbox to its client,
\* and nothing comes to it before it is a member of a room.
Gone == {"cleanup", "done"}
EmptyOK == \A u \in Workers :
             /\ pc[u] # "r_send" => hand[u] = << >>
             /\ pc[u] \notin Member \cup Gone => heard[u] = << >> /\ mqueue[u] = << >>

Says(w, u) == /\ pc[w] \in Broadcasting
              /\ current_room[w] = current_room[u]
              /\ u \notin visited[w]

HistoryOK == \A u \in Workers :
               pc[u] \in Listening =>
                 LET log == rooms[current_room[u]].log
                 IN /\ joined[u] <= Len(log)
                    /\ heard[u] \o Inbox(u) = SubSeq(log, joined[u] + 1, Len(log))

HInv == Inv /\ VisitedOK /\ EmptyOK /\ HistoryOK

(***************************************************************************)
(* What a broadcast has still to bring to u.                               *)
(***************************************************************************)
LEMMA PendingNone == ASSUME NEW u, \A w \in Workers : ~ Says(w, u)
                     PROVE  Pending(u) = << >>
  BY DEF Pending, Says

LEMMA PendingNoneNext == ASSUME NEW u, \A w \in Workers : ~ Says(w, u)'
                         PROVE  Pending(u)' = << >>
  BY DEF Pending, Says

LEMMA PendingOne ==
  ASSUME NEW u, NEW w \in Workers, \A v \in Workers : Says(v, u) <=> v = w
  PROVE  Pending(u) = <<text[w]>>
<1>1. {v \in Workers : /\ pc[v] \in Broadcasting
                       /\ current_room[v] = current_room[u]
                       /\ u \notin visited[v]} = {w}
  BY DEF Says
<1>2. (CHOOSE v \in {w} : TRUE) = w /\ {w} # {}
  OBVIOUS
<1> QED BY <1>1, <1>2 DEF Pending

LEMMA PendingOneNext ==
  ASSUME NEW u, NEW w \in Workers, \A v \in Workers : Says(v, u)' <=> v = w
  PROVE  Pending(u)' = <<text'[w]>>
<1>1. {v \in Workers : /\ pc'[v] \in Broadcasting
                       /\ current_room'[v] = current_room'[u]
                       /\ u \notin visited'[v]} = {w}
  BY DEF Says
<1>2. (CHOOSE v \in {w} : TRUE) = w /\ {w} # {}
  OBVIOUS
<1> QED BY <1>1, <1>2 DEF Pending

\* At most one worker holds the lock of the room.
LEMMA OneSpeaker ==
  ASSUME Inv, NEW u \in Workers, current_room[u] \in RoomId,
         NEW w \in Workers, Says(w, u)
  PROVE  rooms[current_room[u]].lock = w /\ \A v \in Workers : Says(v, u) => v = w
  BY DEF Inv, RoomLockOK, Says

LEMMA PendingType ==
  ASSUME Inv, NEW u \in Workers, current_room[u] \in RoomId
  PROVE  Pending(u) \in Seq(1 .. MaxBroadcasts)
<1>1. CASE \A w \in Workers : ~ Says(w, u)
  BY <1>1, PendingNone, EmptySeq
<1>2. CASE \E w \in Workers : Says(w, u)
  <2>1. PICK w \in Workers : Says(w, u)
    BY <1>2
  <2>2. text[w] \in 1 .. MaxBroadcasts
    BY SMTT(30), <2>1, ChatAssumption DEF Inv, TypeOK, NoNullDereference, Says
  <2>3. \A v \in Workers : Says(v, u) <=> v = w
    BY <2>1, OneSpeaker
  <2>4. Pending(u) = <<text[w]>>
    BY <2>3, PendingOne
  <2> QED BY <2>2, <2>4
<1> QED BY <1>1, <1>2

LEMMA PendingSame ==
  ASSUME Inv, NEW u \in Workers, current_room[u] \in RoomId,
         \A w \in Workers : (Says(w, u)' <=> Says(w, u)) /\ (Says(w, u) => text'[w] = text[w])
  PROVE  Pending(u)' = Pending(u)
<1>1. CASE \A w \in Workers : ~ Says(w, u)
  BY <1>1, PendingNone, PendingNoneNext
<1>2. CASE \E w \in Workers : Says(w, u)
  <2>1. PICK w \in Workers : Says(w, u)
    BY <1>2
  <2>2. \A v \in Workers : Says(v, u) <=> v = w
    BY <2>1, OneSpeaker
  <2>3. Pending(u) = <<text[w]>>
    BY <2>2, PendingOne
  <2>4. Pending(u)' = <<text'[w]>>
    BY <2>2, PendingOneNext
  <2> QED BY <2>1, <2>3, <2>4
<1> QED BY <1>1, <1>2

(***************************************************************************)
(* Steps.                                                                  *)
(***************************************************************************)
LEMMA VisitedStep ==
  ASSUME Inv, Inv', VisitedOK, NEW w \in Workers, Step(w) PROVE VisitedOK'
<1>0. TypeOK /\ NoNullDereference /\ None \notin Workers
  BY ChatAssumption DEF Inv
<1> SUFFICES ASSUME NEW v \in Workers
             PROVE  /\ pc'[v] \notin Broadcasting => visited'[v] = {}
                    /\ now'[v] # None => now'[v] \notin visited'[v]
  BY DEF VisitedOK
<1>1. CASE v # w
  BY <1>0, <1>1, Others, OthersHistory DEF VisitedOK
<1>2. CASE v = w
  <2>1. CASE BroadcastEnqueue(w)
    BY <1>0, <1>2, <2>1, GotoAt DEF BroadcastEnqueue, TypeOK, Broadcasting
  <2>2. CASE BroadcastReturn(w)
    <3>1. pc'[w] = "s_ok" /\ visited'[w] = {}
      BY <1>0, <2>2, GotoAt DEF BroadcastReturn, TypeOK
    <3> QED BY <1>2, <3>1
  <2>3. CASE BroadcastNext(w)
    <3>1. PICK u \in rooms[current_room[w]].members \ visited[w] : now' = [now EXCEPT ![w] = u]
      BY <2>3 DEF BroadcastNext
    <3>2. pc'[w] \in Broadcasting /\ visited' = visited
      BY <1>0, <2>3, GotoAt DEF BroadcastNext, Broadcasting
    <3>3. now'[w] = u
      BY <1>0, <3>1 DEF TypeOK
    <3> QED BY <1>2, <3>1, <3>2, <3>3
  <2>4. CASE ~ BroadcastEnqueue(w) /\ ~ BroadcastReturn(w) /\ ~ BroadcastNext(w)
    <3>1. visited' = visited /\ now' = now
      BY <2>4, Untouched
    <3>2. pc'[w] \notin Broadcasting => pc[w] \notin Broadcasting
      <4>1. CASE PrivateStep(w)
        BY <1>0, <4>1, PrivateSteps DEF Private
      <4>2. CASE RoomStep(w)
        BY <1>0, <2>4, <4>2, RoomStepPoints DEF Broadcasting
      <4>3. CASE Accept(w) \/ Cleanup(w)
        BY <1>0, <4>3, StartOrEnd DEF Broadcasting
      <4>4. CASE ServerLock(w)
        BY <1>0, <4>4, LockTaken DEF Broadcasting
      <4>5. CASE FindRoom(w)
        BY <1>0, <4>5, Search DEF Found, NotFound, Broadcasting
      <4>6. CASE CreateRoom(w)
        BY <1>0, <4>6, Creation DEF Broadcasting
      <4> QED BY <4>1, <4>2, <4>3, <4>4, <4>5, <4>6 DEF Step
    <3> QED BY <1>2, <3>1, <3>2 DEF VisitedOK
  <2> QED BY <2>1, <2>2, <2>3, <2>4
<1> QED BY <1>1, <1>2

\* The mailbox a broadcast puts its message into is that of a member of its room.
LEMMA EnqueueAtMember ==
  ASSUME Inv, NEW w \in Workers, BroadcastEnqueue(w)
  PROVE  /\ now[w] \in Workers \ {w}
         /\ pc[now[w]] \in Member /\ current_room[now[w]] = current_room[w]
         /\ current_room[w] \in RoomId
<1>1. pc[w] = "b_enqueue"
  BY DEF BroadcastEnqueue, Goto
<1>2. now[w] \in Workers /\ now[w] # None
  BY <1>1, ChatAssumption DEF Inv, NoNullDereference
<1>3. current_room[w] \in RoomId
  BY <1>1, CurrentRoom DEF Inv, InRoom, Broadcasting, RoomId
<1>4. pc[now[w]] \in Member /\ current_room[now[w]] = current_room[w]
  BY <1>2, <1>3 DEF Inv, NowOK, MembersOK
<1> QED BY <1>1, <1>2, <1>3, <1>4 DEF Member, Listening

\* Where a worker can go.
LEMMA WayOut ==
  ASSUME TypeOK, NoNullDereference, NEW w \in Workers, Step(w)
  PROVE  /\ pc[w] \in Member => pc'[w] \in Member \cup Gone
         /\ pc[w] \in Gone => pc'[w] \in Gone
<1> USE DEF Member, Listening, Gone
<1>1. CASE PrivateStep(w)
  <2>1. pc[w] \in Member => pc'[w] \in Member
    BY <1>1, PrivateSteps DEF Private
  <2>2. pc[w] \in Gone => pc' = pc
    BY <1>1 DEF PrivateStep, Client, Reads, Login, SenderRequest, BadRequest, Join, Leave,
                SendAll, Quit, Request, JoinRequest, ReceiveEof, LoginReply, SenderReply,
                ReceiverReply, Reply, Dequeue, Deliver, BroadcastNext, BroadcastEnqueue, Goto
  <2> QED BY <2>1, <2>2
<1>2. CASE RoomStep(w)
  BY <1>2, RoomStepPoints
<1>3. CASE Accept(w) \/ Cleanup(w)
  BY <1>3, StartOrEnd
<1>4. CASE ServerLock(w)
  BY <1>4, LockTaken
<1>5. CASE FindRoom(w)
  BY <1>5, Search DEF Found, NotFound
<1>6. CASE CreateRoom(w)
  BY <1>6, Creation
<1> QED BY <1>1, <1>2, <1>3, <1>4, <1>5, <1>6 DEF Step

LEMMA EmptyStep ==
  ASSUME Inv, EmptyOK, NEW w \in Workers, Step(w) PROVE EmptyOK'
<1>0. TypeOK /\ NoNullDereference
  BY DEF Inv
<1> SUFFICES ASSUME NEW u \in Workers
             PROVE  /\ pc'[u] # "r_send" => hand'[u] = << >>
                    /\ pc'[u] \notin Member \cup Gone => heard'[u] = << >> /\ mqueue'[u] = << >>
  BY DEF EmptyOK
<1>1. CASE u # w
  <2>1. pc'[u] = pc[u] /\ hand'[u] = hand[u] /\ heard'[u] = heard[u]
    BY <1>0, <1>1, Others, OthersHistory
  <2>2. pc[u] \notin Member => mqueue'[u] = mqueue[u]
    <3>1. CASE BroadcastEnqueue(w)
      <4>1. mqueue' = [mqueue EXCEPT ![now[w]] = Append(@, text[w])] /\ pc[now[w]] \in Member
        BY <3>1, EnqueueAtMember DEF BroadcastEnqueue
      <4> QED BY <1>0, <4>1 DEF TypeOK
    <3> QED BY <1>0, <1>1, <3>1, OthersHistory
  <2> QED BY <2>1, <2>2 DEF EmptyOK
<1>2. CASE u = w
  <2>1. CASE Dequeue(w)
    <3>1. pc'[w] = "r_send"
      BY <1>0, <2>1, GotoAt DEF Dequeue
    <3> QED BY <1>2, <3>1 DEF Member, Listening
  <2>2. CASE Deliver(w)
    <3>1. pc'[w] \in Member /\ hand'[w] = << >>
      BY <1>0, <2>2, GotoAt DEF Deliver, TypeOK, Member, Listening
    <3> QED BY <1>2, <3>1
  <2>3. CASE Cleanup(w)
    <3>1. pc[w] = "cleanup" /\ pc'[w] = "done" /\ hand' = hand
      BY <1>0, <2>3, GotoAt DEF Cleanup
    <3> QED BY <1>2, <3>1 DEF EmptyOK, Gone
  <2>4. CASE BroadcastEnqueue(w)
    <3>1. pc[w] = "b_enqueue" /\ pc'[w] = "b_loop"
      BY <1>0, <2>4, GotoAt DEF BroadcastEnqueue
    <3>2. /\ hand' = hand /\ heard' = heard
          /\ mqueue' = [mqueue EXCEPT ![now[w]] = Append(@, text[w])]
      BY <2>4 DEF BroadcastEnqueue, history
    <3>3. now[w] # w
      BY <2>4, EnqueueAtMember
    <3>4. mqueue'[w] = mqueue[w]
      BY <1>0, <3>2, <3>3 DEF TypeOK
    <3> QED BY <1>2, <3>1, <3>2, <3>4 DEF EmptyOK, Member, Listening, Gone
  <2>5. CASE /\ ~ Dequeue(w) /\ ~ Deliver(w) /\ ~ Cleanup(w) /\ ~ BroadcastEnqueue(w)
    <3>1. UNCHANGED <<heard, hand, mqueue>>
      BY <2>5, Untouched
    <3>2. pc[w] = "r_send" => pc'[w] = "r_send"
      <4>1. SUFFICES ASSUME pc[w] = "r_send" PROVE Client(w)
        BY <1>0 DEF Client
      <4>2. ~ RoomStep(w) /\ ~ Accept(w) /\ ~ ServerLock(w) /\ ~ FindRoom(w) /\ ~ CreateRoom(w)
        BY <4>1 DEF RoomStep, AddMember, RemoveMember, BroadcastLock, BroadcastReturn, Accept,
                    ServerLock, FindRoom, CreateRoom, Goto
      <4>3. /\ ~ Reads(w) /\ ~ ReceiveEof(w)
            /\ ~ LoginReply(w) /\ ~ SenderReply(w) /\ ~ ReceiverReply(w) /\ ~ BroadcastNext(w)
        BY <4>1 DEF Reads, Login, SenderRequest, BadRequest, Join, Leave,
                SendAll, Quit, Request, JoinRequest, ReceiveEof, LoginReply, SenderReply,
                ReceiverReply, Reply, BroadcastNext, Goto
      <4> QED BY <2>5, <4>2, <4>3 DEF Step, PrivateStep
    <3>3. pc[w] \in Member \cup Gone => pc'[w] \in Member \cup Gone
      BY <1>0, WayOut
    <3> QED BY <1>2, <3>1, <3>2, <3>3 DEF EmptyOK
  <2> QED BY <2>1, <2>2, <2>3, <2>4, <2>5
<1> QED BY <1>1, <1>2

\* Whoever broadcasts in u's room goes on with the same message, and u's turn is
\* still to come or past, whatever the step.
LEMMA SaysSame ==
  ASSUME Inv, NEW w \in Workers, Step(w), NEW u \in Workers,
         pc[u] \in Listening, current_room'[u] = current_room[u],
         ~ (BroadcastEnqueue(w) /\ now[w] = u),
         ~ (BroadcastLock(w) /\ current_room[w] = current_room[u]),
         NEW v \in Workers
  PROVE  (Says(v, u)' <=> Says(v, u)) /\ (Says(v, u) => text'[v] = text[v])
<1>0. TypeOK /\ NoNullDereference
  BY DEF Inv
<1>1. CASE v # w
  BY <1>0, <1>1, Others, OthersHistory DEF Says
<1>2. CASE v = w
  <2>1. CASE BroadcastEnqueue(w)
    <3>1. pc[w] \in Broadcasting /\ pc'[w] \in Broadcasting /\ UNCHANGED <<current_room, text>>
      BY <1>0, <2>1, GotoAt DEF BroadcastEnqueue, Broadcasting
    <3>2. visited'[w] = visited[w] \cup {now[w]} /\ now[w] # u
      BY <1>0, <2>1 DEF BroadcastEnqueue, TypeOK
    <3> QED BY <1>2, <3>1, <3>2 DEF Says
  <2>2. CASE BroadcastReturn(w)
    <3>1. /\ pc[w] = "b_loop" /\ pc'[w] = "s_ok"
          /\ rooms[current_room[w]].members \subseteq visited[w]
      BY <1>0, <2>2, GotoAt DEF BroadcastReturn
    <3>2. current_room[w] \in RoomId
      BY <1>0, <3>1, CurrentRoom DEF InRoom, Broadcasting, RoomId
    <3>3. ~ Says(w, u)
      BY <3>1, <3>2 DEF Says, Inv, MembersOK, Member
    <3>4. ~ Says(w, u)'
      BY <3>1 DEF Says, Broadcasting
    <3> QED BY <1>2, <3>3, <3>4
  <2>3. CASE RoomStep(w) /\ ~ BroadcastReturn(w)
    <3>1. current_room' = current_room
      BY <1>0, <2>3, RoomSteps
    <3>2. \/ pc[w] \notin Broadcasting /\ pc'[w] \notin Broadcasting
          \/ pc[w] \notin Broadcasting /\ current_room[w] # current_room[u]
      BY <1>0, <2>3, RoomStepPoints DEF Broadcasting
    <3> QED BY <1>2, <3>1, <3>2 DEF Says
  <2>4. CASE PrivateStep(w) /\ ~ BroadcastEnqueue(w)
    <3>1. /\ pc[w] \in Broadcasting <=> pc'[w] \in Broadcasting
          /\ pc[w] \in Broadcasting => current_room'[w] = current_room[w]
      BY <1>0, <2>4, PrivateSteps DEF Private
    <3>2. ~ BroadcastReturn(w) /\ ~ Cleanup(w)
      <4>1. BroadcastReturn(w) => pc[w] \in Broadcasting /\ pc'[w] \notin Broadcasting
        BY <1>0, GotoAt DEF BroadcastReturn, Broadcasting
      <4>2. Cleanup(w) => pc[w] # "done" /\ pc[w] # "unborn" /\ pc'[w] = "done"
        BY <1>0, GotoAt DEF Cleanup
      <4> QED BY <1>0, <2>4, <3>1, <4>1, <4>2, PrivateSteps DEF Private
    <3>3. visited' = visited
      BY <2>4, <3>2, Untouched
    <3>4. pc[w] \in Broadcasting => text' = text
      <4>1. SendAll(w) => pc[w] \notin Broadcasting
        BY DEF SendAll, Request, Goto, Broadcasting
      <4> QED BY <3>2, <4>1, <2>4, Untouched
    <3> QED BY <1>2, <3>1, <3>3, <3>4 DEF Says
  <2>5. CASE Accept(w) \/ Cleanup(w) \/ ServerLock(w) \/ FindRoom(w) \/ CreateRoom(w)
    <3>1. pc[w] \notin Broadcasting /\ pc'[w] \notin Broadcasting
      <4>1. CASE Accept(w) \/ Cleanup(w)
        BY <1>0, <4>1, StartOrEnd DEF Broadcasting
      <4>2. CASE ServerLock(w)
        BY <1>0, <4>2, LockTaken DEF Broadcasting
      <4>3. CASE FindRoom(w)
        BY <1>0, <4>3, Search DEF Found, NotFound, Broadcasting
      <4>4. CASE CreateRoom(w)
        BY <1>0, <4>4, Creation DEF Broadcasting
      <4> QED BY <2>5, <4>1, <4>2, <4>3, <4>4
    <3> QED BY <1>2, <3>1 DEF Says
  <2> QED BY <2>1, <2>2, <2>3, <2>4, <2>5 DEF Step
<1> QED BY <1>1, <1>2

\* The steps of a worker that is a listener after it.
LEMMA ListenerSteps ==
  ASSUME TypeOK, NoNullDereference, NEW w \in Workers, Step(w), pc'[w] \in Listening
  PROVE  Client(w) \/ ReceiverReply(w) \/ Dequeue(w) \/ Deliver(w) \/ AddMember(w)
<1> USE DEF Listening
<1>1. ASSUME Accept(w) \/ Cleanup(w) PROVE FALSE
  BY <1>1, StartOrEnd
<1>2. ASSUME ServerLock(w) PROVE FALSE
  BY <1>2, LockTaken
<1>3. ASSUME FindRoom(w) PROVE FALSE
  BY <1>3, Search DEF Found, NotFound
<1>4. ASSUME CreateRoom(w) PROVE FALSE
  BY <1>4, Creation
<1>5. ASSUME RoomStep(w) PROVE AddMember(w)
  BY <1>5, RoomStepPoints
<1>6. ASSUME Login(w) PROVE FALSE
  <2>1. pc'[w] \in {"l_invalid", "l_ok", "l_reject"}
    BY <1>6 DEF TypeOK, Login, LoginVerdict
  <2> QED BY <2>1
<1>7. ASSUME SenderRequest(w) PROVE FALSE
  <2>1. PICK to \in {"s_err", "f_lock", "s_ok", "b_lock", "s_quit"} : Goto(w, "s_recv", to)
    BY <1>7 DEF SenderRequest, BadRequest, Join, Leave, SendAll, Quit, Request
  <2> QED BY <2>1, GotoAt
<1>8. ASSUME JoinRequest(w) \/ ReceiveEof(w) PROVE FALSE
  <2>1. pc'[w] \in {"f_lock", "r_reject", "cleanup"}
    BY <1>8, GotoAt DEF JoinRequest, ReceiveEof
  <2> QED BY <2>1
<1>9. ASSUME LoginReply(w) PROVE FALSE
  <2>1. AfterLogin[login_mes[w].tag] \in {"s_recv", "r_join", "l_reject"}
    BY LoginGoesOn
  <2>2. LoginVerdict(login_mes[w].body) \in {"l_ok", "l_reject"}
    BY DEF LoginVerdict
  <2>3. pc'[w] \in {"s_recv", "r_join", "l_reject", "l_ok", "cleanup"}
    BY <1>9, <2>1, <2>2, GotoAt DEF LoginReply, Reply
  <2> QED BY <2>3
<1>10. ASSUME SenderReply(w) PROVE FALSE
  <2>1. pc'[w] \in {"s_recv", "cleanup"}
    BY <1>10, GotoAt DEF SenderReply, Reply
  <2> QED BY <2>1
<1>11. ASSUME BroadcastNext(w) \/ BroadcastEnqueue(w) PROVE FALSE
  <2>1. pc'[w] \in {"b_enqueue", "b_loop"}
    BY <1>11, GotoAt DEF BroadcastNext, BroadcastEnqueue
  <2> QED BY <2>1
<1> QED
  BY <1>1, <1>2, <1>3, <1>4, <1>5, <1>6, <1>7, <1>8, <1>9, <1>10, <1>11
  DEF Step, PrivateStep, Reads

LEMMA Types ==
  ASSUME TypeOK, NEW u \in Workers
  PROVE  /\ heard[u] \in Seq(1 .. MaxBroadcasts) /\ hand[u] \in Seq(1 .. MaxBroadcasts)
         /\ mqueue[u] \in Seq(1 .. MaxBroadcasts) /\ joined[u] \in Nat
BY DEF TypeOK

LEMMA InboxType ==
  ASSUME Inv, NEW u \in Workers, current_room[u] \in RoomId
  PROVE  /\ heard[u] \in Seq(Messages) /\ hand[u] \in Seq(Messages)
         /\ mqueue[u] \in Seq(Messages) /\ Pending(u) \in Seq(Messages)
         /\ hand[u] \o mqueue[u] \in Seq(Messages) /\ Inbox(u) \in Seq(Messages)
<1>1. TypeOK
  BY DEF Inv
<1>2. heard[u] \in Seq(Messages) /\ hand[u] \in Seq(Messages) /\ mqueue[u] \in Seq(Messages)
  BY <1>1, Types DEF Messages
<1>3. Pending(u) \in Seq(Messages)
  BY PendingType DEF Messages
<1>4. hand[u] \o mqueue[u] \in Seq(Messages)
  BY <1>2, ConcatProperties
<1>5. Inbox(u) \in Seq(Messages)
  BY <1>3, <1>4, ConcatProperties DEF Inbox
<1> QED BY <1>2, <1>3, <1>4, <1>5

\* u's own steps as a listener, and those of others.
ListensOn(w, u) == /\ u # w \/ Client(w) \/ ReceiverReply(w) \/ Dequeue(w) \/ Deliver(w)
                   /\ pc'[u] \in Listening

LEMMA StaysListening ==
  ASSUME TypeOK, NoNullDereference, NEW w \in Workers, Step(w), NEW u \in Workers,
         ListensOn(w, u)
  PROVE  /\ pc[u] \in Listening /\ current_room'[u] = current_room[u]
         /\ current_room[u] \in RoomId /\ joined'[u] = joined[u]
<1>1. pc'[u] \in Listening
  BY DEF ListensOn
<1>2. pc[u] \in Listening /\ current_room'[u] = current_room[u] /\ joined'[u] = joined[u]
  <2>1. CASE u # w
    BY <1>1, <2>1, Others, OthersHistory
  <2>2. CASE u = w
    <3>1. PrivateStep(w) /\ current_room' = current_room
      BY <2>2 DEF ListensOn, PrivateStep, Client, ReceiverReply, Reply, Dequeue, Deliver, thread
    <3>2. pc[w] \in Listening
      <4>1. CASE Client(w)
        BY <1>1, <2>2, <4>1 DEF Client
      <4>2. CASE ReceiverReply(w)
        <5>1. pc[w] \in {"r_ok", "r_reject"} /\ (pc[w] = "r_reject" => pc'[w] = "cleanup")
          BY <4>2, GotoAt DEF ReceiverReply, Reply
        <5> QED BY <1>1, <2>2, <5>1 DEF Listening
      <4>3. CASE Dequeue(w) \/ Deliver(w)
        BY <4>3 DEF Dequeue, Deliver, Goto, Listening
      <4> QED BY <2>2, <4>1, <4>2, <4>3 DEF ListensOn
    <3>3. ~ AddMember(w)
      BY <3>2 DEF AddMember, Goto, Listening
    <3> QED BY <2>2, <3>1, <3>2, <3>3, Untouched
  <2> QED BY <2>1, <2>2
<1>3. current_room[u] \in RoomId
  BY <1>2, CurrentRoom DEF InRoom, RoomId
<1> QED BY <1>2, <1>3

\* A broadcast begins: its message is what u hears last.
LEMMA InboxGrows ==
  ASSUME Inv, VisitedOK, NEW w \in Workers, Step(w), NEW u \in Workers, ListensOn(w, u),
         BroadcastLock(w), current_room[u] = current_room[w]
  PROVE  /\ heard'[u] = heard[u] /\ text[w] \in Messages
         /\ Inbox(u) = hand[u] \o mqueue[u] /\ Inbox(u)' = (hand[u] \o mqueue[u]) \o <<text[w]>>
<1> DEFINE r == current_room[u]
<1>0. TypeOK /\ NoNullDereference
  BY DEF Inv
<1>1. pc[u] \in Listening /\ r \in RoomId
  BY <1>0, StaysListening
<1>2. /\ pc[w] = "b_lock" /\ pc'[w] = "b_loop" /\ rooms[r].lock = None
      /\ UNCHANGED <<hand, heard, mqueue, text, visited, current_room>>
  BY <1>0, GotoAt DEF BroadcastLock, thread, mail, history
<1>3. \A v \in Workers : ~ Says(v, u)
  BY <1>1, <1>2, OneSpeaker, ChatAssumption
<1>4. \A v \in Workers : Says(v, u)' <=> v = w
  <2>1. visited[w] = {} /\ pc'[w] \in Broadcasting
    BY <1>2 DEF VisitedOK, Broadcasting
  <2>2. Says(w, u)'
    BY <1>2, <2>1 DEF Says
  <2>3. \A v \in Workers \ {w} : pc'[v] = pc[v]
    BY <1>0, Others
  <2> QED BY <1>2, <1>3, <2>2, <2>3 DEF Says
<1>5. Pending(u) = << >> /\ Pending(u)' = <<text[w]>>
  BY <1>2, <1>3, <1>4, PendingNone, PendingOneNext
<1>6. text[w] \in Messages
  BY SMTT(30), <1>0, <1>2, ChatAssumption DEF TypeOK, NoNullDereference, Messages
<1>7. Inbox(u) = hand[u] \o mqueue[u]
  BY <1>1, <1>5, InboxType, ConcatEmptySeq DEF Inbox
<1> QED BY <1>2, <1>5, <1>6, <1>7 DEF Inbox

\* What is in hand is delivered.
LEMMA InboxDelivered ==
  ASSUME Inv, VisitedOK, NEW w \in Workers, Deliver(w), pc'[w] \in Listening
  PROVE  heard'[w] = heard[w] \o hand[w] /\ Inbox(w) = hand[w] \o Inbox(w)'
<1>0. TypeOK /\ NoNullDereference /\ Step(w) /\ ListensOn(w, w)
  BY DEF Inv, Step, PrivateStep, ListensOn
<1>1. pc[w] \in Listening /\ current_room'[w] = current_room[w] /\ current_room[w] \in RoomId
  BY <1>0, StaysListening
<1>2. heard'[w] = heard[w] \o hand[w] /\ hand'[w] = << >> /\ mqueue'[w] = mqueue[w]
  <2>1. pc'[w] # "r_remove"
    BY DEF Listening
  <2> QED BY <1>0, <2>1, GotoAt DEF Deliver, TypeOK, mail
<1>3. ~ BroadcastEnqueue(w) /\ ~ BroadcastLock(w)
  BY DEF Deliver, BroadcastEnqueue, BroadcastLock, Goto
<1>4. Pending(w)' = Pending(w)
  BY <1>0, <1>1, <1>3, SaysSame, PendingSame
<1>5. /\ hand[w] \in Seq(Messages) /\ mqueue[w] \in Seq(Messages) /\ Pending(w) \in Seq(Messages)
  BY <1>1, InboxType
<1>6. << >> \o mqueue[w] = mqueue[w]
  BY <1>5, ConcatEmptySeq
<1>7. (hand[w] \o mqueue[w]) \o Pending(w) = hand[w] \o (mqueue[w] \o Pending(w))
  BY <1>5, SeqAssociative
<1> QED BY <1>2, <1>4, <1>6, <1>7 DEF Inbox

\* No other step changes what u is to hear: not the step of the broadcast that
\* reaches u's mailbox either.
LEMMA InboxSame ==
  ASSUME Inv, VisitedOK, EmptyOK, NEW w \in Workers, Step(w), NEW u \in Workers,
         ListensOn(w, u),
         ~ (BroadcastLock(w) /\ current_room[w] = current_room[u]),
         ~ (u = w /\ Deliver(w))
  PROVE  heard'[u] = heard[u] /\ Inbox(u)' = Inbox(u)
<1>0. TypeOK /\ NoNullDereference
  BY DEF Inv
<1>1. pc[u] \in Listening /\ current_room'[u] = current_room[u] /\ current_room[u] \in RoomId
  BY <1>0, StaysListening
<1>2. /\ hand[u] \in Seq(Messages) /\ mqueue[u] \in Seq(Messages)
  BY <1>1, InboxType
<1>3. CASE BroadcastEnqueue(w) /\ now[w] = u
  <2>1. /\ pc[w] = "b_enqueue"
        /\ UNCHANGED <<hand, heard, text, rooms, current_room>>
        /\ mqueue' = [mqueue EXCEPT ![u] = Append(@, text[w])]
        /\ visited' = [visited EXCEPT ![w] = @ \cup {u}]
    BY <1>3 DEF BroadcastEnqueue, Goto, history
  <2>2. mqueue'[u] = Append(mqueue[u], text[w]) /\ visited'[w] = visited[w] \cup {u}
    BY <1>0, <2>1 DEF TypeOK
  <2>3. text[w] \in Messages
    <3>1. text[w] \in 0 .. MaxBroadcasts /\ text[w] # 0
      BY <1>0, <2>1 DEF TypeOK, NoNullDereference, Broadcasting
    <3> QED BY <3>1, ChatAssumption DEF Messages
  <2>4. Says(w, u)
    <3>1. current_room[u] = current_room[w] /\ now[w] # None
      BY <1>3, EnqueueAtMember, ChatAssumption
    <3> QED BY <1>3, <2>1, <3>1 DEF Says, VisitedOK, Broadcasting
  <2>5. \A v \in Workers : Says(v, u) <=> v = w
    BY <1>1, <2>4, OneSpeaker
  <2>6. \A v \in Workers : ~ Says(v, u)'
    <3>1. ~ Says(w, u)'
      BY <2>2 DEF Says
    <3>2. \A v \in Workers \ {w} : Says(v, u)' => Says(v, u)
      BY <1>0, <2>1, Others, OthersHistory DEF Says
    <3> QED BY <2>5, <3>1, <3>2
  <2>7. Pending(u) = <<text[w]>> /\ Pending(u)' = << >>
    BY <2>5, <2>6, PendingOne, PendingNoneNext
  <2>8. (hand[u] \o Append(mqueue[u], text[w])) \o << >> = (hand[u] \o mqueue[u]) \o <<text[w]>>
    BY <1>2, <2>3, SeqEnqueue
  <2> QED BY <2>1, <2>2, <2>7, <2>8 DEF Inbox
<1>4. CASE ~ (BroadcastEnqueue(w) /\ now[w] = u)
  <2>1. Pending(u)' = Pending(u)
    BY <1>1, <1>4, SaysSame, PendingSame
  <2>2. CASE u # w
    <3>1. heard'[u] = heard[u] /\ hand'[u] = hand[u]
      BY <1>0, <2>2, OthersHistory
    <3>2. mqueue'[u] = mqueue[u]
      <4>1. CASE BroadcastEnqueue(w)
        BY <1>0, <1>4, <4>1 DEF BroadcastEnqueue, TypeOK
      <4> QED BY <1>0, <2>2, <4>1, OthersHistory
    <3> QED BY <2>1, <3>1, <3>2 DEF Inbox
  <2>3. CASE u = w /\ Dequeue(w)
    <3>1. /\ pc[u] = "r_deq" /\ mqueue[u] # << >> /\ heard' = heard
          /\ hand'[u] = <<Head(mqueue[u])>> /\ mqueue'[u] = Tail(mqueue[u])
      BY <1>0, <2>3 DEF Dequeue, TypeOK, Goto, history
    <3>2. hand[u] = << >>
      BY <3>1 DEF EmptyOK
    <3>3. <<Head(mqueue[u])>> \o Tail(mqueue[u]) = << >> \o mqueue[u]
      BY <1>2, <3>1, SeqDequeue
    <3> QED BY <2>1, <3>1, <3>2, <3>3 DEF Inbox
  <2>4. CASE u = w /\ (Client(w) \/ ReceiverReply(w))
    <3>1. UNCHANGED <<heard, hand, mqueue>>
      BY <2>4 DEF Client, ReceiverReply, Reply, thread, mail, history
    <3> QED BY <2>1, <3>1 DEF Inbox
  <2> QED BY <2>2, <2>3, <2>4 DEF ListensOn
<1> QED BY <1>3, <1>4

LEMMA ListenerStep ==
  ASSUME Inv, VisitedOK, EmptyOK, HistoryOK, NEW w \in Workers, Step(w), NEW u \in Workers,
         ListensOn(w, u)
  PROVE  LET log == rooms'[current_room'[u]].log
         IN /\ joined'[u] <= Len(log)
            /\ heard'[u] \o Inbox(u)' = SubSeq(log, joined'[u] + 1, Len(log))
<1> DEFINE log == rooms[current_room[u]].log
           i == hand[u] \o mqueue[u]
<1>0. TypeOK /\ NoNullDereference
  BY DEF Inv
<1>1. /\ pc[u] \in Listening /\ current_room'[u] = current_room[u]
      /\ current_room[u] \in RoomId /\ joined'[u] = joined[u]
  BY <1>0, StaysListening
<1>2. joined[u] <= Len(log) /\ heard[u] \o Inbox(u) = SubSeq(log, joined[u] + 1, Len(log))
  BY <1>1 DEF HistoryOK
<1>3. /\ log \in Seq(Messages)
      /\ BroadcastLock(w) /\ current_room[u] = current_room[w]
           => rooms'[current_room[u]].log = Append(log, text[w])
      /\ ~ (BroadcastLock(w) /\ current_room[u] = current_room[w])
           => rooms'[current_room[u]].log = log
  BY <1>0, <1>1, LogStep DEF Messages
<1>4. /\ heard[u] \in Seq(Messages) /\ hand[u] \in Seq(Messages) /\ i \in Seq(Messages)
  BY <1>1, InboxType
<1>5. joined[u] \in Nat /\ Len(log) \in Nat
  BY <1>0, <1>3, Types
<1>6. CASE BroadcastLock(w) /\ current_room[u] = current_room[w]
  <2>1. /\ heard'[u] = heard[u] /\ text[w] \in Messages
        /\ Inbox(u) = i /\ Inbox(u)' = i \o <<text[w]>>
    BY <1>6, InboxGrows
  <2>2. rooms'[current_room'[u]].log = Append(log, text[w])
    BY <1>1, <1>3, <1>6
  <2>3. Len(Append(log, text[w])) = Len(log) + 1
    BY <1>3, <2>1, AppendProperties
  <2>4. i \o << >> = i
    BY <1>4, ConcatEmptySeq
  <2> HIDE DEF i, log
  <2>5. heard[u] \o (i \o << >>) = SubSeq(log, joined[u] + 1, Len(log))
    BY <1>2, <2>1, <2>4
  <2>6. joined[u] \in 0 .. Len(log)
    BY <1>2, <1>5
  <2>7. heard[u] \o (i \o <<text[w]>>)
          = SubSeq(Append(log, text[w]), joined[u] + 1, Len(Append(log, text[w])))
    <3>1. heard[u] \in Seq(Messages) /\ log \in Seq(Messages)
      BY <1>3, <1>4
    <3>2. i \in Seq(Messages) /\ text[w] \in Messages
      BY <1>4, <2>1
    <3> QED BY <2>5, <2>6, <3>1, <3>2, SeqBroadcast
  <2>8. joined[u] <= Len(Append(log, text[w]))
    BY <2>3, <2>6
  <2>9. joined'[u] = joined[u]
    BY <1>1
  <2> QED BY <2>1, <2>2, <2>7, <2>8, <2>9
<1>7. CASE u = w /\ Deliver(w)
  <2>1. pc'[w] \in Listening /\ ~ BroadcastLock(w)
    BY <1>7 DEF ListensOn, Deliver, BroadcastLock, Goto
  <2>2. heard'[u] = heard[u] \o hand[u] /\ Inbox(u) = hand[u] \o Inbox(u)'
    BY <1>7, <2>1, InboxDelivered
  <2>3. Inbox(u)' \in Seq(Messages)
    <3>1. Pending(u)' = Pending(u)
      <4>1. ~ BroadcastEnqueue(w)
        BY <1>7 DEF Deliver, BroadcastEnqueue, Goto
      <4> QED BY <1>1, <2>1, <4>1, SaysSame, PendingSame
    <3>2. hand'[u] = << >> /\ mqueue'[u] = mqueue[u]
      BY <1>0, <1>7 DEF Deliver, TypeOK, mail
    <3>3. mqueue[u] \in Seq(Messages) /\ Pending(u) \in Seq(Messages)
      BY <1>1, InboxType
    <3>4. << >> \o mqueue[u] = mqueue[u] /\ mqueue[u] \o Pending(u) \in Seq(Messages)
      BY <3>3, ConcatEmptySeq, ConcatProperties
    <3> QED BY <3>1, <3>2, <3>4 DEF Inbox
  <2>4. (heard[u] \o hand[u]) \o Inbox(u)' = heard[u] \o (hand[u] \o Inbox(u)')
    <3>1. heard[u] \in Seq(Messages) /\ hand[u] \in Seq(Messages)
      BY <1>4
    <3> QED BY <2>3, <3>1, SeqAssociative
  <2>5. rooms'[current_room'[u]].log = log
    BY <1>1, <1>3, <2>1
  <2> QED BY <1>1, <1>2, <2>2, <2>4, <2>5
<1>8. CASE ~ (BroadcastLock(w) /\ current_room[u] = current_room[w]) /\ ~ (u = w /\ Deliver(w))
  <2>1. heard'[u] = heard[u] /\ Inbox(u)' = Inbox(u)
    BY <1>8, InboxSame
  <2>2. rooms'[current_room'[u]].log = log
    BY <1>1, <1>3, <1>8
  <2> QED BY <1>1, <1>2, <2>1, <2>2
<1> QED BY <1>6, <1>7, <1>8

\* There is nothing to hear for who comes in, even in the middle of what others do.
LEMMA InboxStarts ==
  ASSUME Inv, EmptyOK, NEW u \in Workers, AddMember(u)
  PROVE  /\ heard'[u] = << >> /\ Inbox(u)' = << >>
         /\ current_room'[u] = current_room[u] /\ current_room[u] \in RoomId
<1>0. TypeOK /\ NoNullDereference /\ Step(u) /\ RoomStep(u)
  BY DEF Inv, Step, RoomStep
<1>1. /\ pc[u] = "r_add" /\ pc'[u] = "r_ok" /\ rooms[current_room[u]].lock = None
      /\ UNCHANGED <<heard, hand, mqueue, visited, current_room>>
  BY <1>0, GotoAt DEF AddMember, thread, mail
<1>2. heard[u] = << >> /\ hand[u] = << >> /\ mqueue[u] = << >>
  BY <1>1 DEF EmptyOK, Member, Listening, Gone
<1>3. current_room[u] \in RoomId
  BY <1>0, RoomSteps
<1>4. \A v \in Workers : ~ Says(v, u)'
  <2>1. \A v \in Workers : ~ Says(v, u)
    BY <1>1, <1>3, OneSpeaker, ChatAssumption
  <2>2. \A v \in Workers \ {u} : pc'[v] = pc[v]
    BY <1>0, Others
  <2> QED BY <1>1, <2>1, <2>2 DEF Says, Broadcasting
<1>5. Inbox(u)' = (<< >> \o << >>) \o << >>
  BY <1>1, <1>2, <1>4, PendingNoneNext DEF Inbox
<1>6. (<< >> \o << >>) \o << >> = << >>
  BY EmptySeq, ConcatEmptySeq
<1> QED BY <1>1, <1>2, <1>3, <1>5, <1>6

LEMMA JoiningStep ==
  ASSUME Inv, EmptyOK, NEW u \in Workers, AddMember(u)
  PROVE  LET log == rooms'[current_room'[u]].log
         IN /\ joined'[u] <= Len(log)
            /\ heard'[u] \o Inbox(u)' = SubSeq(log, joined'[u] + 1, Len(log))
<1> DEFINE log == rooms[current_room[u]].log
<1>0. TypeOK /\ NoNullDereference /\ Step(u)
  BY DEF Inv, Step, RoomStep
<1>1. /\ heard'[u] = << >> /\ Inbox(u)' = << >>
      /\ current_room'[u] = current_room[u] /\ current_room[u] \in RoomId
  BY InboxStarts
<1>2. ~ BroadcastLock(u)
  BY DEF AddMember, BroadcastLock, Goto
<1>3. log \in Seq(1 .. MaxBroadcasts) /\ rooms'[current_room[u]].log = log
  BY <1>0, <1>1, <1>2, LogStep
<1>4. joined'[u] = Len(log) /\ Len(log) \in Nat
  BY <1>0, <1>3 DEF AddMember, TypeOK
<1>5. << >> \o << >> = << >>
  BY EmptySeq, ConcatEmptySeq
<1>6. SubSeq(log, Len(log) + 1, Len(log)) = << >>
  BY <1>4, SubSeqEmpty
<1> HIDE DEF log
<1> QED BY <1>1, <1>3, <1>4, <1>5, <1>6

LEMMA HistoryStep ==
  ASSUME Inv, VisitedOK, EmptyOK, HistoryOK, NEW w \in Workers, Step(w) PROVE HistoryOK'
<1> SUFFICES ASSUME NEW u \in Workers, pc'[u] \in Listening
             PROVE  LET log == rooms'[current_room'[u]].log
                    IN /\ joined'[u] <= Len(log)
                       /\ heard'[u] \o Inbox(u)' = SubSeq(log, joined'[u] + 1, Len(log))
  BY DEF HistoryOK
<1>1. CASE u # w
  BY <1>1, ListenerStep DEF ListensOn
<1>2. CASE u = w
  <2>1. Client(w) \/ ReceiverReply(w) \/ Dequeue(w) \/ Deliver(w) \/ AddMember(w)
    BY <1>2, ListenerSteps DEF Inv
  <2> QED BY <1>2, <2>1, ListenerStep, JoiningStep DEF ListensOn
<1> QED BY <1>1, <1>2

LEMMA HistoryInvariance == Spec => []HInv
<1>1. Init => HInv
  <2> SUFFICES ASSUME Init PROVE VisitedOK /\ EmptyOK /\ HistoryOK
    BY InvInit DEF HInv
  <2> QED BY DEF Init, VisitedOK, EmptyOK, HistoryOK, Listening
<1>2. HInv /\ [Next]_vars => HInv'
  <2> SUFFICES ASSUME HInv, [Next]_vars PROVE HInv'
    OBVIOUS
  <2>1. Inv /\ Inv' /\ VisitedOK /\ EmptyOK /\ HistoryOK
    BY InvNext DEF HInv
  <2>2. ASSUME NEW w \in Workers, Step(w) PROVE HInv'
    BY <2>1, <2>2, VisitedStep, EmptyStep, HistoryStep DEF HInv
  <2>3. CASE UNCHANGED vars
    <3>1. UNCHANGED <<pc, visited, now, hand, heard, mqueue, current_room, rooms, joined, text>>
      BY <2>3 DEF vars, thread, mail, history
    <3>2. VisitedOK' /\ EmptyOK'
      BY <2>1, <3>1 DEF VisitedOK, EmptyOK
    <3>3. HistoryOK'
      BY ZenonT(60), <2>1, <3>1 DEF HistoryOK, Inbox, Pending
    <3> QED BY <2>1, <3>2, <3>3 DEF HInv
  <2> QED BY <2>2, <2>3, Steps
<1> QED BY <1>1, <1>2, PTL DEF Spec

\* Whoever is in a room has been sent, or will be, everything said there since it
\* came, once and in the order in which it was said, whatever the other workers do.
THEOREM EverybodyHears == Spec => []HeardInOrder
<1>1. HInv => HeardInOrder
  BY DEF HInv, HistoryOK, HeardInOrder
<1> QED BY <1>1, HistoryInvariance, PTL

-----------------------------------------------------------------------------
(***************************************************************************)
(* Requests and replies.                                                   *)
(***************************************************************************)
Settled == {"unborn", "login", "s_recv", "r_join", "r_deq", "r_send"}
Owing == Finding \cup Broadcasting
           \cup {"b_lock", "s_ok", "s_err", "s_quit", "r_add", "r_ok"}

\* A message that is no login is answered at once, and then answered again
\* if its body is good, but never by a worker that goes on to a conversation.
OwedOK == \A w \in Workers :
            /\ pc[w] \in Settled => owed[w] = 0
            /\ pc[w] \in Owing => owed[w] = 1
            /\ pc[w] = "l_ok" /\ login_mes[w].tag \in {"slogin", "rlogin"} => owed[w] = 1
            /\ pc[w] = "l_invalid" => login_mes[w].tag = "unknown"

OInv == Inv /\ OwedOK

\* Only the login sets login_mes, and only a request or a reply changes what is owed.
LEMMA OwedSteps ==
  ASSUME NEW w \in Workers, Step(w)
  PROVE  /\ Login(w) \/ Cleanup(w) \/ UNCHANGED login_mes
         /\ Reads(w) \/ LoginReply(w) \/ SenderReply(w) \/ ReceiverReply(w) \/ Cleanup(w)
              \/ UNCHANGED owed
<1> USE DEF thread
<1>1. CASE Client(w) \/ ReceiveEof(w)
  BY <1>1 DEF Client, ReceiveEof
<1>2. CASE Login(w)
  BY <1>2 DEF Reads
<1>3. CASE JoinRequest(w)
  BY <1>3 DEF Reads, JoinRequest
<1>4. CASE SenderRequest(w)
  BY <1>4 DEF Reads, SenderRequest, BadRequest, Join, Leave, SendAll, Quit, Request
<1>5. CASE LoginReply(w) \/ SenderReply(w) \/ ReceiverReply(w)
  BY <1>5 DEF LoginReply, SenderReply, ReceiverReply, Reply
<1>6. CASE BroadcastNext(w) \/ BroadcastEnqueue(w) \/ Dequeue(w) \/ Deliver(w)
  BY <1>6 DEF BroadcastNext, BroadcastEnqueue, Dequeue, Deliver
<1>7. CASE RoomStep(w)
  BY <1>7 DEF RoomStep, AddMember, RemoveMember, BroadcastLock, BroadcastReturn
<1>8. CASE Accept(w) \/ Cleanup(w) \/ ServerLock(w)
  BY <1>8 DEF Accept, ServerLock
<1>9. CASE FindRoom(w) \/ CreateRoom(w)
  BY <1>9 DEF FindRoom, CreateRoom
<1> QED
  BY <1>1, <1>2, <1>3, <1>4, <1>5, <1>6, <1>7, <1>8, <1>9 DEF Step, PrivateStep, Reads

\* A request is owed a reply, and a reply pays it.
LEMMA RequestOwed ==
  ASSUME TypeOK, NEW w \in Workers, Reads(w)
  PROVE  owed' = [owed EXCEPT ![w] = @ + 1] /\ owed[w] \in Int
BY DEF TypeOK, Reads, Login, SenderRequest, BadRequest, Join, Leave, SendAll, Quit, Request,
       JoinRequest, Received

LEMMA ReplyPays ==
  ASSUME TypeOK, NEW w \in Workers, NEW from, NEW next, NEW failed, Reply(w, from, next, failed)
  PROVE  /\ pc[w] = from /\ login_mes' = login_mes /\ owed[w] \in Int
         /\ \/ pc'[w] = next /\ owed' = [owed EXCEPT ![w] = @ - 1]
            \/ pc'[w] = failed /\ owed' = owed
BY GotoAt DEF TypeOK, Reply, thread

LEMMA OthersOwe ==
  ASSUME TypeOK, NEW w \in Workers, Step(w), NEW v \in Workers \ {w}
  PROVE  owed'[v] = owed[v] /\ login_mes'[v] = login_mes[v]
<1>0. owed \in [Workers -> Int] /\ login_mes \in [Workers -> LoginMessage]
  BY DEF TypeOK
<1>1. owed'[v] = owed[v]
  <2>1. CASE UNCHANGED owed
    BY <2>1
  <2>2. CASE Reads(w)
    BY <1>0, <2>2, RequestOwed
  <2>3. CASE LoginReply(w) \/ SenderReply(w) \/ ReceiverReply(w)
    <3>1. owed' = owed \/ owed' = [owed EXCEPT ![w] = @ - 1]
      BY <2>3 DEF LoginReply, SenderReply, ReceiverReply, Reply
    <3> QED BY <1>0, <3>1
  <2>4. CASE Cleanup(w)
    BY <1>0, <2>4 DEF Cleanup
  <2> QED BY <2>1, <2>2, <2>3, <2>4, OwedSteps
<1>2. login_mes'[v] = login_mes[v]
  BY <1>0, OwedSteps DEF Login, Cleanup
<1> QED BY <1>1, <1>2

LEMMA OwedStep ==
  ASSUME Inv, OwedOK, NEW w \in Workers, Step(w) PROVE OwedOK'
<1>0. TypeOK /\ NoNullDereference
  BY DEF Inv
<1> DEFINE Good == /\ pc'[w] \in Settled => owed'[w] = 0
                   /\ pc'[w] \in Owing => owed'[w] = 1
                   /\ pc'[w] = "l_ok" /\ login_mes'[w].tag \in {"slogin", "rlogin"}
                        => owed'[w] = 1
                   /\ pc'[w] = "l_invalid" => login_mes'[w].tag = "unknown"
<1> USE DEF Settled, Owing, Finding, Broadcasting
<1> SUFFICES Good
  BY <1>0, Others, OthersOwe DEF OwedOK
<1>1. /\ pc[w] \in Settled => owed[w] = 0
      /\ pc[w] \in Owing => owed[w] = 1
      /\ pc[w] = "l_ok" /\ login_mes[w].tag \in {"slogin", "rlogin"} => owed[w] = 1
      /\ pc[w] = "l_invalid" => login_mes[w].tag = "unknown"
  BY DEF OwedOK
<1>2. owed \in [Workers -> Int] /\ login_mes \in [Workers -> LoginMessage]
  BY <1>0 DEF TypeOK
<1>3. CASE Reads(w)
  <2>1. pc[w] \in {"login", "s_recv", "r_join"}
    BY <1>3 DEF Reads, Login, SenderRequest, BadRequest, Join, Leave, SendAll, Quit, Request,
                JoinRequest, Goto
  <2>2. owed'[w] = 1
    BY <1>0, <1>1, <1>2, <2>1, <1>3, RequestOwed
  <2>3. pc'[w] \notin Settled
    <3>1. CASE Login(w)
      <4>1. pc'[w] \in {"l_invalid", "l_ok", "l_reject"}
        BY <1>0, <3>1 DEF TypeOK, Login, LoginVerdict
      <4> QED BY <4>1
    <3>2. CASE SenderRequest(w)
      <4>1. PICK to \in {"s_err", "f_lock", "s_ok", "b_lock", "s_quit"} : Goto(w, "s_recv", to)
        BY <3>2 DEF SenderRequest, BadRequest, Join, Leave, SendAll, Quit, Request
      <4> QED BY <1>0, <4>1, GotoAt
    <3>3. CASE JoinRequest(w)
      <4>1. pc'[w] \in {"f_lock", "r_reject"}
        BY <1>0, <3>3, GotoAt DEF JoinRequest
      <4> QED BY <4>1
    <3> QED BY <1>3, <3>1, <3>2, <3>3 DEF Reads
  <2>4. pc'[w] = "l_invalid" => login_mes'[w].tag = "unknown"
    <3>1. CASE Login(w)
      <4>1. PICK mes \in Logins[w] :
              /\ login_mes' = [login_mes EXCEPT ![w] = mes]
              /\ pc' = [pc EXCEPT ![w] = IF mes.tag = "unknown" THEN "l_invalid"
                                          ELSE LoginVerdict(mes.body)]
        BY <3>1 DEF Login
      <4>2. LoginVerdict(mes.body) # "l_invalid"
        BY DEF LoginVerdict
      <4>3. pc'[w] = IF mes.tag = "unknown" THEN "l_invalid" ELSE LoginVerdict(mes.body)
        BY <1>0, <4>1 DEF TypeOK
      <4>4. login_mes'[w] = mes
        BY <1>2, <4>1
      <4> QED BY <4>2, <4>3, <4>4
    <3>2. CASE SenderRequest(w)
      <4>1. PICK to \in {"s_err", "f_lock", "s_ok", "b_lock", "s_quit"} : Goto(w, "s_recv", to)
        BY <3>2 DEF SenderRequest, BadRequest, Join, Leave, SendAll, Quit, Request
      <4> QED BY <1>0, <4>1, GotoAt
    <3>3. CASE JoinRequest(w)
      <4>1. pc'[w] \in {"f_lock", "r_reject"}
        BY <1>0, <3>3, GotoAt DEF JoinRequest
      <4> QED BY <4>1
    <3> QED BY <1>3, <3>1, <3>2, <3>3 DEF Reads
  <2> QED BY <2>2, <2>3, <2>4
<1>4. CASE LoginReply(w)
  <2>1. CASE Reply(w, "l_invalid", LoginVerdict(login_mes[w].body), "cleanup")
    <3>1. pc'[w] \in {"l_ok", "l_reject", "cleanup"} /\ login_mes' = login_mes
          /\ pc[w] = "l_invalid"
      BY <1>0, <2>1, ReplyPays DEF LoginVerdict
    <3> QED BY <1>1, <3>1
  <2>2. CASE Reply(w, "l_reject", "cleanup", "cleanup")
    BY <1>0, <2>2, ReplyPays
  <2>3. CASE Reply(w, "l_ok", AfterLogin[login_mes[w].tag], "cleanup")
    <3>1. \/ pc'[w] = AfterLogin[login_mes[w].tag] /\ owed' = [owed EXCEPT ![w] = @ - 1]
          \/ pc'[w] = "cleanup"
      BY <1>0, <2>3, ReplyPays
    <3>2. pc[w] = "l_ok"
      BY <1>0, <2>3, ReplyPays
    <3>3. CASE login_mes[w].tag \in {"slogin", "rlogin"}
      <4>1. AfterLogin[login_mes[w].tag] \in {"s_recv", "r_join"}
        BY <3>3 DEF AfterLogin
      <4>2. owed[w] = 1
        BY <1>1, <3>2, <3>3
      <4>3. (pc'[w] \in {"s_recv", "r_join"} /\ owed'[w] = 0) \/ pc'[w] = "cleanup"
        BY <1>2, <3>1, <4>1, <4>2
      <4> QED BY <4>3
    <3>4. CASE login_mes[w].tag \notin {"slogin", "rlogin"}
      <4>1. login_mes[w].tag \in {"other", "unknown"}
        BY <1>2, <3>4 DEF LoginMessage, LoginTags
      <4>2. AfterLogin[login_mes[w].tag] = "l_reject"
        BY <4>1 DEF AfterLogin
      <4>3. pc'[w] \in {"l_reject", "cleanup"}
        BY <3>1, <4>2
      <4> QED BY <4>3
    <3> QED BY <3>3, <3>4
  <2> QED BY <1>4, <2>1, <2>2, <2>3 DEF LoginReply
<1>5. CASE SenderReply(w)
  <2>1. /\ pc[w] \in {"s_ok", "s_err", "s_quit"}
        /\ \/ pc'[w] \in {"s_recv", "cleanup"} /\ owed' = [owed EXCEPT ![w] = @ - 1]
           \/ pc'[w] = "cleanup"
    BY <1>0, <1>5, ReplyPays DEF SenderReply
  <2> QED BY <1>1, <1>2, <2>1
<1>6. CASE ReceiverReply(w)
  <2>1. \/ pc[w] = "r_ok" /\ pc'[w] = "r_deq" /\ owed' = [owed EXCEPT ![w] = @ - 1]
        \/ pc'[w] \in {"cleanup", "r_remove"}
    BY <1>0, <1>6, ReplyPays DEF ReceiverReply
  <2> QED BY <1>1, <1>2, <2>1
<1>7. CASE Cleanup(w)
  <2>1. pc'[w] = "done"
    BY <1>0, <1>7, GotoAt DEF Cleanup
  <2> QED BY <2>1
<1>8. CASE /\ ~ Reads(w) /\ ~ LoginReply(w) /\ ~ SenderReply(w) /\ ~ ReceiverReply(w)
           /\ ~ Cleanup(w)
  <2>1. owed' = owed /\ login_mes' = login_mes
    BY <1>8, OwedSteps DEF Reads
  <2>2. \/ pc'[w] = pc[w]
        \/ pc'[w] \in Settled /\ pc[w] \in Settled
        \/ pc'[w] \in Owing /\ pc[w] \in Owing
        \/ pc'[w] \in {"cleanup", "r_reject", "r_remove"}
    <3>1. CASE RoomStep(w)
      BY <1>0, <3>1, RoomStepPoints
    <3>2. CASE Accept(w)
      BY <1>0, <3>2, GotoAt DEF Accept
    <3>3. CASE ServerLock(w)
      BY <1>0, <3>3, LockTaken
    <3>4. CASE FindRoom(w)
      BY <1>0, <3>4, Search DEF Found, NotFound
    <3>5. CASE CreateRoom(w)
      BY <1>0, <3>5, Creation
    <3>6. CASE Client(w)
      BY <3>6 DEF Client
    <3>7. CASE ReceiveEof(w)
      BY <1>0, <3>7, GotoAt DEF ReceiveEof
    <3>8. CASE BroadcastNext(w) \/ BroadcastEnqueue(w)
      BY <1>0, <3>8, GotoAt DEF BroadcastNext, BroadcastEnqueue
    <3>9. CASE Dequeue(w) \/ Deliver(w)
      BY <1>0, <3>9, GotoAt DEF Dequeue, Deliver
    <3> QED BY <1>8, <3>1, <3>2, <3>3, <3>4, <3>5, <3>6, <3>7, <3>8, <3>9 DEF Step, PrivateStep
  <2> QED BY <1>1, <2>1, <2>2
<1> QED BY <1>3, <1>4, <1>5, <1>6, <1>7, <1>8

\* A worker that waits for a request has replied once to each one before.
THEOREM OneReplyEach == Spec => []AnswersMatchRequests
<1>1. Init => OInv
  <2> SUFFICES ASSUME Init PROVE OwedOK
    BY InvInit DEF OInv
  <2>1. \A w \in Workers : pc[w] = "unborn" /\ owed[w] = 0
    BY DEF Init
  <2> QED BY <2>1 DEF OwedOK, Owing, Finding, Broadcasting
<1>2. OInv /\ [Next]_vars => OInv'
  <2> SUFFICES ASSUME OInv, [Next]_vars PROVE OInv'
    OBVIOUS
  <2>1. Inv /\ Inv' /\ OwedOK
    BY InvNext DEF OInv
  <2>2. ASSUME NEW w \in Workers, Step(w) PROVE OInv'
    BY <2>1, <2>2, OwedStep DEF OInv
  <2>3. CASE UNCHANGED vars
    BY <2>1, <2>3 DEF OInv, OwedOK, vars, thread
  <2> QED BY <2>2, <2>3, Steps
<1>3. OInv => AnswersMatchRequests
  BY DEF OInv, OwedOK, AnswersMatchRequests, Settled
<1> QED BY <1>1, <1>2, <1>3, PTL DEF Spec

-----------------------------------------------------------------------------
(***************************************************************************)
(* The people in a room.                                                   *)
(***************************************************************************)
LEMMA MembersAre ==
  Inv => \A name \in RoomNames :
           Members(name) = {u \in Workers : /\ pc[u] \in Listening
                                            /\ current_room[u] = m_rooms[name]}
<1> SUFFICES ASSUME Inv, NEW name \in RoomNames
             PROVE  Members(name) = {u \in Workers : /\ pc[u] \in Listening
                                                     /\ current_room[u] = m_rooms[name]}
  OBVIOUS
<1>0. TypeOK /\ NoNullDereference
  BY DEF Inv
<1>1. CASE m_rooms[name] = NullPtr
  <2>1. \A u \in Workers : pc[u] \in Listening => current_room[u] # NullPtr
    BY <1>0 DEF NoNullDereference, InRoom
  <2> QED BY <1>1, <2>1 DEF Members
<1>2. CASE m_rooms[name] # NullPtr
  <2> DEFINE r == m_rooms[name]
  <2>1. rooms \in Seq(RoomType) /\ r \in 0 .. Len(rooms)
    BY <1>0 DEF TypeOK
  <2>2. r \in RoomId
    BY <1>2, <2>1 DEF RoomId, NullPtr
  <2>3. rooms[r] \in RoomType
    <3> HIDE DEF RoomType, r
    <3> QED BY <2>1, <2>2, ElementOfSeq DEF RoomId
  <2>4. rooms[r].members \subseteq Workers
    BY <2>3 DEF RoomType
  <2>5. \A u \in Workers : u \in rooms[r].members <=> pc[u] \in Member /\ current_room[u] = r
    BY <2>2 DEF Inv, MembersOK
  <2>6. Members(name) = {u \in rooms[r].members : pc[u] \in Listening}
    BY <1>2 DEF Members
  <2> QED BY <2>4, <2>5, <2>6 DEF Member
<1> QED BY <1>1, <1>2

LEMMA MembersAreNext ==
  Inv' => \A name \in RoomNames :
            Members(name)' = {u \in Workers : /\ pc'[u] \in Listening
                                              /\ current_room'[u] = m_rooms'[name]}
<1>1. (Inv => \A name \in RoomNames :
           Members(name) = {u \in Workers : /\ pc[u] \in Listening
                                            /\ current_room[u] = m_rooms[name]})'
  BY MembersAre, PTL
<1> QED BY <1>1

\* Nobody changes rooms while he listens, and a name gets its Room before
\* anybody is in it.
LEMMA KeepsRoom ==
  ASSUME TypeOK, NoNullDereference, NEW w \in Workers, Step(w),
         NEW u \in Workers, pc[u] \in Listening
  PROVE  current_room'[u] = current_room[u]
<1>1. CASE u # w
  BY <1>1, Others
<1>2. CASE u = w
  <2>1. CASE PrivateStep(w)
    BY <1>2, <2>1, PrivateSteps DEF Private, Member
  <2>2. CASE RoomStep(w)
    BY <1>2, <2>2, RoomSteps
  <2>3. ~ Accept(w) /\ ~ Cleanup(w) /\ ~ ServerLock(w) /\ ~ FindRoom(w) /\ ~ CreateRoom(w)
    BY <1>2 DEF Accept, Cleanup, ServerLock, FindRoom, CreateRoom, Goto, Listening
  <2> QED BY <2>1, <2>2, <2>3 DEF Step
<1> QED BY <1>1, <1>2

LEMMA MapGrows ==
  ASSUME Inv, NEW w \in Workers, Step(w), NEW name \in RoomNames
  PROVE  \/ m_rooms'[name] = m_rooms[name]
         \/ m_rooms[name] = NullPtr /\ m_rooms'[name] \notin RoomId
<1>0. TypeOK /\ NoNullDereference
  BY DEF Inv
<1>1. CASE PrivateStep(w)
  BY <1>0, <1>1, PrivateSteps DEF Private
<1>2. CASE RoomStep(w)
  BY <1>0, <1>2, RoomSteps
<1>3. CASE Accept(w) \/ Cleanup(w)
  BY <1>0, <1>3, StartOrEnd
<1>4. CASE ServerLock(w)
  BY <1>0, <1>4, LockTaken
<1>5. CASE FindRoom(w)
  BY <1>0, <1>5, Search DEF Found, NotFound
<1>6. CASE CreateRoom(w)
  <2>1. m_rooms[arg[w]] = NullPtr
    BY <1>6 DEF Inv, MapOK, CreateRoom
  <2> QED BY <1>0, <1>6, <2>1, Creation
<1> QED BY <1>1, <1>2, <1>3, <1>4, <1>5, <1>6 DEF Step

\* What a listener does.
LEMMA ListenerDoes ==
  ASSUME TypeOK, NEW w \in Workers, Step(w), pc[w] \in Listening
  PROVE  \/ Client(w) /\ pc' = pc
         \/ Dequeue(w) /\ pc'[w] = "r_send"
         \/ Deliver(w) /\ pc'[w] \in {"r_deq", "r_remove"}
         \/ ReceiverReply(w) /\ pc'[w] \in {"r_deq", "r_remove"}
<1>1. ~ RoomStep(w) /\ ~ Accept(w) /\ ~ ServerLock(w) /\ ~ FindRoom(w) /\ ~ CreateRoom(w)
      /\ ~ Cleanup(w)
  BY DEF RoomStep, AddMember, RemoveMember, BroadcastLock, BroadcastReturn, Accept, ServerLock,
         FindRoom, CreateRoom, Cleanup, Goto, Listening
<1>2. /\ ~ Reads(w) /\ ~ ReceiveEof(w) /\ ~ LoginReply(w) /\ ~ SenderReply(w)
      /\ ~ BroadcastNext(w) /\ ~ BroadcastEnqueue(w)
  BY DEF Reads, Login, SenderRequest, BadRequest, Join, Leave, SendAll, Quit, Request,
         JoinRequest, ReceiveEof, LoginReply, SenderReply, Reply, BroadcastNext,
         BroadcastEnqueue, Goto, Listening
<1>3. Client(w) => pc' = pc
  BY DEF Client
<1>4. Dequeue(w) => pc'[w] = "r_send"
  BY GotoAt DEF Dequeue
<1>5. Deliver(w) => pc'[w] \in {"r_deq", "r_remove"}
  BY GotoAt DEF Deliver
<1>6. ReceiverReply(w) => pc'[w] \in {"r_deq", "r_remove"}
  BY GotoAt DEF ReceiverReply, Reply, Listening
<1> QED BY <1>1, <1>2, <1>3, <1>4, <1>5, <1>6 DEF Step, PrivateStep

\* Who is in which room, after a step.
LEMMA MembersNext ==
  ASSUME Inv, Inv', NEW w \in Workers, Step(w), NEW name \in RoomNames, NEW u \in Workers,
         pc'[u] \in Listening, pc[u] \in Listening
  PROVE  u \in Members(name)' <=> u \in Members(name)
<1>0. TypeOK /\ NoNullDereference
  BY DEF Inv
<1>1. current_room'[u] = current_room[u] /\ current_room[u] \in RoomId
  BY <1>0, KeepsRoom, CurrentRoom DEF InRoom, RoomId
<1>2. current_room[u] # NullPtr
  BY <1>0 DEF NoNullDereference, InRoom
<1>3. current_room[u] = m_rooms'[name] <=> current_room[u] = m_rooms[name]
  BY <1>1, <1>2, MapGrows
<1> QED BY <1>1, <1>3, MembersAre, MembersAreNext

LEMMA MembersListen ==
  ASSUME Inv, NEW name \in RoomNames
  PROVE  Members(name) = {u \in Members(name) : u \in Workers /\ pc[u] \in Listening}
  BY MembersAre

LEMMA MembersListenNext ==
  ASSUME Inv', NEW name \in RoomNames
  PROVE  Members(name)' = {u \in Members(name)' : u \in Workers /\ pc'[u] \in Listening}
  BY MembersAreNext

-----------------------------------------------------------------------------
(***************************************************************************)
(* The variables of ChatRooms.                                             *)
(***************************************************************************)
InboxOf(u) == IF pc[u] \in Listening THEN Inbox(u) ELSE << >>
RoomMembers == [name \in RoomNames |-> Members(name)]
RoomInbox == [u \in Workers |-> InboxOf(u)]

\* A worker on its way to its client has one message in hand.
HandOK == \A u \in Workers : pc[u] = "r_send" => \E m \in Messages : hand[u] = <<m>>

LEMMA HandStep ==
  ASSUME Inv, HandOK, NEW w \in Workers, Step(w) PROVE HandOK'
<1>0. TypeOK /\ NoNullDereference
  BY DEF Inv
<1> SUFFICES ASSUME NEW u \in Workers, pc'[u] = "r_send"
             PROVE  \E m \in Messages : hand'[u] = <<m>>
  BY DEF HandOK
<1>1. CASE u # w
  BY <1>0, <1>1, Others, OthersHistory DEF HandOK
<1>2. CASE u = w
  <2>1. Client(w) \/ ReceiverReply(w) \/ Dequeue(w) \/ Deliver(w) \/ AddMember(w)
    BY <1>0, <1>2, ListenerSteps DEF Listening
  <2>2. CASE Client(w)
    BY <1>2, <2>2 DEF HandOK, Client, thread
  <2>3. CASE Dequeue(w)
    <3>1. mqueue[w] \in Seq(Messages) /\ mqueue[w] # << >>
      BY <1>0, <2>3, Types DEF Dequeue, Messages
    <3>2. Head(mqueue[w]) \in Messages
      BY <3>1, HeadTailProperties
    <3>3. hand'[w] = <<Head(mqueue[w])>>
      BY <1>0, <2>3 DEF Dequeue, TypeOK
    <3> QED BY <1>2, <3>2, <3>3
  <2>4. ~ ReceiverReply(w) /\ ~ Deliver(w) /\ ~ AddMember(w)
    <3>1. ReceiverReply(w) => pc'[w] \in {"cleanup", "r_deq", "r_remove"}
      BY <1>0, GotoAt DEF ReceiverReply, Reply
    <3>2. Deliver(w) => pc'[w] \in {"r_deq", "r_remove"}
      BY <1>0, GotoAt DEF Deliver
    <3>3. AddMember(w) => pc'[w] = "r_ok"
      BY <1>0, GotoAt DEF AddMember
    <3> QED BY <1>2, <3>1, <3>2, <3>3
  <2> QED BY <2>1, <2>2, <2>3, <2>4
<1> QED BY <1>1, <1>2

\* A step by which w's client hears a message, or w leaves its room.
Hears(w) == Deliver(w) /\ pc'[w] = "r_deq"
Leaves(w) == pc[w] \in Listening /\ pc'[w] = "r_remove"

LEMMA InboxOfOthers ==
  ASSUME HInv, NEW w \in Workers, Step(w), NEW u \in Workers, u # w,
         ~ (BroadcastLock(w) /\ current_room[w] = current_room[u] /\ pc[u] \in Listening)
  PROVE  InboxOf(u)' = InboxOf(u)
<1>0. Inv /\ VisitedOK /\ EmptyOK /\ TypeOK
  BY DEF HInv, Inv
<1>1. pc'[u] = pc[u]
  BY <1>0, Others
<1>2. CASE pc[u] \in Listening
  <2>1. Inbox(u)' = Inbox(u)
    BY <1>0, <1>1, <1>2, InboxSame DEF ListensOn
  <2> QED BY <1>1, <1>2, <2>1 DEF InboxOf
<1>3. CASE pc[u] \notin Listening
  BY <1>1, <1>3 DEF InboxOf
<1> QED BY <1>2, <1>3

LEMMA InboxOfOwn ==
  ASSUME HInv, NEW w \in Workers, Step(w), ~ Hears(w), ~ Leaves(w)
  PROVE  /\ InboxOf(w)' = InboxOf(w)
         /\ pc'[w] \in Listening <=> pc[w] \in Listening \/ AddMember(w)
<1>0. Inv /\ VisitedOK /\ EmptyOK /\ TypeOK /\ NoNullDereference
  BY DEF HInv, Inv
<1>1. CASE pc[w] \in Listening
  <2>1. /\ Client(w) \/ Dequeue(w) \/ ReceiverReply(w)
        /\ pc'[w] \in Listening /\ ~ Deliver(w) /\ ~ AddMember(w)
    <3>1. ~ Deliver(w)
      <4>1. Deliver(w) => pc'[w] \in {"r_deq", "r_remove"}
        BY <1>0, GotoAt DEF Deliver
      <4> QED BY <1>1, <4>1 DEF Hears, Leaves
    <3>2. ~ AddMember(w)
      BY <1>1 DEF AddMember, Goto, Listening
    <3>3. pc'[w] # "r_remove"
      BY <1>1 DEF Leaves
    <3>4. \/ Client(w) /\ pc' = pc
          \/ (Dequeue(w) \/ ReceiverReply(w)) /\ pc'[w] \in Listening
      BY <1>0, <1>1, <3>1, <3>3, ListenerDoes DEF Listening
    <3> QED BY <1>1, <3>1, <3>2, <3>4
  <2>2. Inbox(w)' = Inbox(w)
    <3>1. ~ BroadcastLock(w)
      BY <1>1 DEF BroadcastLock, Goto, Listening
    <3> QED BY <1>0, <2>1, <3>1, InboxSame DEF ListensOn
  <2> QED BY <1>1, <2>1, <2>2 DEF InboxOf
<1>2. CASE AddMember(w)
  <2>1. pc[w] = "r_add" /\ pc'[w] = "r_ok" /\ Inbox(w)' = << >>
    BY ZenonT(60), <1>0, <1>2, GotoAt, InboxStarts DEF AddMember
  <2> QED BY <1>2, <2>1 DEF InboxOf, Listening
<1>3. CASE pc[w] \notin Listening /\ ~ AddMember(w)
  <2>1. pc'[w] \notin Listening
    <3>1. SUFFICES ASSUME pc'[w] \in Listening PROVE FALSE
      OBVIOUS
    <3>2. ListensOn(w, w)
      BY <1>0, <1>3, <3>1, ListenerSteps DEF ListensOn
    <3> QED BY <1>0, <1>3, <3>2, StaysListening
  <2> QED BY <1>3, <2>1 DEF InboxOf
<1> QED BY <1>1, <1>2, <1>3

-----------------------------------------------------------------------------
LEMMA SeqTakeFirst ==
  ASSUME NEW m \in Messages, NEW s \in Seq(Messages), NEW c, c = <<m>> \o s
  PROVE  c # << >> /\ Head(c) = m /\ Tail(c) = s
<1> HIDE DEF Messages
<1>0. <<m>> \in Seq(Messages) /\ Len(<<m>>) = 1 /\ <<m>>[1] = m
  OBVIOUS
<1>1. c \in Seq(Messages) /\ Len(c) = 1 + Len(s) /\ Len(s) \in Nat
  BY <1>0, ConcatProperties
<1>2. c[1] = m /\ \A i \in 1 .. Len(s) : c[i + 1] = s[i]
  BY <1>0, <1>1, ConcatProperties
<1>3. c # << >>
  BY <1>1, EmptySeq
<1>4. /\ Tail(c) \in Seq(Messages) /\ Len(Tail(c)) = Len(s)
      /\ \A i \in 1 .. Len(s) : Tail(c)[i] = c[i + 1]
  BY <1>1, <1>3, HeadTailProperties
<1>5. Tail(c) = s
  BY <1>2, <1>4, SeqEqual
<1> QED BY <1>1, <1>2, <1>3, <1>5

(***************************************************************************)
(* Each step is one of ChatRooms', or none.                                *)
(***************************************************************************)
LEMMA HeardStep ==
  ASSUME NEW w \in Workers, Step(w), ~ Deliver(w)
  PROVE  heard' = heard
<1>1. Dequeue(w) => heard' = heard
  BY DEF Dequeue, history
<1>2. Cleanup(w) => heard' = heard
  BY DEF Cleanup, history
<1>3. BroadcastEnqueue(w) => heard' = heard
  BY DEF BroadcastEnqueue, history
<1> QED BY <1>1, <1>2, <1>3, Untouched

LEMMA Coming ==
  ASSUME HInv, Inv', NEW w \in Workers, AddMember(w)
  PROVE  \E name \in RoomNames : Chat!Join(w, name)
<1>0. Inv /\ TypeOK /\ NoNullDereference /\ Step(w) /\ RoomStep(w)
  BY DEF HInv, Inv, Step, RoomStep
<1> DEFINE r == current_room[w]
           name == rooms[r].name
<1>1. pc[w] = "r_add" /\ pc'[w] = "r_ok" /\ heard' = heard
  BY <1>0, GotoAt DEF AddMember
<1>2. r \in RoomId /\ UNCHANGED <<m_rooms, current_room>>
  BY <1>0, RoomSteps
<1>3. name \in RoomNames
  <2>1. rooms[r] \in RoomType
    BY <1>0, <1>1, CurrentRoom DEF InRoom
  <2> QED BY <2>1 DEF RoomType
<1>4. \A n \in RoomNames : m_rooms[n] = r <=> n = name
  <2>1. m_rooms[name] = r
    BY <1>0, <1>2 DEF Inv, UniqueRoom
  <2>2. r # NullPtr
    BY <1>0, <1>1 DEF NoNullDereference, InRoom
  <2> QED BY <1>0, <2>1, <2>2 DEF Inv, MapOK
<1>5. \A n \in RoomNames : w \notin Members(n)
  BY <1>0, <1>1, MembersAre DEF Listening
<1>6. \A n \in RoomNames : Members(n)' = IF n = name THEN Members(n) \cup {w} ELSE Members(n)
  <2> SUFFICES ASSUME NEW n \in RoomNames
               PROVE  Members(n)' = IF n = name THEN Members(n) \cup {w} ELSE Members(n)
    OBVIOUS
  <2>1. Members(n) \subseteq Workers /\ Members(n)' \subseteq Workers
    BY <1>0, MembersAre, MembersAreNext
  <2>2. \A u \in Workers \ {w} : u \in Members(n)' <=> u \in Members(n)
    BY <1>0, <1>2, Others, MembersAre, MembersAreNext
  <2>3. w \in Members(n)' <=> n = name
    BY <1>0, <1>1, <1>2, <1>4, MembersAreNext DEF Listening
  <2> HIDE DEF name
  <2> QED BY <1>5, <2>1, <2>2, <2>3
<1>7. RoomMembers' = [RoomMembers EXCEPT ![name] = @ \cup {w}]
  <2> HIDE DEF name
  <2> QED BY <1>3, <1>6 DEF RoomMembers
<1>8. RoomInbox' = RoomInbox
  <2>1. InboxOf(w)' = InboxOf(w)
    <3>1. ~ Hears(w) /\ ~ Leaves(w)
      BY <1>1 DEF Hears, Leaves
    <3> QED BY <1>0, <3>1, InboxOfOwn
  <2>2. ~ BroadcastLock(w)
    BY <1>1 DEF BroadcastLock, Goto
  <2>3. \A u \in Workers \ {w} : InboxOf(u)' = InboxOf(u)
    BY <1>0, <2>2, InboxOfOthers
  <2>4. \A u \in Workers : InboxOf(u)' = InboxOf(u)
    BY <2>1, <2>3
  <2> QED BY <2>4 DEF RoomInbox
<1>9. \A q \in RoomNames : w \notin RoomMembers[q]
  BY <1>5 DEF RoomMembers
<1> HIDE DEF name
<1>10. Chat!Join(w, name)
  BY <1>1, <1>7, <1>8, <1>9 DEF Chat!Join, RoomMembers, RoomInbox, InboxOf
<1> QED BY <1>3, <1>10

LEMMA Saying ==
  ASSUME HInv, Inv', NEW w \in Workers, BroadcastLock(w)
  PROVE  \E name \in RoomNames, m \in Messages : Chat!Say(name, m)
<1>0. Inv /\ VisitedOK /\ TypeOK /\ NoNullDereference /\ Step(w) /\ RoomStep(w)
  BY DEF HInv, Inv, Step, RoomStep
<1> DEFINE r == current_room[w]
           name == rooms[r].name
<1>1. pc[w] = "b_lock" /\ pc'[w] = "b_loop" /\ heard' = heard
  BY <1>0, GotoAt DEF BroadcastLock, history
<1>2. r \in RoomId /\ UNCHANGED <<m_rooms, current_room>>
  BY <1>0, RoomSteps
<1>3. name \in RoomNames /\ m_rooms[name] = r
  <2>1. rooms[r] \in RoomType
    BY <1>0, <1>1, CurrentRoom DEF InRoom
  <2>2. m_rooms[name] = r
    BY <1>0, <1>2 DEF Inv, UniqueRoom
  <2> QED BY <2>1, <2>2 DEF RoomType
<1>4. text[w] \in Messages
  <2>1. text[w] \in 0 .. MaxBroadcasts /\ text[w] # 0
    BY <1>0, <1>1 DEF TypeOK, NoNullDereference
  <2> QED BY <2>1, ChatAssumption DEF Messages
<1>5. RoomMembers' = RoomMembers
  <2>1. \A u \in Workers : pc'[u] \in Listening <=> pc[u] \in Listening
    BY <1>0, <1>1, Others DEF Listening
  <2>2. \A n \in RoomNames : Members(n)' = Members(n)
    BY <1>0, <1>2, <2>1, MembersAre, MembersAreNext
  <2> QED BY <2>2 DEF RoomMembers
<1>6. \A u \in Workers : u \in Members(name) <=> pc[u] \in Listening /\ current_room[u] = r
  <2> HIDE DEF name
  <2> QED BY <1>0, <1>3, MembersAre
<1>7. \A u \in Workers : InboxOf(u)' = IF u \in Members(name) THEN Append(InboxOf(u), text[w])
                                        ELSE InboxOf(u)
  <2> SUFFICES ASSUME NEW u \in Workers
               PROVE  InboxOf(u)' = IF u \in Members(name) THEN Append(InboxOf(u), text[w])
                                    ELSE InboxOf(u)
    OBVIOUS
  <2>1. CASE u \in Members(name)
    <3>1. pc[u] \in Listening /\ current_room[u] = r
      BY <1>6, <2>1
    <3>2. u # w
      BY <1>1, <3>1 DEF Listening
    <3>3. pc'[u] = pc[u]
      BY <1>0, <3>2, Others
    <3>4. ListensOn(w, u)
      BY <3>1, <3>2, <3>3 DEF ListensOn
    <3>5. /\ Inbox(u) = hand[u] \o mqueue[u]
          /\ Inbox(u)' = (hand[u] \o mqueue[u]) \o <<text[w]>>
      BY <1>0, <3>1, <3>4, InboxGrows
    <3>6. Inbox(u) \in Seq(Messages)
      BY <1>0, <1>2, <3>1, InboxType
    <3>7. Append(Inbox(u), text[w]) = Inbox(u) \o <<text[w]>>
      BY <1>4, <3>6, AppendIsConcat
    <3>8. Inbox(u)' = Append(Inbox(u), text[w])
      BY <3>5, <3>7
    <3> QED BY <2>1, <3>1, <3>3, <3>8 DEF InboxOf
  <2>2. CASE u \notin Members(name)
    <3>1. CASE u = w
      <4>1. ~ Hears(w) /\ ~ Leaves(w)
        BY <1>1 DEF Hears, Leaves
      <4>2. InboxOf(w)' = InboxOf(w)
        BY <1>0, <4>1, InboxOfOwn
      <4> QED BY <2>2, <3>1, <4>2
    <3>2. CASE u # w
      <4>1. ~ (current_room[w] = current_room[u] /\ pc[u] \in Listening)
        BY <1>6, <2>2
      <4>2. InboxOf(u)' = InboxOf(u)
        BY <1>0, <3>2, <4>1, InboxOfOthers
      <4> QED BY <2>2, <4>2
    <3> QED BY <3>1, <3>2
  <2> QED BY <2>1, <2>2
<1>8. RoomInbox' = [u \in Workers |-> IF u \in RoomMembers[name] THEN Append(RoomInbox[u], text[w])
                                      ELSE RoomInbox[u]]
  <2>1. RoomMembers[name] = Members(name)
    <3> HIDE DEF name
    <3> QED BY <1>3 DEF RoomMembers
  <2>2. \A u \in Workers : RoomInbox[u] = InboxOf(u)
    BY DEF RoomInbox
  <2> HIDE DEF name
  <2> QED BY <1>7, <2>1, <2>2 DEF RoomInbox
<1> HIDE DEF name
<1>9. PICK n \in RoomNames, m \in Messages : n = name /\ m = text[w]
  BY <1>3, <1>4
<1>10. Chat!Say(n, m)
  BY <1>1, <1>5, <1>8, <1>9 DEF Chat!Say, RoomMembers, RoomInbox, InboxOf
<1> QED BY <1>10

LEMMA Hearing ==
  ASSUME HInv, HandOK, Inv', NEW w \in Workers, Hears(w)
  PROVE  Chat!Hear(w)
<1>0. /\ Inv /\ VisitedOK /\ EmptyOK /\ TypeOK /\ NoNullDereference /\ Step(w)
      /\ Deliver(w) /\ pc'[w] = "r_deq"
  BY DEF HInv, Inv, Step, PrivateStep, Hears
<1>1. pc[w] = "r_send" /\ pc[w] \in Listening /\ pc'[w] \in Listening
  BY <1>0 DEF Deliver, Goto, Listening
<1>2. PICK m \in Messages : hand[w] = <<m>>
  BY <1>1 DEF HandOK
<1>3. current_room[w] \in RoomId
  BY <1>0, <1>1, CurrentRoom DEF InRoom, RoomId
<1>4. heard'[w] = heard[w] \o <<m>> /\ Inbox(w) = <<m>> \o Inbox(w)'
  BY <1>0, <1>1, <1>2, InboxDelivered
<1>5. Inbox(w)' \in Seq(Messages)
  <2>1. mqueue' = mqueue /\ hand' = [hand EXCEPT ![w] = << >>]
    BY <1>0 DEF Deliver, mail
  <2>2. Inbox(w)' = (<< >> \o mqueue[w]) \o Pending(w)'
    BY <1>0, <2>1 DEF Inbox, TypeOK
  <2>3. Pending(w)' = Pending(w)
    <3>1. ~ BroadcastEnqueue(w) /\ ~ BroadcastLock(w)
      BY <1>1 DEF BroadcastEnqueue, BroadcastLock, Goto
    <3>2. current_room'[w] = current_room[w]
      BY <1>0, <1>1, KeepsRoom
    <3> QED BY <1>0, <1>1, <1>3, <3>1, <3>2, SaysSame, PendingSame
  <2>4. mqueue[w] \in Seq(Messages) /\ Pending(w) \in Seq(Messages)
    BY <1>0, <1>3, InboxType
  <2>5. << >> \o mqueue[w] = mqueue[w] /\ mqueue[w] \o Pending(w) \in Seq(Messages)
    BY <2>4, ConcatEmptySeq, ConcatProperties
  <2> QED BY <2>2, <2>3, <2>5
<1>6. Inbox(w) # << >> /\ Head(Inbox(w)) = m /\ Tail(Inbox(w)) = Inbox(w)'
  BY <1>2, <1>4, <1>5, SeqTakeFirst
<1>7. heard' = [heard EXCEPT ![w] = Append(@, m)]
  <2>1. heard[w] \in Seq(Messages)
    BY <1>0, <1>3, InboxType
  <2>2. heard[w] \o <<m>> = Append(heard[w], m)
    BY <1>2, <2>1, AppendIsConcat
  <2>3. heard' = [heard EXCEPT ![w] = heard[w] \o hand[w]]
    BY <1>0 DEF Deliver, Goto, TypeOK
  <2> QED BY <1>2, <2>2, <2>3
<1>8. RoomMembers' = RoomMembers
  <2>1. \A u \in Workers : pc'[u] \in Listening <=> pc[u] \in Listening
    BY <1>0, <1>1, Others
  <2>2. \A n \in RoomNames : Members(n)' = Members(n)
    BY <1>0, <2>1, MembersNext, MembersListen, MembersListenNext
  <2> QED BY <2>2 DEF RoomMembers
<1>9. \A u \in Workers : InboxOf(u)' = IF u = w THEN Tail(InboxOf(w)) ELSE InboxOf(u)
  <2>1. InboxOf(w)' = Tail(InboxOf(w))
    BY <1>1, <1>6 DEF InboxOf
  <2>2. ~ BroadcastLock(w)
    BY <1>1 DEF BroadcastLock, Goto
  <2>3. \A u \in Workers \ {w} : InboxOf(u)' = InboxOf(u)
    BY <1>0, <2>2, InboxOfOthers
  <2> QED BY <2>1, <2>3
<1>10. RoomInbox' = [RoomInbox EXCEPT ![w] = Tail(@)]
  BY <1>9 DEF RoomInbox
<1>11. RoomInbox[w] # << >> /\ Head(RoomInbox[w]) = m
  BY <1>1, <1>6 DEF RoomInbox, InboxOf
<1> QED BY <1>7, <1>8, <1>10, <1>11 DEF Chat!Hear, RoomMembers, RoomInbox, InboxOf

LEMMA Leaving ==
  ASSUME HInv, Inv', NEW w \in Workers, Step(w), Leaves(w)
  PROVE  Chat!Leave(w)
<1>0. Inv /\ TypeOK /\ NoNullDereference
  BY DEF HInv, Inv
<1>1. pc[w] \in Listening /\ pc'[w] = "r_remove" /\ pc'[w] \notin Listening
  BY DEF Leaves, Listening
<1>2. heard' = heard
  <2>1. CASE Deliver(w)
    <3>1. pc'[w] = "r_deq" \/ heard' = heard
      BY <1>0, <2>1, GotoAt DEF Deliver
    <3> QED BY <1>1, <3>1
  <2> QED BY <2>1, HeardStep
<1>3. \A n \in RoomNames : Members(n)' = Members(n) \ {w}
  <2>1. \A u \in Workers \ {w} : pc'[u] = pc[u]
    BY <1>0, Others
  <2> SUFFICES ASSUME NEW n \in RoomNames PROVE Members(n)' = Members(n) \ {w}
    OBVIOUS
  <2>2. \A u \in Workers \ {w} : u \in Members(n)' <=> u \in Members(n)
    BY <1>0, <2>1, MembersNext, MembersListen, MembersListenNext
  <2>3. w \notin Members(n)'
    BY <1>1, MembersListenNext
  <2>4. Members(n) \subseteq Workers /\ Members(n)' \subseteq Workers
    BY <1>0, MembersListen, MembersListenNext
  <2> QED BY <2>2, <2>3, <2>4
<1>4. RoomMembers' = [q \in RoomNames |-> RoomMembers[q] \ {w}]
  BY <1>3 DEF RoomMembers
<1>5. \A u \in Workers : InboxOf(u)' = IF u = w THEN << >> ELSE InboxOf(u)
  <2>1. InboxOf(w)' = << >>
    BY <1>1 DEF InboxOf
  <2>2. ~ BroadcastLock(w)
    BY <1>1 DEF BroadcastLock, Goto, Listening
  <2>3. \A u \in Workers \ {w} : InboxOf(u)' = InboxOf(u)
    BY <2>2, InboxOfOthers
  <2> QED BY <2>1, <2>3
<1>6. RoomInbox' = [RoomInbox EXCEPT ![w] = << >>]
  BY <1>5 DEF RoomInbox
<1> QED BY <1>2, <1>4, <1>6 DEF Chat!Leave, RoomMembers, RoomInbox, InboxOf

\* Whatever else a worker does, nobody in the rooms can tell.
LEMMA Unnoticed ==
  ASSUME HInv, Inv', NEW w \in Workers, Step(w),
         ~ AddMember(w), ~ BroadcastLock(w), ~ Hears(w), ~ Leaves(w)
  PROVE  UNCHANGED <<RoomMembers, RoomInbox, heard>>
<1>0. Inv /\ TypeOK /\ NoNullDereference
  BY DEF HInv, Inv
<1>1. \A u \in Workers : pc'[u] \in Listening <=> pc[u] \in Listening
  BY <1>0, Others, InboxOfOwn
<1>2. RoomMembers' = RoomMembers
  <2>1. \A n \in RoomNames : Members(n)' = Members(n)
    BY <1>0, <1>1, MembersNext, MembersListen, MembersListenNext
  <2> QED BY <2>1 DEF RoomMembers
<1>3. RoomInbox' = RoomInbox
  <2>1. \A u \in Workers : InboxOf(u)' = InboxOf(u)
    BY InboxOfOwn, InboxOfOthers
  <2> QED BY <2>1 DEF RoomInbox
<1>4. heard' = heard
  <2>1. ~ Deliver(w)
    <3>1. Deliver(w) => pc[w] = "r_send" /\ pc'[w] \in {"r_deq", "r_remove"}
      BY <1>0, GotoAt DEF Deliver
    <3> QED BY <3>1 DEF Hears, Leaves, Listening
  <2> QED BY <2>1, HeardStep
<1> QED BY <1>2, <1>3, <1>4

LEMMA ChatInit == Init => Chat!Init
<1> SUFFICES ASSUME Init PROVE Chat!Init
  OBVIOUS
<1>1. \A name \in RoomNames : Members(name) = {}
  BY DEF Init, Members
<1>2. \A u \in Workers : pc[u] \notin Listening
  BY DEF Init, Listening
<1>3. heard = [u \in Workers |-> << >>]
  BY DEF Init
<1> QED BY <1>1, <1>2, <1>3 DEF Chat!Init

LEMMA ChatStep == HInv /\ HandOK /\ Inv' /\ [Next]_vars => [Chat!Next]_Chat!vars
<1> SUFFICES ASSUME HInv, HandOK, Inv', [Next]_vars PROVE [Chat!Next]_Chat!vars
  OBVIOUS
<1>s. ASSUME UNCHANGED <<RoomMembers, RoomInbox, heard>> PROVE UNCHANGED Chat!vars
  BY <1>s DEF Chat!vars, RoomMembers, RoomInbox, InboxOf
<1>1. CASE UNCHANGED vars
  <2>1. UNCHANGED <<pc, visited, hand, heard, mqueue, current_room, rooms, m_rooms, text>>
    BY <1>1 DEF vars, thread, server, mail, history
  <2>2. RoomMembers' = RoomMembers
    BY <2>1 DEF RoomMembers, Members
  <2>3. RoomInbox' = RoomInbox
    BY <2>1 DEF RoomInbox, InboxOf, Inbox, Pending
  <2> QED BY <1>s, <2>1, <2>2, <2>3
<1>2. ASSUME NEW w \in Workers, Step(w) PROVE [Chat!Next]_Chat!vars
  <2>1. CASE AddMember(w)
    BY <1>2, <2>1, Coming DEF Chat!Next
  <2>2. CASE BroadcastLock(w)
    BY <1>2, <2>2, Saying DEF Chat!Next, Messages
  <2>3. CASE Hears(w)
    BY <1>2, <2>3, Hearing DEF Chat!Next
  <2>4. CASE Leaves(w)
    BY <1>2, <2>4, Leaving DEF Chat!Next
  <2>5. CASE ~ AddMember(w) /\ ~ BroadcastLock(w) /\ ~ Hears(w) /\ ~ Leaves(w)
    BY <1>2, <1>s, <2>5, Unnoticed
  <2> QED BY <2>1, <2>2, <2>3, <2>4, <2>5
<1> QED BY <1>1, <1>2, Steps

LEMMA HandInvariance == Spec => [](HInv /\ HandOK)
<1>1. Init => HandOK
  BY DEF Init, HandOK
<1>2. HInv /\ HandOK /\ [Next]_vars => HandOK'
  <2> SUFFICES ASSUME HInv, HandOK, [Next]_vars PROVE HandOK'
    OBVIOUS
  <2>1. CASE UNCHANGED vars
    BY <2>1 DEF HandOK, vars, thread
  <2> QED BY <2>1, Steps, HandStep DEF HInv
<1> QED BY <1>1, <1>2, HistoryInvariance, PTL DEF Spec

\* To the people in its rooms the server is one that says each message to all
\* of a room in one step, though broadcast_message goes from mailbox to mailbox.
THEOREM BroadcastsIndivisible == Spec => ImplementsChatRooms
<1>1. HInv => Inv
  BY DEF HInv
<1> QED
  BY <1>1, ChatInit, ChatStep, HandInvariance, PTL DEF Spec, ImplementsChatRooms, Chat!Spec
=============================================================================
