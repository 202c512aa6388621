----------------------------- MODULE ChatServer -----------------------------
(***************************************************************************)
(* csf_assign05/server.cpp and room.cpp: one detached worker thread per    *)
(* connection, the map of rooms they share, and the mailboxes through      *)
(* which a sender's worker hands messages to the receivers' workers.       *)
(*                                                                         *)
(* A worker w stands for its thread, its Connection and its User object.   *)
(* A Room* is an index of rooms, and 0 is the null pointer.  A message is  *)
(* the number of its broadcast.  A mailbox operation is one step, which    *)
(* MessageQueue justifies (MessageQueue!ImplementsFifo), as long as the    *)
(* mailbox is not destroyed during the call (NoUseAfterFree).  An operator *)
(* named after an action with a fault in its name (BroadcastUnlocked, ...) *)
(* is that action with a plausible mistake; Spec does not use it.          *)
(***************************************************************************)
EXTENDS Integers, Sequences

CONSTANTS Workers,        \* the connections the server accepts
          RoomNames,      \* the names clients give to rooms
          Logins,         \* Logins[w]: what client w may send as its login
          Moods,          \* Moods[w]: what may become of client w (see peer)
          None,           \* no thread, no user, no name
          MaxBroadcasts   \* bound: how many sendall requests are made in all

LoginTags == {"slogin", "rlogin", "other", "unknown"}
LoginBodies == {"unterminated", "badname", "good"}
LoginMessage == [tag : LoginTags, body : LoginBodies]

ASSUME ChatAssumption == /\ None \notin Workers \cup RoomNames
                         /\ Logins \in [Workers -> SUBSET LoginMessage]
                         /\ Moods \in [Workers -> SUBSET {"stalled", "eof", "reset"}]
                         /\ MaxBroadcasts \in Nat

VARIABLES
  \* The other end, as the worker's socket sees it: "up", "stalled" (it does
  \* not read and the socket's buffers are full), "eof" (it sends no more, but
  \* writes are still accepted), "reset" (reads and writes fail).
  peer,
  owed,           \* requests received minus replies sent
  pc,             \* where the worker is
  login_mes,      \* the first message of the connection
  arg,            \* the argument of find_or_create_room
  text,           \* the argument of broadcast_message
  current_room,   \* sender: the room joined; receiver: `room`
  visited,        \* broadcast_message: members the iterator has passed
  now,            \* broadcast_message: the user in whose mailbox it is
  hand,           \* receiver: the message dequeued and not yet sent
  user,           \* the User object: "none", "live" or "deleted"
  mqueue,         \* the User's mailbox
  m_lock,         \* Server::m_lock: the holder
  m_rooms,        \* Server::m_rooms: name to Room*
  rooms,          \* the Room objects, in the order of their creation
  said,           \* how many sendall requests have been made
  heard,          \* history: what has been sent to the client, in order
  joined          \* history: how much had been said in the room at add_member

thread == <<login_mes, arg, text, current_room, visited, now, hand>>
server == <<m_lock, m_rooms>>
mail == <<user, mqueue>>
history == <<heard, joined>>
vars == <<peer, owed, pc, thread, server, rooms, mail, said, history>>

NullPtr == 0
RoomId == 1 .. Len(rooms)
NewRoom(name) == [name |-> name, lock |-> None, members |-> {}, log |-> << >>]

NoLogin == [tag |-> "unknown", body |-> "unterminated"]

Init == /\ peer = [w \in Workers |-> "unattended"]
        /\ owed = [w \in Workers |-> 0]
        /\ pc = [w \in Workers |-> "unborn"]
        /\ login_mes = [w \in Workers |-> NoLogin]
        /\ arg = [w \in Workers |-> None]
        /\ text = [w \in Workers |-> 0]
        /\ current_room = [w \in Workers |-> NullPtr]
        /\ visited = [w \in Workers |-> {}]
        /\ now = [w \in Workers |-> None]
        /\ hand = [w \in Workers |-> << >>]
        /\ user = [w \in Workers |-> "none"]
        /\ mqueue = [w \in Workers |-> << >>]
        /\ m_lock = None
        /\ m_rooms = [n \in RoomNames |-> NullPtr]
        /\ rooms = << >>
        /\ said = 0
        /\ heard = [w \in Workers |-> << >>]
        /\ joined = [w \in Workers |-> 0]

Goto(w, from, to) == /\ pc[w] = from
                     /\ pc' = [pc EXCEPT ![w] = to]

(***************************************************************************)
(* The clients, which owe the server nothing.                              *)
(***************************************************************************)
Becomes(w, from, to) == /\ peer[w] \in from
                        /\ peer' = [peer EXCEPT ![w] = to]

Client(w) == /\ \/ "stalled" \in Moods[w] /\ Becomes(w, {"up"}, "stalled")
                \/ Becomes(w, {"stalled"}, "up")
                \/ "eof" \in Moods[w] /\ Becomes(w, {"up", "stalled"}, "eof")
                \/ "reset" \in Moods[w] /\ Becomes(w, {"up", "stalled", "eof"}, "reset")
             /\ UNCHANGED <<owed, pc, thread, server, rooms, mail, said, history>>

(***************************************************************************)
(* Connection::receive and Connection::send.                               *)
(***************************************************************************)
\* A line arrives at a worker that waits for one.
Received(w) == /\ peer[w] \in {"up", "stalled"}
               /\ owed' = [owed EXCEPT ![w] = @ + 1]

\* A send ends in SUCCESS or in EOF_OR_ERROR; while the client does not read
\* it does not end.
SendSucceeds(w) == peer[w] \in {"up", "eof"}
SendFails(w) == peer[w] = "reset"

\* Where the worker goes on after a reply, by the result of the send.
Reply(w, from, next, failed) ==
  /\ \/ /\ SendSucceeds(w)
        /\ Goto(w, from, next)
        /\ owed' = [owed EXCEPT ![w] = @ - 1]
     \/ /\ SendFails(w)
        /\ Goto(w, from, failed)
        /\ UNCHANGED owed
  /\ UNCHANGED <<peer, thread, server, rooms, mail, said, history>>

(***************************************************************************)
(* handle_client_requests starts a worker; the worker creates its User.    *)
(***************************************************************************)
Accept(w) ==
  /\ Goto(w, "unborn", "login")
  /\ user' = [user EXCEPT ![w] = "live"]
  /\ peer' = [peer EXCEPT ![w] = "up"]
  /\ UNCHANGED <<owed, thread, server, rooms, mqueue, said, history>>

(***************************************************************************)
(* worker: the login.                                                      *)
(***************************************************************************)
LoginVerdict(body) == IF body = "good" THEN "l_ok" ELSE "l_reject"

Login(w) ==
  /\ pc[w] = "login"
  /\ Received(w)
  /\ \E mes \in Logins[w] :
       /\ login_mes' = [login_mes EXCEPT ![w] = mes]
       /\ pc' = [pc EXCEPT ![w] = IF mes.tag = "unknown" THEN "l_invalid"
                                  ELSE LoginVerdict(mes.body)]
  /\ UNCHANGED <<peer, arg, text, current_room, visited, now, hand, server, rooms,
                 mail, said, history>>

\* After the reply to a login the worker goes on in chat_with_sender or in
\* chat_with_receiver, or rejects a message that was no login.
AfterLogin == [slogin |-> "s_recv", rlogin |-> "r_join",
               other |-> "l_reject", unknown |-> "l_reject"]

LoginReply(w) ==
  \/ Reply(w, "l_invalid", LoginVerdict(login_mes[w].body), "cleanup")
  \/ Reply(w, "l_reject", "cleanup", "cleanup")
  \/ Reply(w, "l_ok", AfterLogin[login_mes[w].tag], "cleanup")

(***************************************************************************)
(* find_or_create_room.                                                    *)
(***************************************************************************)
ServerLockIgnored(w) ==
  /\ Goto(w, "f_lock", "f_find")
  /\ m_lock' = w
  /\ UNCHANGED <<peer, owed, thread, m_rooms, rooms, mail, said, history>>

ServerLock(w) ==
  /\ Goto(w, "f_lock", "f_find")
  /\ m_lock = None
  /\ m_lock' = w
  /\ UNCHANGED <<peer, owed, thread, m_rooms, rooms, mail, said, history>>

\* The Guard goes out of scope: the lock is released and the worker has the
\* Room of the map.
FindReturns(w, from, room) ==
  /\ Goto(w, from, IF login_mes[w].tag = "slogin" THEN "s_ok" ELSE "r_add")
  /\ current_room' = [current_room EXCEPT ![w] = room]
  /\ arg' = [arg EXCEPT ![w] = None]
  /\ m_lock' = None

FindRoom(w) ==
  /\ pc[w] = "f_find"
  /\ \/ /\ m_rooms[arg[w]] # NullPtr
        /\ FindReturns(w, "f_find", m_rooms[arg[w]])
     \/ /\ m_rooms[arg[w]] = NullPtr
        /\ Goto(w, "f_find", "f_create")
        /\ UNCHANGED <<current_room, arg, m_lock>>
  /\ UNCHANGED <<peer, owed, login_mes, text, visited, now, hand, m_rooms, rooms,
                 mail, said, history>>

CreateRoom(w) ==
  /\ pc[w] = "f_create"
  /\ rooms' = Append(rooms, NewRoom(arg[w]))
  /\ m_rooms' = [m_rooms EXCEPT ![arg[w]] = Len(rooms) + 1]
  /\ FindReturns(w, "f_create", m_rooms'[arg[w]])
  /\ UNCHANGED <<peer, owed, login_mes, text, visited, now, hand, mail, said, history>>

(***************************************************************************)
(* chat_with_sender: one request, up to the point where its reply is sent. *)
(***************************************************************************)
Request(w, reply) ==
  /\ Goto(w, "s_recv", reply)
  /\ Received(w)
  /\ UNCHANGED <<peer, login_mes, visited, now, hand, server, rooms, mail, history>>

BadRequestUnanswered(w) == /\ Request(w, "s_recv")
                           /\ UNCHANGED <<arg, text, current_room, said>>

\* An unknown tag, a tag a sender may not use, or an unterminated text.
BadRequest(w) == /\ Request(w, "s_err")
                 /\ UNCHANGED <<arg, text, current_room, said>>

Join(w) == /\ Request(w, "f_lock")
           /\ \E name \in RoomNames : arg' = [arg EXCEPT ![w] = name]
           /\ UNCHANGED <<text, current_room, said>>

Leave(w) == /\ Request(w, IF current_room[w] = NullPtr THEN "s_err" ELSE "s_ok")
            /\ current_room' = [current_room EXCEPT ![w] = NullPtr]
            /\ UNCHANGED <<arg, text, said>>

SendAllNoText(w) == /\ said < MaxBroadcasts
                    /\ said' = said + 1
                    /\ Request(w, IF current_room[w] = NullPtr THEN "s_err" ELSE "b_lock")
                    /\ UNCHANGED <<arg, text, current_room>>

SendAllAnywhere(w) == /\ said < MaxBroadcasts
                      /\ said' = said + 1
                      /\ Request(w, "b_lock")
                      /\ text' = [text EXCEPT ![w] = said + 1]
                      /\ UNCHANGED <<arg, current_room>>

SendAll(w) == /\ said < MaxBroadcasts
              /\ said' = said + 1
              /\ Request(w, IF current_room[w] = NullPtr THEN "s_err" ELSE "b_lock")
              /\ text' = [text EXCEPT ![w] = said + 1]
              /\ UNCHANGED <<arg, current_room>>

Quit(w) == /\ Request(w, "s_quit")
           /\ UNCHANGED <<arg, text, current_room, said>>

SenderRequest(w) == BadRequest(w) \/ Join(w) \/ Leave(w) \/ SendAll(w) \/ Quit(w)

SenderReply(w) == \/ Reply(w, "s_ok", "s_recv", "cleanup")
                  \/ Reply(w, "s_err", "s_recv", "cleanup")
                  \/ Reply(w, "s_quit", "cleanup", "cleanup")

(***************************************************************************)
(* broadcast_message holds the room's lock while it goes through members   *)
(* in the order of their addresses, which is any order.                    *)
(***************************************************************************)
BroadcastUnlocked(w) ==
  LET r == current_room[w] IN
  /\ Goto(w, "b_lock", "b_loop")
  /\ rooms' = [rooms EXCEPT ![r].log = Append(@, text[w])]
  /\ UNCHANGED <<peer, owed, thread, server, mail, said, history>>

BroadcastLock(w) ==
  LET r == current_room[w] IN
  /\ Goto(w, "b_lock", "b_loop")
  /\ rooms[r].lock = None
  /\ rooms' = [rooms EXCEPT ![r].lock = w, ![r].log = Append(@, text[w])]
  /\ UNCHANGED <<peer, owed, thread, server, mail, said, history>>

BroadcastNext(w) ==
  /\ Goto(w, "b_loop", "b_enqueue")
  /\ \E u \in rooms[current_room[w]].members \ visited[w] :
       now' = [now EXCEPT ![w] = u]
  /\ UNCHANGED <<peer, owed, login_mes, arg, text, current_room, visited, hand, server,
                 rooms, mail, said, history>>

BroadcastEnqueue(w) ==
  /\ Goto(w, "b_enqueue", "b_loop")
  /\ mqueue' = [mqueue EXCEPT ![now[w]] = Append(@, text[w])]
  /\ visited' = [visited EXCEPT ![w] = @ \cup {now[w]}]
  /\ now' = [now EXCEPT ![w] = None]
  /\ UNCHANGED <<peer, owed, login_mes, arg, text, current_room, hand, server, rooms,
                 user, said, history>>

BroadcastKeepsLock(w) ==
  /\ Goto(w, "b_loop", "s_ok")
  /\ rooms[current_room[w]].members \subseteq visited[w]
  /\ visited' = [visited EXCEPT ![w] = {}]
  /\ text' = [text EXCEPT ![w] = 0]
  /\ UNCHANGED <<peer, owed, login_mes, arg, current_room, now, hand, server, rooms,
                 mail, said, history>>

BroadcastReturn(w) ==
  LET r == current_room[w] IN
  /\ Goto(w, "b_loop", "s_ok")
  /\ rooms[r].members \subseteq visited[w]
  /\ rooms' = [rooms EXCEPT ![r].lock = None]
  /\ visited' = [visited EXCEPT ![w] = {}]
  /\ text' = [text EXCEPT ![w] = 0]
  /\ UNCHANGED <<peer, owed, login_mes, arg, current_room, now, hand, server, mail,
                 said, history>>

(***************************************************************************)
(* chat_with_receiver.                                                     *)
(***************************************************************************)
JoinRequest(w) ==
  /\ Received(w)
  /\ \/ \E name \in RoomNames : /\ Goto(w, "r_join", "f_lock")
                               /\ arg' = [arg EXCEPT ![w] = name]
     \/ /\ Goto(w, "r_join", "r_reject")     \* invalid, no join, unterminated
        /\ UNCHANGED arg
  /\ UNCHANGED <<peer, login_mes, text, current_room, visited, now, hand, server, rooms,
                 mail, said, history>>

AddMemberUnlocked(w) ==
  LET r == current_room[w] IN
  /\ Goto(w, "r_add", "r_ok")
  /\ rooms' = [rooms EXCEPT ![r].members = @ \cup {w}]
  /\ joined' = [joined EXCEPT ![w] = Len(rooms[r].log)]
  /\ UNCHANGED <<peer, owed, thread, server, mail, said, heard>>

AddMember(w) ==
  LET r == current_room[w] IN
  /\ Goto(w, "r_add", "r_ok")
  /\ rooms[r].lock = None
  /\ rooms' = [rooms EXCEPT ![r].members = @ \cup {w}]
  /\ joined' = [joined EXCEPT ![w] = Len(rooms[r].log)]
  /\ UNCHANGED <<peer, owed, thread, server, mail, said, heard>>

ReceiverReplyLeavesMember(w) == \/ Reply(w, "r_reject", "cleanup", "cleanup")
                                \/ Reply(w, "r_ok", "r_deq", "cleanup")

ReceiverReply(w) == \/ Reply(w, "r_reject", "cleanup", "cleanup")
                    \/ Reply(w, "r_ok", "r_deq", "r_remove")

DequeueAllButOne(w) ==
  /\ Goto(w, "r_deq", "r_send")
  /\ Len(mqueue[w]) > 1
  /\ hand' = [hand EXCEPT ![w] = <<Head(mqueue[w])>>]
  /\ mqueue' = [mqueue EXCEPT ![w] = Tail(@)]
  /\ UNCHANGED <<peer, owed, login_mes, arg, text, current_room, visited, now, server,
                 rooms, user, said, history>>

Dequeue(w) ==
  /\ Goto(w, "r_deq", "r_send")
  /\ mqueue[w] # << >>
  /\ hand' = [hand EXCEPT ![w] = <<Head(mqueue[w])>>]
  /\ mqueue' = [mqueue EXCEPT ![w] = Tail(@)]
  /\ UNCHANGED <<peer, owed, login_mes, arg, text, current_room, visited, now, server,
                 rooms, user, said, history>>

\* dequeue returns nullptr after a second.  The client is not looked at, so a
\* receiver that went away is found out only when there is something to send.
DequeueNothing(w) ==
  /\ pc[w] = "r_deq"
  /\ mqueue[w] = << >>
  /\ UNCHANGED vars

DeliverUnchecked(w) ==
  /\ Goto(w, "r_send", "r_deq")
  /\ \/ SendSucceeds(w) /\ heard' = [heard EXCEPT ![w] = @ \o hand[w]]
     \/ SendFails(w) /\ UNCHANGED heard
  /\ hand' = [hand EXCEPT ![w] = << >>]
  /\ UNCHANGED <<peer, owed, login_mes, arg, text, current_room, visited, now, server,
                 rooms, mail, said, joined>>

Deliver(w) ==
  /\ \/ /\ SendSucceeds(w)
        /\ Goto(w, "r_send", "r_deq")
        /\ heard' = [heard EXCEPT ![w] = @ \o hand[w]]
     \/ /\ SendFails(w)
        /\ Goto(w, "r_send", "r_remove")
        /\ UNCHANGED heard
  /\ hand' = [hand EXCEPT ![w] = << >>]
  /\ UNCHANGED <<peer, owed, login_mes, arg, text, current_room, visited, now, server,
                 rooms, mail, said, joined>>

RemoveMember(w) ==
  LET r == current_room[w] IN
  /\ Goto(w, "r_remove", "cleanup")
  /\ rooms[r].lock = None
  /\ rooms' = [rooms EXCEPT ![r].members = @ \ {w}]
  /\ UNCHANGED <<peer, owed, thread, server, mail, said, history>>

(***************************************************************************)
(* The end of a worker: receive finds the end of the input or an error     *)
(* (chat_with_receiver still tries to reply), and the User is deleted with *)
(* the messages in its mailbox.  The thread's locals are gone with it; its *)
(* Connection is not deleted, and nobody looks at it again.                *)
(***************************************************************************)
ReceiveEof(w) ==
  /\ peer[w] \in {"eof", "reset"}
  /\ \/ Goto(w, "login", "cleanup")
     \/ Goto(w, "s_recv", "cleanup")
     \/ Goto(w, "r_join", "r_reject")
  /\ UNCHANGED <<peer, owed, thread, server, rooms, mail, said, history>>

Cleanup(w) ==
  /\ Goto(w, "cleanup", "done")
  /\ user' = [user EXCEPT ![w] = "deleted"]
  /\ mqueue' = [mqueue EXCEPT ![w] = << >>]
  /\ peer' = [peer EXCEPT ![w] = "unattended"]
  /\ owed' = [owed EXCEPT ![w] = 0]
  /\ login_mes' = [login_mes EXCEPT ![w] = NoLogin]
  /\ current_room' = [current_room EXCEPT ![w] = NullPtr]
  /\ text' = [text EXCEPT ![w] = 0]
  /\ UNCHANGED <<arg, visited, now, hand, server, rooms, said, history>>

\* handle_client_requests waits for connections that do not come.
Waiting == {"unborn", "login", "s_recv", "r_join", "r_deq", "done"}
Quiet == /\ \A w \in Workers : pc[w] \in Waiting
         /\ UNCHANGED vars

Reads(w) == Login(w) \/ SenderRequest(w) \/ JoinRequest(w)

Locks(w) == ServerLock(w) \/ AddMember(w) \/ BroadcastLock(w) \/ RemoveMember(w)

Runs(w) == \/ ReceiveEof(w)
           \/ LoginReply(w) \/ SenderReply(w) \/ ReceiverReply(w)
           \/ FindRoom(w) \/ CreateRoom(w)
           \/ BroadcastNext(w) \/ BroadcastEnqueue(w) \/ BroadcastReturn(w)
           \/ Dequeue(w) \/ DequeueNothing(w) \/ Deliver(w)
           \/ Cleanup(w)

Next == \/ \E w \in Workers : Client(w) \/ Accept(w) \/ Reads(w) \/ Locks(w) \/ Runs(w)
        \/ Quiet

Spec == Init /\ [][Next]_vars

(***************************************************************************)
(* Every worker that can run does run, and a worker that waits for a mutex *)
(* that is released again and again gets it in the end.  Nothing is        *)
(* assumed of the clients.                                                 *)
(***************************************************************************)
Fairness == \A w \in Workers : WF_vars(Runs(w)) /\ SF_vars(Locks(w))

FairSpec == Spec /\ Fairness
-----------------------------------------------------------------------------
(***************************************************************************)
(* Properties                                                              *)
(***************************************************************************)
Finding == {"f_lock", "f_find", "f_create"}
Broadcasting == {"b_loop", "b_enqueue"}
Listening == {"r_ok", "r_deq", "r_send"}       \* in the room, and not leaving
InRoom == Broadcasting \cup Listening \cup {"b_lock", "r_add", "r_remove"}
BlockedOnClient == {"login", "l_invalid", "l_ok", "l_reject",
                    "s_recv", "s_ok", "s_err", "s_quit",
                    "r_join", "r_reject", "r_ok", "r_deq", "r_send"}
Points == Finding \cup Broadcasting \cup BlockedOnClient
            \cup {"unborn", "b_lock", "r_add", "r_remove", "cleanup", "done"}

RoomType == [name : RoomNames, lock : Workers \cup {None},
             members : SUBSET Workers, log : Seq(1 .. MaxBroadcasts)]

\* Every variable keeps its type, and every Room* is null or a Room.
TypeOK ==
  /\ peer \in [Workers -> {"unattended", "up", "stalled", "eof", "reset"}]
  /\ owed \in [Workers -> Int]
  /\ pc \in [Workers -> Points]
  /\ login_mes \in [Workers -> LoginMessage]
  /\ arg \in [Workers -> RoomNames \cup {None}]
  /\ text \in [Workers -> 0 .. MaxBroadcasts]
  /\ current_room \in [Workers -> 0 .. Len(rooms)]
  /\ visited \in [Workers -> SUBSET Workers]
  /\ now \in [Workers -> Workers \cup {None}]
  /\ hand \in [Workers -> Seq(1 .. MaxBroadcasts)]
  /\ user \in [Workers -> {"none", "live", "deleted"}]
  /\ mqueue \in [Workers -> Seq(1 .. MaxBroadcasts)]
  /\ m_lock \in Workers \cup {None}
  /\ m_rooms \in [RoomNames -> 0 .. Len(rooms)]
  /\ rooms \in Seq(RoomType)
  /\ said \in 0 .. MaxBroadcasts
  /\ heard \in [Workers -> Seq(1 .. MaxBroadcasts)]
  /\ joined \in [Workers -> Nat]

\* Where the code follows a pointer or uses an argument without a check, it
\* is there, although the Room was found, and the text received, many steps
\* and interleavings before.
NoNullDereference ==
  \A w \in Workers :
    /\ pc[w] \in Finding => arg[w] \in RoomNames
    /\ pc[w] \in InRoom => current_room[w] # NullPtr
    /\ pc[w] \in Broadcasting \cup {"b_lock"} => text[w] # 0
    /\ pc[w] = "b_enqueue" => now[w] \in Workers

\* The map has one Room per name and every Room is in it, however the calls
\* of find_or_create_room overlap ("return a pointer to the unique Room
\* object representing the named chat room", server.cpp).
UniqueRoom == \A r \in RoomId : m_rooms[rooms[r].name] = r

\* A User is deleted only after it has left its room and no broadcast is in
\* the middle of its mailbox, whichever way its worker ends.
NoUseAfterFree ==
  /\ \A r \in RoomId : \A u \in rooms[r].members : user[u] = "live"
  /\ \A w \in Workers : now[w] # None => user[now[w]] = "live"

\* No worker holds a mutex while it waits for its own client, so that a
\* client that stops reading or writing holds up nobody else.
NoLockWhileBlocked ==
  \A w \in Workers : pc[w] \in BlockedOnClient =>
                     /\ m_lock # w
                     /\ \A r \in RoomId : rooms[r].lock # w

\* When a worker waits for a request or for a message to deliver, it has sent
\* exactly one reply to each request before, whatever the requests were.
AnswersMatchRequests ==
  \A w \in Workers : pc[w] \in {"login", "s_recv", "r_join", "r_deq"} => owed[w] = 0

\* The message of a broadcast that has not yet come to u.
Pending(u) ==
  LET saying == {w \in Workers : /\ pc[w] \in Broadcasting
                                 /\ current_room[w] = current_room[u]
                                 /\ u \notin visited[w]}
  IN IF saying = {} THEN << >> ELSE <<text[CHOOSE w \in saying : TRUE]>>

Inbox(u) == hand[u] \o mqueue[u] \o Pending(u)

\* A receiver in a room has been sent, or has waiting for it, exactly what was
\* broadcast in the room since add_member, in the order in which the
\* broadcasts took the room's lock: two senders are never heard in different
\* orders by two receivers, and no message is missed or repeated.
HeardInOrder ==
  \A u \in Workers : pc[u] \in Listening =>
    LET log == rooms[current_room[u]].log
    IN heard[u] \o Inbox(u) = SubSeq(log, joined[u] + 1, Len(log))

(***************************************************************************)
(* The server implements ChatRooms.  A broadcast happens when it takes the *)
(* room's lock; a receiver leaves when a send to its client has failed.    *)
(***************************************************************************)
Members(name) == IF m_rooms[name] = NullPtr THEN {}
                 ELSE {u \in rooms[m_rooms[name]].members : pc[u] \in Listening}

Chat == INSTANCE ChatRooms WITH
          Receiver <- Workers,
          Room     <- RoomNames,
          Message  <- 1 .. MaxBroadcasts,
          members  <- [name \in RoomNames |-> Members(name)],
          inbox    <- [u \in Workers |-> IF pc[u] \in Listening THEN Inbox(u) ELSE << >>]

\* Joining, leaving and broadcasting are indivisible for the people in the
\* rooms, though broadcast_message goes from mailbox to mailbox.
ImplementsChatRooms == Chat!Spec

\* Every request is answered, or its worker ends, whatever the other clients
\* do; only a client that does not read its own replies waits for ever.
RequestsAnswered ==
  \A w \in Workers : owed[w] > 0 ~> (owed[w] = 0 \/ peer[w] = "stalled")

\* A message in a mailbox is sent to its client, unless the user is deleted
\* or the client stops reading.
QueuedIsHeard ==
  \A u \in Workers, m \in 1 .. MaxBroadcasts :
    (\E i \in DOMAIN mqueue[u] : mqueue[u][i] = m)
      ~> (\/ \E i \in DOMAIN heard[u] : heard[u][i] = m
          \/ user[u] = "deleted"
          \/ peer[u] = "stalled")

\* The worker of a client that is gone ends and deletes its User, with one
\* exception: a receiver with an empty mailbox.
DepartureNoticed ==
  \A w \in Workers :
    (peer[w] = "reset" /\ ~ (pc[w] = "r_deq" /\ mqueue[w] = << >>))
      ~> user[w] = "deleted"
=============================================================================
