------------------------------- MODULE Clients -------------------------------
(***************************************************************************)
(* csf_assign05, all its programs together: server_main, any number of     *)
(* senders (sender.cpp) and receivers (receiver.cpp), the connections      *)
(* between them, and the descriptors of the server.  A worker of the       *)
(* server handles a request in one step here, and a broadcast reaches the  *)
(* mailboxes at once: ChatServer has the steps in between, and shows that  *)
(* they amount to this (ChatServer!ImplementsChatRooms).  All those who    *)
(* talk are in one room.                                                   *)
(*                                                                         *)
(* What is kept of a line are its tag and its length, because receive cuts *)
(* a line that is too long into pieces, and each piece is taken for a      *)
(* message (module Connection).  A tag and its colon count as one byte; no *)
(* name contains a newline, and no text ends in white space.               *)
(* A definition whose name tells of a fault is the one after it with a     *)
(* mistake, and is not part of Spec.                                       *)
(***************************************************************************)
EXTENDS Naturals, Sequences

CONSTANTS Senders, Receivers,
          Texts,       \* the lengths of what users say
          MAX_LEN,     \* Message::MAX_LEN
          ROOM,        \* the length of "delivery:room"
          DELIVERY,    \* for each sender, the length of "delivery:room:user:"
          MaxFds,      \* how many connections the server has descriptors for
          RoomKinds,   \* what the arguments of receivers are like (see room_name)
          MaxLines     \* bound: how many lines a user types to a live server

Clients == Senders \cup Receivers

ASSUME ClientsAssumption == /\ Senders \cap Receivers = {}
                            /\ Texts \subseteq Nat /\ MaxLines \in Nat
                            /\ MAX_LEN \in Nat /\ MAX_LEN > 2
                            /\ ROOM \in Nat \ {0} /\ DELIVERY \in [Senders -> Nat]
                            /\ \A p \in Senders : ROOM + 2 <= DELIVERY[p]
                            /\ RoomKinds \subseteq {"plain", "colon", "tab"}
                            /\ MaxFds \in Nat

VARIABLES
  server,      \* "starting", "serving", "ended"
  used,        \* how many descriptors of connections it has open
  client,      \* where the program is; over: "exited", "failed", "killed"
  room_name,   \* a receiver's argument: "plain", or it has a "colon" or ends in a "tab"
  stdin,       \* a sender's standard input: "open", "ended"
  \* The connection as the client sees it: "none", "up", "eof" (the server is
  \* gone), "doomed" (it has written since; the answer to that is on its way),
  \* "reset" (broken, which it does not know yet), "broken".
  conn,
  up, down,    \* the pieces under way to and from the server
  worker,      \* the server's thread for the client
  current_room,\* a sender's worker: it has joined the room
  mqueue,      \* the mailbox of a receiver: which of what has been said
  printed,     \* the pieces that a receiver has printed
  said,        \* history: the deliveries that have been broadcast
  joined,      \* history: Len(said) when a receiver joined
  lines,       \* history: how many lines a sender has sent
  surplus      \* history: how many pieces beyond one a line those were

history == <<printed, said, joined, lines, surplus>>
vars == <<server, used, client, stdin, room_name, conn, up, down, worker,
          current_room, mqueue, history>>

Init == /\ server = "starting" /\ used = 0 /\ said = << >>
        /\ client = [p \in Clients |-> "start"]
        /\ room_name \in [Receivers -> RoomKinds]
        /\ stdin = [p \in Senders |-> "open"]
        /\ conn = [p \in Clients |-> "none"]
        /\ up = [p \in Clients |-> << >>] /\ down = [p \in Clients |-> << >>]
        /\ worker = [p \in Clients |-> "none"]
        /\ current_room = [p \in Senders |-> FALSE]
        /\ mqueue = [p \in Receivers |-> << >>] /\ printed = [p \in Receivers |-> << >>]
        /\ joined = [p \in Receivers |-> 0]
        /\ lines = [p \in Senders |-> 0] /\ surplus = [p \in Senders |-> 0]

(***************************************************************************)
(* Messages.                                                               *)
(***************************************************************************)
Piece(tag, size, whole, at, number) ==
  [tag |-> tag, size |-> size, whole |-> whole, at |-> at, said |-> number]

\* receive takes up to MAX_LEN - 1 bytes of a line at a time: how many times,
\* and how much the k-th time.
Count(length) == (length + MAX_LEN - 2) \div (MAX_LEN - 1)
Size(length, k) == IF k < Count(length) THEN MAX_LEN - 1
                   ELSE length - (k - 1) * (MAX_LEN - 1)

PiecesTooLong(tag, length, tails, number) ==
  [k \in 1 .. (length + MAX_LEN - 1) \div MAX_LEN |->
    Piece(IF k = 1 THEN tag ELSE tails[k], Size(length, k), k * MAX_LEN >= length, k, number)]

\* What receive makes of a line: only the first piece begins with the tag of the
\* line, and only the last one has the newline.  The others begin with what
\* happens to stand there, the `tails', which may look like a tag.
Pieces(tag, length, tails, number) ==
  [k \in 1 .. Count(length) |->
    Piece(IF k = 1 THEN tag ELSE tails[k], Size(length, k), k = Count(length), k, number)]

Short(tag) == Pieces(tag, 2, << >>, 0)
EmptyText == Pieces("sendall", 2, << >>, 0)

\* Of a line of a sender, the k-th piece can begin with a tag unless it is the
\* newline alone; "other" is a tag that the server does not know.
Requests == {"join", "leave", "quit", "sendall", "other"}
RequestTails(length) ==
  {tails \in [2 .. Count(length) -> Requests] :
     \A k \in DOMAIN tails : k = Count(length) /\ Size(length, k) = 1 => tails[k] = "other"}

\* Of a delivery, the k-th piece is user text or a piece of a name.  It can read as
\* a delivery for the room, "delivery", or for what a receiver calls the room whose
\* name ends in a tab, if it is long enough: the last one has a colon after the name.
DeliveryTails(length) ==
  {tails \in [2 .. Count(length) -> {"delivery", "delivery_tab", "other"}] :
     \A k \in DOMAIN tails :
       tails[k] # "other" => Size(length, k) >= ROOM + (IF tails[k] = "delivery" THEN 0 ELSE 1)
                                                    + (IF k = Count(length) THEN 2 ELSE 0)}

\* The lines a user of the sender can send: "/" and no command gives a message
\* without a tag; a command may be followed by more, and be too long.
TooLong == {n + 2 : n \in {m \in Texts : m + 2 >= MAX_LEN}}
Ways(tag, length) == {Pieces(tag, length, tails, 0) : tails \in RequestTails(length)}
Lines == {Short(tag) : tag \in {"join", "leave", "quit", "other"}}
           \cup UNION ({Ways("sendall", n + 2) : n \in Texts}
                         \cup {Ways("join", length) : length \in TooLong})

Over == {"exited", "failed", "killed"}

(***************************************************************************)
(* What Connection::send and receive come to for a client.                 *)
(***************************************************************************)
SigPipeIgnored(p, failed) == client' = [client EXCEPT ![p] = failed]

\* Only server_main ignores the signal; it ends a client.
SigPipe(p, failed) == client' = [client EXCEPT ![p] = "killed"]

\* The program goes on at `next', or at `failed' if send returns false; a write to
\* a connection that is known to be broken raises SIGPIPE.
Send(p, pieces, next, failed) ==
  \/ /\ conn[p] = "up"
     /\ up' = [up EXCEPT ![p] = @ \o pieces]
     /\ client' = [client EXCEPT ![p] = next]
     /\ UNCHANGED conn
  \/ /\ conn[p] \in {"eof", "doomed"}
     /\ conn' = [conn EXCEPT ![p] = "doomed"]
     /\ client' = [client EXCEPT ![p] = next]
     /\ UNCHANGED up
  \/ /\ conn[p] = "reset"
     /\ conn' = [conn EXCEPT ![p] = "broken"]
     /\ client' = [client EXCEPT ![p] = failed]
     /\ UNCHANGED up
  \/ /\ conn[p] = "broken"
     /\ SigPipe(p, failed)
     /\ UNCHANGED <<conn, up>>

ReceiveGives(p) == /\ down[p] # << >>
                   /\ down' = [down EXCEPT ![p] = Tail(@)]
                   /\ UNCHANGED conn

ReceiveFails(p) == /\ down[p] = << >> /\ conn[p] \in {"eof", "doomed", "reset", "broken"}
                   /\ conn' = [conn EXCEPT ![p] = IF @ = "reset" THEN "broken" ELSE @]
                   /\ UNCHANGED down

\* What a write to a connection that is gone brings back.
Answer(p) == /\ conn[p] = "doomed"
             /\ conn' = [conn EXCEPT ![p] = "broken"]
             /\ UNCHANGED <<server, used, client, stdin, room_name, up, down, worker,
                            current_room, mqueue, history>>

elsewhere == <<server, used, room_name, worker, current_room, mqueue, said, joined>>

\* The user ends the program, or a signal does.  If there is something it has not
\* read, this resets the connection, and what it sent last may be lost.
Interrupted(p) ==
  /\ client[p] \notin Over \cup {"start"}
  /\ client' = [client EXCEPT ![p] = "killed"]
  /\ down' = [down EXCEPT ![p] = << >>]
  /\ \/ UNCHANGED up
     \/ down[p] # << >> /\ up' = [up EXCEPT ![p] = << >>]
  /\ UNCHANGED <<conn, stdin, elsewhere, printed, lines, surplus>>

(***************************************************************************)
(* Both clients: connect and log in.                                       *)
(***************************************************************************)
\* One of the addresses of the host accepts a connection.
open_clientfd == server = "serving"

Connect(p) ==
  /\ client[p] = "start"
  /\ \/ /\ open_clientfd
        /\ conn' = [conn EXCEPT ![p] = "up"]
        /\ client' = [client EXCEPT ![p] = "connected"]
     \/ /\ ~ open_clientfd
        /\ client' = [client EXCEPT ![p] = "failed"]
        /\ UNCHANGED conn
  /\ UNCHANGED <<up, down, stdin, elsewhere, printed, lines, surplus>>

SendLogin(p) ==
  /\ client[p] = "connected"
  /\ Send(p, Short(IF p \in Senders THEN "slogin" ELSE "rlogin"), "login",
          IF p \in Senders THEN "failed" ELSE "login")
  /\ UNCHANGED <<down, stdin, elsewhere, printed, lines, surplus>>

\* Only an ok leads on; a receiver does not look at the result of receive but
\* at the tag, which is "empty" after a failure.
LoggedIn(p) ==
  /\ client[p] \in {"login", "join"}
  /\ \/ /\ ReceiveGives(p)
        /\ client' = [client EXCEPT ![p] = IF Head(down[p]).tag # "ok" THEN "failed"
                                           ELSE IF p \in Senders THEN "input"
                                           ELSE IF @ = "login" THEN "admitted"
                                           ELSE "listen"]
     \/ ReceiveFails(p) /\ client' = [client EXCEPT ![p] = "failed"]
  /\ UNCHANGED <<up, stdin, elsewhere, printed, lines, surplus>>

SendJoin(p) == /\ client[p] = "admitted"
               /\ Send(p, Short("join"), "join", "join")
               /\ UNCHANGED <<down, stdin, elsewhere, printed, lines, surplus>>

(***************************************************************************)
(* send_helper: the results of send and receive, and what is received, are *)
(* ignored, except after a quit.                                           *)
(***************************************************************************)
\* At the end of the input there may be one line more.
LinesLeft(p) == lines[p] < MaxLines + (IF stdin[p] = "ended" THEN 1 ELSE 0)

SendLine(p, pieces) ==
  LET then == IF pieces = Short("quit") THEN "quit" ELSE "reply" IN
  /\ client[p] = "input"
  /\ Send(p, pieces, then, then)
  /\ IF conn[p] = "up"
     THEN /\ LinesLeft(p)
          /\ lines' = [lines EXCEPT ![p] = @ + 1]
          /\ surplus' = [surplus EXCEPT ![p] = @ + Len(pieces) - 1]
     ELSE UNCHANGED <<lines, surplus>>
  /\ UNCHANGED <<down, stdin, elsewhere, printed>>

UserTypes(p) == /\ stdin[p] = "open"
                /\ \E pieces \in Lines : SendLine(p, pieces)

\* getline fails, the string is empty, and an empty text is sent.
InputHasEnded(p) == stdin[p] = "ended" /\ SendLine(p, EmptyText)

InputEnds(p) == /\ client[p] = "input" /\ stdin[p] = "open"
                /\ stdin' = [stdin EXCEPT ![p] = "ended"]
                /\ UNCHANGED <<client, conn, up, down, elsewhere, printed, lines, surplus>>

GetReply(p) ==
  /\ client[p] \in {"reply", "quit"}
  /\ \/ /\ ReceiveGives(p)
        /\ client' = [client EXCEPT ![p] = IF @ = "quit" THEN "exited" ELSE "input"]
     \/ ReceiveFails(p) /\ client' = [client EXCEPT ![p] = "input"]
  /\ UNCHANGED <<up, stdin, elsewhere, printed, lines, surplus>>

(***************************************************************************)
(* The loop of the receiver: pieces that are no delivery, and failures,    *)
(* are passed over.                                                        *)
(***************************************************************************)
\* The room is the text up to the next colon, or all of it.  The first piece of a
\* delivery has the name of the room if there is space for it.
Shows(p, x) ==
  \/ room_name[p] = "plain" /\ x.tag = "delivery" /\ (x.at = 1 => ROOM < MAX_LEN)
  \/ room_name[p] = "tab" /\ x.tag = "delivery_tab"

ListenStops(p) ==
  /\ client[p] = "listen"
  /\ \/ /\ ReceiveGives(p)
        /\ printed' = IF Shows(p, Head(down[p]))
                      THEN [printed EXCEPT ![p] = Append(@, Head(down[p]))] ELSE printed
        /\ client' = IF Head(down[p]).tag # "other" THEN client
                     ELSE [client EXCEPT ![p] = "failed"]
     \/ ReceiveFails(p) /\ UNCHANGED <<printed, client>>
  /\ UNCHANGED <<up, stdin, elsewhere, lines, surplus>>

Listen(p) ==
  /\ client[p] = "listen"
  /\ \/ /\ ReceiveGives(p)
        /\ printed' = IF Shows(p, Head(down[p]))
                      THEN [printed EXCEPT ![p] = Append(@, Head(down[p]))] ELSE printed
     \/ ReceiveFails(p) /\ UNCHANGED printed
  /\ UNCHANGED <<client, up, stdin, elsewhere, lines, surplus>>

(***************************************************************************)
(* The server: main, and handle_client_requests.                           *)
(***************************************************************************)
local == <<client, stdin, room_name, history>>

\* No address, no socket or no port may be left.
open_listenfd == {"serving", "ended"}

Main == /\ server = "starting"
        /\ server' \in open_listenfd
        /\ UNCHANGED <<used, local, conn, up, down, worker, current_room, mqueue>>

\* A connection that nobody has accepted, or from which the server has not read
\* everything, is reset; the others see an end of file.
Exit ==
  /\ server' = "ended"
  /\ \E reset \in SUBSET {p \in Clients : conn[p] = "up" /\ up[p] # << >>} :
       LET lost(p) == conn[p] = "up" /\ (p \in reset \/ worker[p] = "none")
       IN /\ conn' = [p \in Clients |-> IF lost(p) THEN "reset"
                                        ELSE IF conn[p] = "up" THEN "eof" ELSE conn[p]]
          /\ down' = [p \in Clients |-> IF lost(p) THEN << >> ELSE down[p]]
  /\ up' = [p \in Clients |-> << >>]
  /\ UNCHANGED <<used, local, worker, current_room, mqueue>>

\* Somebody ends the server, or pthread_create fails.
ServerEnds == server = "serving" /\ Exit

Waiting(p) == server = "serving" /\ conn[p] = "up" /\ worker[p] = "none"

AcceptServed(p) == /\ Waiting(p) /\ used < MaxFds
                   /\ used' = used + 1
                   /\ worker' = [worker EXCEPT ![p] = "login"]
                   /\ UNCHANGED <<server, local, conn, up, down, current_room, mqueue>>

AcceptTriesAgain == /\ used = MaxFds /\ \E p \in Clients : Waiting(p)
                    /\ UNCHANGED vars

\* The wrapper of accept calls exit when there is no descriptor left.
AcceptFails == /\ used = MaxFds /\ \E p \in Clients : Waiting(p)
               /\ Exit

\* Other clients come and go, and leave their descriptors behind.
AcceptOther == /\ server = "serving" /\ used < MaxFds
               /\ used' = used + 1
               /\ UNCHANGED <<server, local, conn, up, down, worker, current_room, mqueue>>

Accept == AcceptFails \/ \E p \in Clients : AcceptServed(p)

(***************************************************************************)
(* A worker: one message, and the reply to it.  A worker that ends leaves  *)
(* its descriptor open.                                                    *)
(***************************************************************************)
\* What is written to a client that is gone may be accepted by the socket or not.
Write(p, pieces, next) ==
  \/ /\ client[p] \notin Over
     /\ down' = [down EXCEPT ![p] = @ \o pieces]
     /\ worker' = [worker EXCEPT ![p] = next]
  \/ /\ client[p] \in Over
     /\ \E w \in {next, "ended"} : worker' = [worker EXCEPT ![p] = w]
     /\ UNCHANGED down

Reply(p, tag, next) == Write(p, Short(tag), next)

unserved == <<server, used, client, stdin, room_name, conn, printed, lines, surplus>>

Takes(p, at, tags) == /\ server = "serving" /\ worker[p] = at
                      /\ up[p] # << >> /\ Head(up[p]).tag \in tags
                      /\ up' = [up EXCEPT ![p] = Tail(@)]

\* The name is good or not.
WorkerLogin(p) ==
  /\ Takes(p, "login", {"slogin", "rlogin"})
  /\ \/ Reply(p, "err", "ended")
     \/ Reply(p, "ok", IF p \in Senders THEN "sender" ELSE "join")
  /\ UNCHANGED <<unserved, current_room, mqueue, said, joined>>

\* The line is too long, or not.
WorkerJoin(p) ==
  /\ Takes(p, "join", {"join"})
  /\ \/ Reply(p, "err", "ended") /\ UNCHANGED joined
     \/ Reply(p, "ok", "receiver") /\ joined' = [joined EXCEPT ![p] = Len(said)]
  /\ UNCHANGED <<unserved, current_room, mqueue, said>>

Members == {p \in Receivers : worker[p] = "receiver"}
Broadcast(length) ==
  /\ \E tails \in DeliveryTails(length) :
       said' = Append(said, [length |-> length, tails |-> tails])
  /\ mqueue' = [p \in Receivers |-> IF p \in Members THEN Append(mqueue[p], Len(said) + 1)
                                    ELSE mqueue[p]]

InvalidIgnored(p) ==
  /\ Takes(p, "sender", {"other"})
  /\ UNCHANGED <<unserved, worker, down, current_room, mqueue, said, joined>>

\* Pieces without a known tag are answered, too.
Invalid(p) == /\ Takes(p, "sender", {"other"})
              /\ Reply(p, "err", "sender")
              /\ UNCHANGED <<unserved, current_room, mqueue, said, joined>>

Join(p) == /\ Takes(p, "sender", {"join"})
           /\ IF Head(up[p]).whole
              THEN Reply(p, "ok", "sender") /\ current_room' = [current_room EXCEPT ![p] = TRUE]
              ELSE Reply(p, "err", "sender") /\ UNCHANGED current_room
           /\ UNCHANGED <<unserved, mqueue, said, joined>>

Leave(p) == /\ Takes(p, "sender", {"leave"})
            /\ current_room' = [current_room EXCEPT ![p] = FALSE]
            /\ Reply(p, IF current_room[p] THEN "ok" ELSE "err", "sender")
            /\ UNCHANGED <<unserved, mqueue, said, joined>>

\* The text takes the place of what it has got from the sender but for the tag.
SendAll(p) ==
  /\ Takes(p, "sender", {"sendall"})
  /\ IF current_room[p] /\ Head(up[p]).whole
     THEN Broadcast(DELIVERY[p] + Head(up[p]).size - 1) /\ Reply(p, "ok", "sender")
     ELSE Reply(p, "err", "sender") /\ UNCHANGED <<said, mqueue>>
  /\ UNCHANGED <<unserved, current_room, joined>>

Quit(p) == /\ Takes(p, "sender", {"quit"})
           /\ Reply(p, "ok", "ended")
           /\ UNCHANGED <<unserved, current_room, mqueue, said, joined>>

Deliver(p) ==
  /\ server = "serving" /\ worker[p] = "receiver" /\ mqueue[p] # << >>
  /\ LET n == Head(mqueue[p])
     IN Write(p, Pieces("delivery", said[n].length, said[n].tails, n), "receiver")
  /\ mqueue' = [mqueue EXCEPT ![p] = IF worker'[p] = "ended" THEN << >> ELSE Tail(@)]
  /\ UNCHANGED <<unserved, up, current_room, said, joined>>

\* Whoever receives finds out that the client is gone; a worker that delivers
\* does not receive, and finds out by what it writes.
ClientGone(p) ==
  /\ server = "serving" /\ worker[p] \in {"login", "join", "sender"}
  /\ client[p] \in Over /\ up[p] = << >>
  /\ worker' = [worker EXCEPT ![p] = "ended"]
  /\ UNCHANGED <<unserved, up, down, current_room, mqueue, said, joined>>

-----------------------------------------------------------------------------
Login(p) == SendLogin(p) \/ LoggedIn(p)
SenderRuns(p) == Login(p) \/ InputHasEnded(p) \/ GetReply(p)
ReceiverRuns(p) == Login(p) \/ SendJoin(p) \/ Listen(p)

SenderServed(p) == \/ WorkerLogin(p) \/ ClientGone(p)
                   \/ Invalid(p) \/ Join(p) \/ Leave(p) \/ SendAll(p) \/ Quit(p)
ReceiverServed(p) == WorkerLogin(p) \/ ClientGone(p) \/ WorkerJoin(p) \/ Deliver(p)

Next == \/ Main \/ ServerEnds \/ AcceptOther \/ Accept
        \/ \E p \in Clients : Connect(p) \/ Answer(p) \/ Interrupted(p)
        \/ \E p \in Senders : UserTypes(p) \/ InputEnds(p) \/ SenderRuns(p) \/ SenderServed(p)
        \/ \E p \in Receivers : ReceiverRuns(p) \/ ReceiverServed(p)

Spec == Init /\ [][Next]_vars

\* The programs run and the network delivers; nobody need start a program, type
\* anything, or end the input, a program or the server.
Fairness == /\ WF_vars(Accept)
            /\ \A p \in Clients : WF_vars(Answer(p))
            /\ \A p \in Senders : WF_vars(SenderRuns(p)) /\ WF_vars(SenderServed(p))
            /\ \A p \in Receivers : WF_vars(ReceiverRuns(p)) /\ WF_vars(ReceiverServed(p))

FairSpec == Spec /\ Fairness
-----------------------------------------------------------------------------
(***************************************************************************)
(* Properties                                                              *)
(***************************************************************************)
Blocked == {"login", "join", "reply", "quit"}     \* in receive

\* A sender is as many replies behind as its lines have had surplus pieces,
\* since each piece is answered and each line waits for one reply: with no
\* line too long, the reply it reads is that to the line it has just sent.
RepliesLagBySurplus ==
  \A p \in Senders :
    conn[p] = "up" /\ worker[p] # "ended" /\ client[p] \notin Over =>
      Len(up[p]) + Len(down[p]) = surplus[p] + (IF client[p] \in Blocked THEN 1 ELSE 0)

\* A receiver prints the beginning of each delivery that has been broadcast since
\* it joined, in that order and leaving none out; it is printed whole exactly if
\* the delivery is shorter than MAX_LEN with all that the server puts before the
\* text.  What else it prints is the rest of a longer one, in its place, that reads
\* as a delivery itself.  A receiver prints nothing for a room with a colon, and for
\* one that ends in a tab, or whose name has no space in a message, such rests only.
PrintedInOrder ==
  \A p \in Receivers :
    /\ room_name[p] = "colon" => printed[p] = << >>
    /\ \A k \in DOMAIN printed[p] :
         LET x      == printed[p][k]
             before == IF k = 1 THEN joined[p] ELSE printed[p][k - 1].said
             cut    == said[x.said].length >= MAX_LEN
             named  == room_name[p] = "plain" /\ ROOM < MAX_LEN
         IN /\ x.said \in joined[p] + 1 .. Len(said)
            /\ IF x.at = 1 THEN named /\ x.said = before + 1 /\ (x.whole <=> ~ cut)
               ELSE cut /\ x.said >= before /\ (named => x.said = before)

\* Whatever is said comes out at every receiver that has joined, unless it is
\* killed or the server ends first, and whatever becomes of the sender.
SaidIsPrinted ==
  \A p \in Receivers, k \in 1 .. MaxLines :     \* one line is a join
    (worker[p] = "receiver" /\ room_name[p] = "plain" /\ ROOM < MAX_LEN
       /\ Len(said) - joined[p] >= k)
      ~> \/ \E i \in DOMAIN printed[p] : printed[p][i].at = 1 /\ printed[p][i].said = joined[p] + k
         \/ server = "ended" \/ client[p] = "killed"

\* A client that waits for a reply gets one, or an end of file.  The exception
\* is a sender of which a line was too long and the rest of it a quit: its worker
\* is gone, but the connection stays open.  A client that waits to be accepted
\* when all descriptors are used up is freed by the end of the server.
WaitsEnd ==
  \A p \in Clients :
    client[p] \in Blocked
      ~> \/ client[p] \notin Blocked
         \/ p \in Senders /\ surplus[p] > 0 /\ worker[p] = "ended"

\* When the server has ended, a sender at the end of its input floods nobody for
\* long, since SIGPIPE kills it: the only programs left in the end are senders
\* whose users may still type, and receivers in their loop.
OnlyListenersStay ==
  \A p \in Clients :
    server = "ended" /\ client[p] # "start"
      ~> \/ client[p] \in Over \cup {"listen"}
         \/ p \in Senders /\ client[p] = "input" /\ stdin[p] = "open"
=============================================================================
