----------------------------- MODULE Connection -----------------------------
(***************************************************************************)
(* csf_assign05/connection.cpp with the Rio functions it is built on: one  *)
(* direction of a connection.  A writer calls Connection::send, which      *)
(* gives the bytes of an encoded message to the socket in as many pieces   *)
(* as the socket likes; a reader calls Connection::receive, which takes    *)
(* what has arrived, in other pieces, and puts the lines together again.   *)
(*                                                                         *)
(* A byte knows the message it belongs to, its place in it, and whether it *)
(* is the newline.  The tag of a message and its colon count as one byte.  *)
(* An operator named after an action with a fault in its name              *)
(* (WriteForgets, ...) is that action with a plausible mistake; no         *)
(* behaviour of Spec uses it.                                              *)
(***************************************************************************)
EXTENDS Naturals, Sequences, SequencesExt

CONSTANTS MAX_LEN,       \* Message::MAX_LEN, also the size of receive's buffer
          Lengths,       \* the lengths of encoded messages, newline included
          RIO_BUFSIZE,   \* the size of rio_buf
          SocketRoom,    \* bound: how many bytes the socket holds
          MaxMessages    \* bound: how many messages are sent

ASSUME ConnectionAssumption == /\ MAX_LEN \in Nat /\ MAX_LEN > 2
                               /\ Lengths \subseteq Nat \ {0, 1}
                               /\ RIO_BUFSIZE \in Nat \ {0}
                               /\ SocketRoom \in Nat \ {0}
                               /\ MaxMessages \in Nat

VARIABLES
  socket,         \* "open"; "shut": the writer is gone; "reset": broken
  wire,           \* the bytes written to the socket and not yet read
  unsent,         \* writer, in rio_writen: the bytes from bufp on
  sent,           \* history: the lengths of the messages given to send
  send_result,    \* writer: m_last_result
  reading,        \* reader: inside receive
  usrbuf,         \* reader, in rio_readlineb: what it has put in bufer
  rio_buf,        \* reader: the unread bytes of rio_buf
  m_last_result,  \* reader: m_last_result
  got,            \* history: what rio_readlineb returned to receive
  descriptor,     \* reader: m_fd is "open" or "closed"
  alive           \* reader: the destructor has not run

writer == <<unsent, sent, send_result>>
reader == <<reading, usrbuf, rio_buf, m_last_result, got>>
object == <<descriptor, alive>>
vars == <<socket, wire, writer, reader, object>>

Line(n, len) == [i \in 1 .. len |-> [msg |-> n, at |-> i, newline |-> i = len]]

Init == /\ socket = "open"
        /\ wire = << >>
        /\ unsent = << >>
        /\ sent = << >>
        /\ send_result = "SUCCESS"
        /\ reading = FALSE
        /\ usrbuf = << >>
        /\ rio_buf = << >>
        /\ m_last_result = "SUCCESS"
        /\ got = << >>
        /\ descriptor = "open"
        /\ alive = TRUE

(***************************************************************************)
(* Connection::send, with rio_writen.                                      *)
(***************************************************************************)
Send(len) ==
  /\ socket # "shut"
  /\ unsent = << >>
  /\ Len(sent) < MaxMessages
  /\ sent' = Append(sent, len)
  /\ unsent' = Line(Len(sent) + 1, len)
  /\ UNCHANGED <<socket, wire, send_result, reader, object>>

WriteForgets(k) ==
  /\ socket = "open"
  /\ k <= Len(unsent) /\ Len(wire) + k <= SocketRoom
  /\ wire' = wire \o SubSeq(unsent, 1, k)
  /\ unsent' = IF k = Len(unsent) THEN << >> ELSE unsent
  /\ send_result' = IF unsent' = << >> THEN "SUCCESS" ELSE send_result
  /\ UNCHANGED <<socket, sent, reader, object>>

\* write() takes the k bytes the socket has room for.
Write(k) ==
  /\ socket = "open"
  /\ k <= Len(unsent) /\ Len(wire) + k <= SocketRoom
  /\ wire' = wire \o SubSeq(unsent, 1, k)
  /\ unsent' = SubSeq(unsent, k + 1, Len(unsent))
  /\ send_result' = IF unsent' = << >> THEN "SUCCESS" ELSE send_result
  /\ UNCHANGED <<socket, sent, reader, object>>

WriteFails ==
  /\ socket = "reset"
  /\ unsent # << >>
  /\ unsent' = << >>
  /\ send_result' = "EOF_OR_ERROR"
  /\ UNCHANGED <<socket, wire, sent, reader, object>>

(***************************************************************************)
(* The writer's process ends, perhaps in the middle of a message; the      *)
(* connection breaks, and what was under way is lost.                      *)
(***************************************************************************)
Shut == /\ socket = "open"
        /\ socket' = "shut"
        /\ unsent' = << >>
        /\ UNCHANGED <<wire, sent, send_result, reader, object>>

Reset == /\ socket # "reset"
         /\ socket' = "reset"
         /\ wire' = << >>
         /\ UNCHANGED <<writer, reader, object>>

(***************************************************************************)
(* Connection::receive, with rio_readlineb and rio_read.                   *)
(***************************************************************************)
Receive == /\ alive /\ ~reading
           /\ reading' = TRUE
           /\ UNCHANGED <<socket, wire, writer, usrbuf, rio_buf, m_last_result, got, object>>

\* rio_read has nothing left and calls read(), which returns k bytes.
RefillWhenFull(k) ==
  /\ reading /\ rio_buf = << >>
  /\ socket # "reset"
  /\ k = RIO_BUFSIZE /\ k <= Len(wire)
  /\ rio_buf' = SubSeq(wire, 1, k)
  /\ wire' = SubSeq(wire, k + 1, Len(wire))
  /\ UNCHANGED <<socket, writer, reading, usrbuf, m_last_result, got, object>>

Refill(k) ==
  /\ reading /\ rio_buf = << >>
  /\ socket # "reset"
  /\ k <= RIO_BUFSIZE /\ k <= Len(wire)
  /\ rio_buf' = SubSeq(wire, 1, k)
  /\ wire' = SubSeq(wire, k + 1, Len(wire))
  /\ UNCHANGED <<socket, writer, reading, usrbuf, m_last_result, got, object>>

\* receive knows every tag; a line that does not begin with one is invalid.
Returns(line) == /\ got' = Append(got, line)
                 /\ m_last_result' = IF line[1].at = 1 THEN "SUCCESS" ELSE "INVALID_MSG"
                 /\ reading' = FALSE
                 /\ usrbuf' = << >>

Fails == /\ m_last_result' = "EOF_OR_ERROR"
         /\ reading' = FALSE
         /\ usrbuf' = << >>
         /\ UNCHANGED got

\* The loop of rio_readlineb ends; one byte of bufer is left for the NUL.
LineFullTooLate(line) == Last(line).newline \/ Len(line) = MAX_LEN
LineFullOnly(line) == Len(line) = MAX_LEN - 1
LineEnds(line) == Last(line).newline \/ Len(line) = MAX_LEN - 1

TakeByte ==
  LET line == Append(usrbuf, Head(rio_buf)) IN
  /\ reading /\ rio_buf # << >>
  /\ rio_buf' = Tail(rio_buf)
  /\ \/ LineEnds(line) /\ Returns(line)
     \/ ~ LineEnds(line) /\ usrbuf' = line /\ UNCHANGED <<reading, m_last_result, got>>
  /\ UNCHANGED <<socket, wire, writer, object>>

\* read() returns 0: the bytes that came before the end are a line, too.
ReadEof ==
  /\ reading /\ rio_buf = << >> /\ wire = << >>
  /\ socket = "shut"
  /\ \/ usrbuf = << >> /\ Fails
     \/ usrbuf # << >> /\ Returns(usrbuf)
  /\ UNCHANGED <<socket, wire, writer, rio_buf, object>>

ReadError ==
  /\ reading /\ rio_buf = << >>
  /\ socket = "reset"
  /\ Fails
  /\ UNCHANGED <<socket, wire, writer, rio_buf, object>>

(***************************************************************************)
(* The destructor of the reader's Connection, with close and is_open.      *)
(***************************************************************************)
is_open == m_last_result # "EOF_OR_ERROR"

Destructor ==
  /\ alive /\ ~reading
  /\ alive' = FALSE
  /\ \/ /\ is_open
        /\ descriptor' = "closed"
        /\ socket' = "reset"
        /\ wire' = << >>
     \/ /\ ~ is_open
        /\ UNCHANGED <<descriptor, socket, wire>>
  /\ UNCHANGED <<writer, reader>>

Finished == /\ ~ alive
            /\ UNCHANGED vars

WriterSteps == (\E k \in 1 .. SocketRoom : Write(k)) \/ WriteFails
ReceiveSteps == \/ \E k \in 1 .. RIO_BUFSIZE : Refill(k)
                \/ TakeByte \/ ReadEof \/ ReadError

Next == \/ \E len \in Lengths : Send(len)
        \/ WriterSteps
        \/ Shut \/ Reset
        \/ Receive
        \/ ReceiveSteps
        \/ Destructor
        \/ Finished

Spec == Init /\ [][Next]_vars

\* A send or a receive that can go on does.  Nobody is obliged to begin one: a
\* worker of the server may be held up in a send before its next receive.
Fairness == WF_vars(WriterSteps) /\ WF_vars(ReceiveSteps)

FairSpec == Spec /\ Fairness
-----------------------------------------------------------------------------
(***************************************************************************)
(* Properties                                                              *)
(***************************************************************************)
Byte == [msg : 1 .. MaxMessages, at : Nat, newline : BOOLEAN]

\* Every variable keeps its type, and no buffer is overrun: a line leaves room
\* for the NUL in receive's array of MAX_LEN characters.
TypeOK ==
  /\ socket \in {"open", "shut", "reset"}
  /\ wire \in Seq(Byte) /\ Len(wire) <= SocketRoom
  /\ unsent \in Seq(Byte)
  /\ sent \in Seq(Lengths) /\ Len(sent) <= MaxMessages
  /\ send_result \in {"SUCCESS", "EOF_OR_ERROR"}
  /\ reading \in BOOLEAN
  /\ usrbuf \in Seq(Byte) /\ Len(usrbuf) < MAX_LEN
  /\ rio_buf \in Seq(Byte) /\ Len(rio_buf) <= RIO_BUFSIZE
  /\ m_last_result \in {"SUCCESS", "EOF_OR_ERROR", "INVALID_MSG"}
  /\ got \in Seq(Seq(Byte)) /\ \A i \in DOMAIN got : Len(got[i]) \in 1 .. MAX_LEN - 1
  /\ descriptor \in {"open", "closed"}
  /\ alive \in BOOLEAN

AllSent == FlattenSeq([n \in DOMAIN sent |-> Line(n, sent[n])])
Arrived == FlattenSeq(got) \o usrbuf \o rio_buf \o wire

\* However write() and read() cut the bytes into pieces, they arrive in order,
\* none missing and none twice; until the connection ends, what has arrived
\* and what rio_writen still holds is exactly what was given to send.
BytesArriveInOrder ==
  /\ socket = "open" => Arrived \o unsent = AllSent
  /\ IsPrefix(Arrived, AllSent)

\* What receive has returned as its i-th line is a whole message, or all that
\* came of one in whose middle the connection ended.
ReceivedWhole(i) ==
  /\ got[i][1].at = 1
  /\ Last(got[i]).newline \/ (i = Len(got) /\ socket # "open")

MessageOf(i) == got[i][1].msg

\* Neither its length nor the cuts of write() and read() spoil a message shorter
\* than MAX_LEN: it is received whole, and no line has bytes of two messages.
ShortMessagesWhole ==
  \A i \in DOMAIN got :
    /\ \A j \in DOMAIN got[i] : got[i][j].msg = MessageOf(i)
    /\ sent[MessageOf(i)] < MAX_LEN => ReceivedWhole(i)

\* "An encoded message may have at most this many characters, including the
\* trailing newline" (message.h, of MAX_LEN): a message of MAX_LEN characters,
\* too, is received whole.
AllowedMessagesWhole ==
  \A i \in DOMAIN got : sent[MessageOf(i)] <= MAX_LEN => ReceivedWhole(i)

\* As long as the reader comes back to receive again and again, a message of
\* which send has written every byte is received to its end, unless the
\* connection breaks or the reader gives it up.
SentIsReceived ==
  []<>reading =>
    \A n \in 1 .. MaxMessages :
      (n \in DOMAIN sent /\ unsent = << >> /\ send_result = "SUCCESS" /\ socket = "open")
        ~> (\/ \E i \in DOMAIN got : Last(got[i]).msg = n /\ Last(got[i]).newline
            \/ socket = "reset"
            \/ ~ alive)
=============================================================================
