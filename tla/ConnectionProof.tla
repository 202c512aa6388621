--------------------------- MODULE ConnectionProof ---------------------------
(***************************************************************************)
(* Connection for every MAX_LEN, every size of the buffers and every       *)
(* length of the messages: no buffer is overrun, each message shorter than *)
(* MAX_LEN is received whole and by itself, and the bytes arrive in order. *)
(***************************************************************************)
EXTENDS Connection, SequenceTheorems, WellFoundedInduction, TLAPS

-----------------------------------------------------------------------------
(***************************************************************************)
(* The invariant is about the stream of the bytes not yet returned to      *)
(* receive, with the last that was, in the order in which they are to be   *)
(* read.  What a broken connection has lost is not part of it.             *)
(***************************************************************************)
Live == IF socket = "open" THEN unsent ELSE << >>
LastByte == IF got = << >> THEN << >> ELSE <<Last(Last(got))>>
Coming == usrbuf \o (rio_buf \o (wire \o Live))
Stream == LastByte \o Coming

\* A byte of a message that was given to send.
Genuine(b, lengths) == /\ b.msg \in 1 .. Len(lengths)
                       /\ b.at \in 1 .. lengths[b.msg]
                       /\ b.newline => b.at = lengths[b.msg]
                       /\ b.at = lengths[b.msg] => b.newline

Follows(a, b) == \/ ~ a.newline /\ b.msg = a.msg /\ b.at = a.at + 1
                 \/ a.newline /\ b.msg = a.msg + 1 /\ b.at = 1

Chain(s) == \A i \in 1 .. Len(s) - 1 : Follows(s[i], s[i + 1])

OneMessage(line) == \A j \in 1 .. Len(line) : /\ line[j].msg = line[1].msg
                                              /\ line[j].at = line[1].at + (j - 1)

Flawless(s) == Chain(s) /\ \A i \in 1 .. Len(s) : Genuine(s[i], sent)

\* No byte is missing in the middle, and the stream begins with a message.
StreamOK == /\ Flawless(Stream)
            /\ got = << >> /\ Stream # << >> => Stream[1].at = 1

\* As long as the connection is open the stream ends with the last message.
EndOK == /\ socket = "open" =>
              \/ sent = << >> /\ Stream = << >>
              \/ /\ sent # << >> /\ Stream # << >>
                 /\ Last(Stream).newline /\ Last(Stream).msg = Len(sent)
         /\ socket = "reset" => wire = << >>

\* rio_readlineb has not gone past a newline, nor past the end of bufer.
UsrbufOK == /\ ~ reading => usrbuf = << >>
            /\ Len(usrbuf) < MAX_LEN - 1
            /\ OneMessage(usrbuf)
            /\ \A j \in 1 .. Len(usrbuf) : ~ usrbuf[j].newline

\* The connection has ended and there is nothing left to read.
Dry == socket # "open" /\ usrbuf = << >> /\ rio_buf = << >> /\ wire = << >>

GoodLine(line, lengths, over) ==
  /\ OneMessage(line)
  /\ \A j \in 1 .. Len(line) : Genuine(line[j], lengths)
  /\ lengths[line[1].msg] < MAX_LEN => line[1].at = 1 /\ (Last(line).newline \/ over)

LinesOK == \A i \in 1 .. Len(got) : GoodLine(got[i], sent, i = Len(got) /\ Dry)

Inv == TypeOK /\ StreamOK /\ EndOK /\ UsrbufOK /\ LinesOK

-----------------------------------------------------------------------------
(***************************************************************************)
(* Types.                                                                  *)
(***************************************************************************)
LEMMA LineType ==
  ASSUME NEW n \in 1 .. MaxMessages, NEW len \in Nat \ {0}
  PROVE  /\ Line(n, len) \in Seq(Byte) /\ Len(Line(n, len)) = len
         /\ \A i \in 1 .. len : Line(n, len)[i].msg = n /\ Line(n, len)[i].at = i
         /\ \A i \in 1 .. len - 1 : ~ Line(n, len)[i].newline
         /\ Line(n, len)[len].newline
<1>1. \A i \in 1 .. len : [msg |-> n, at |-> i, newline |-> i = len] \in Byte
  BY DEF Byte
<1>2. /\ \A i \in 1 .. len : Line(n, len)[i].msg = n /\ Line(n, len)[i].at = i
      /\ \A i \in 1 .. len - 1 : ~ Line(n, len)[i].newline
      /\ Line(n, len)[len].newline
  <2>1. ASSUME NEW i \in 1 .. len
        PROVE  /\ Line(n, len)[i].msg = n /\ Line(n, len)[i].at = i
               /\ Line(n, len)[i].newline = (i = len)
    BY DEF Line
  <2>2. len \in 1 .. len /\ \A i \in 1 .. len - 1 : i \in 1 .. len /\ i # len
    OBVIOUS
  <2> HIDE DEF Line
  <2>3. Line(n, len)[len].newline
    BY <2>1, <2>2
  <2>4. ASSUME NEW i \in 1 .. len - 1 PROVE ~ Line(n, len)[i].newline
    BY <2>1, <2>2
  <2> QED BY <2>1, <2>3, <2>4
<1> HIDE DEF Byte
<1>3. Line(n, len) \in Seq(Byte) /\ Len(Line(n, len)) = len
  BY <1>1 DEF Line
<1> QED BY <1>2, <1>3

LEMMA Cut ==
  ASSUME NEW s \in Seq(Byte), NEW k \in 1 .. Len(s)
  PROVE  /\ SubSeq(s, 1, k) \in Seq(Byte) /\ Len(SubSeq(s, 1, k)) = k
         /\ SubSeq(s, k + 1, Len(s)) \in Seq(Byte)
         /\ SubSeq(s, 1, k) \o SubSeq(s, k + 1, Len(s)) = s
         /\ Len(SubSeq(s, k + 1, Len(s))) = Len(s) - k
<1> HIDE DEF Byte
<1>1. Len(s) \in Nat /\ \A i \in 1 .. Len(s) : s[i] \in Byte
  BY ElementOfSeq
<1>2. SubSeq(s, 1, k) \in Seq(Byte) /\ Len(SubSeq(s, 1, k)) = k
  BY <1>1, SubSeqProperties
<1>3. SubSeq(s, k + 1, Len(s)) \in Seq(Byte) /\ Len(SubSeq(s, k + 1, Len(s))) = Len(s) - k
  BY <1>1, SubSeqProperties
<1>4. SubSeq(s, 1, k) \o SubSeq(s, k + 1, Len(s)) = SubSeq(s, 1, Len(s))
  <2>1. 1 \in 1 .. Len(s) + 1 /\ k \in 1 - 1 .. Len(s) /\ Len(s) \in k .. Len(s)
    BY <1>1
  <2> QED BY <1>1, <2>1, ConcatAdjacentSubSeq
<1>5. SubSeq(s, 1, Len(s)) = s
  BY SubSeqFull
<1> QED BY <1>2, <1>3, <1>4, <1>5

LEMMA First ==
  ASSUME NEW s \in Seq(Byte), s # << >>
  PROVE  /\ Head(s) \in Byte /\ Head(s) = s[1] /\ Tail(s) \in Seq(Byte)
         /\ Len(Tail(s)) = Len(s) - 1 /\ Len(s) \in Nat \ {0}
         /\ <<Head(s)>> \o Tail(s) = s
<1> HIDE DEF Byte
<1>1. Len(s) \in Nat \ {0}
  BY EmptySeq
<1>2. Head(s) \in Byte /\ Tail(s) \in Seq(Byte) /\ Len(Tail(s)) = Len(s) - 1
  BY HeadTailProperties
<1>3. Head(s) = s[1] /\ Tail(s) = SubSeq(s, 2, Len(s))
  BY TailIsSubSeq
<1>4. SubSeq(s, 1, Len(s)) = <<s[1]>> \o SubSeq(s, 1 + 1, Len(s))
  BY <1>1, SubSeqRecursiveFirst
<1>5. SubSeq(s, 1, Len(s)) = s
  BY SubSeqFull
<1> QED BY <1>1, <1>2, <1>3, <1>4, <1>5

LEMMA Final ==
  ASSUME NEW s \in Seq(Byte), s # << >>
  PROVE  Last(s) = s[Len(s)] /\ Last(s) \in Byte
<1> HIDE DEF Byte
<1>1. Len(s) \in 1 .. Len(s)
  BY EmptySeq
<1> QED BY <1>1, ElementOfSeq DEF Last

\* The line that receive is given.
LEMMA LineTaken ==
  ASSUME TypeOK, UsrbufOK, reading, rio_buf # << >>
  PROVE  LET line == Append(usrbuf, Head(rio_buf)) IN
         /\ line \in Seq(Byte) /\ line # << >> /\ Len(line) = Len(usrbuf) + 1
         /\ Len(line) \in 1 .. MAX_LEN - 1
         /\ \A j \in 1 .. Len(usrbuf) : line[j] = usrbuf[j]
         /\ line[Len(line)] = rio_buf[1] /\ Last(line) = rio_buf[1]
<1> HIDE DEF Byte
<1>1. usrbuf \in Seq(Byte) /\ Len(usrbuf) < MAX_LEN - 1 /\ rio_buf \in Seq(Byte)
  BY DEF TypeOK, UsrbufOK
<1>2. Head(rio_buf) \in Byte /\ Head(rio_buf) = rio_buf[1]
  BY <1>1, First
<1>3. Len(usrbuf) \in Nat
  BY <1>1
<1>4. MAX_LEN \in Nat
  BY ConnectionAssumption
<1> DEFINE line == Append(usrbuf, Head(rio_buf))
<1>5. /\ line \in Seq(Byte) /\ line # << >> /\ Len(line) = Len(usrbuf) + 1
      /\ \A j \in 1 .. Len(usrbuf) : line[j] = usrbuf[j]
      /\ line[Len(usrbuf) + 1] = rio_buf[1]
  BY <1>1, <1>2, AppendProperties
<1>6. Len(line) \in 1 .. MAX_LEN - 1
  <2> HIDE DEF line
  <2> QED BY <1>1, <1>3, <1>4, <1>5
<1>7. Last(line) = rio_buf[1]
  <2> HIDE DEF line
  <2> QED BY <1>5, Final
<1> QED BY <1>5, <1>6, <1>7

LEMMA ReturnsType ==
  ASSUME TypeOK, NEW line \in Seq(Byte), Len(line) \in 1 .. MAX_LEN - 1, Returns(line)
  PROVE  /\ got' \in Seq(Seq(Byte)) /\ \A i \in DOMAIN got' : Len(got'[i]) \in 1 .. MAX_LEN - 1
         /\ Len(got') = Len(got) + 1 /\ got'[Len(got) + 1] = line
         /\ \A i \in 1 .. Len(got) : got'[i] = got[i]
         /\ m_last_result' \in {"SUCCESS", "EOF_OR_ERROR", "INVALID_MSG"}
         /\ reading' = FALSE /\ usrbuf' = << >>
<1> HIDE DEF Byte
<1>1. got \in Seq(Seq(Byte)) /\ \A i \in DOMAIN got : Len(got[i]) \in 1 .. MAX_LEN - 1
  BY DEF TypeOK
<1>2. /\ got' \in Seq(Seq(Byte)) /\ Len(got') = Len(got) + 1 /\ got'[Len(got) + 1] = line
      /\ \A i \in 1 .. Len(got) : got'[i] = got[i]
  BY <1>1, AppendProperties DEF Returns
<1>3. DOMAIN got' = 1 .. Len(got) + 1 /\ DOMAIN got = 1 .. Len(got) /\ Len(got) \in Nat
  BY <1>1, <1>2, LenProperties
<1>4. \A i \in DOMAIN got' : Len(got'[i]) \in 1 .. MAX_LEN - 1
  <2> SUFFICES ASSUME NEW i \in 1 .. Len(got) + 1 PROVE Len(got'[i]) \in 1 .. MAX_LEN - 1
    BY <1>3
  <2>1. CASE i \in 1 .. Len(got)
    BY <1>1, <1>2, <1>3, <2>1
  <2>2. CASE i = Len(got) + 1
    BY <1>2, <2>2
  <2> QED BY <1>3, <2>1, <2>2
<1> QED BY <1>2, <1>4 DEF Returns

LEMMA EmptyType == ASSUME NEW s, s = << >> PROVE s \in Seq(Byte) /\ Len(s) = 0
  BY EmptySeq

LEMMA TypeStep == ASSUME TypeOK, UsrbufOK, [Next]_vars PROVE TypeOK'
<1> USE ConnectionAssumption DEF writer, reader, object
<1> HIDE DEF Byte
<1>1. ASSUME NEW len \in Lengths, Send(len) PROVE TypeOK'
  <2>1. len \in Nat /\ Len(sent) + 1 \in 1 .. MaxMessages /\ sent \in Seq(Lengths)
    BY <1>1 DEF TypeOK, Send
  <2>2. unsent' \in Seq(Byte)
    BY <1>1, <2>1, LineType DEF Send
  <2>3. sent' \in Seq(Lengths) /\ Len(sent') <= MaxMessages
    BY <1>1, <2>1 DEF Send
  <2> QED BY <1>1, <2>2, <2>3 DEF TypeOK, Send
<1>2. ASSUME NEW k \in 1 .. SocketRoom, Write(k) PROVE TypeOK'
  <2>1. k \in 1 .. Len(unsent) /\ unsent \in Seq(Byte) /\ wire \in Seq(Byte)
    BY <1>2 DEF TypeOK, Write
  <2>2. SubSeq(unsent, 1, k) \in Seq(Byte) /\ Len(SubSeq(unsent, 1, k)) = k
        /\ unsent' \in Seq(Byte)
    BY <1>2, <2>1, Cut DEF Write
  <2>3. wire' \in Seq(Byte) /\ Len(wire') = Len(wire) + k
    BY <1>2, <2>1, <2>2, ConcatProperties DEF Write
  <2>4. Len(wire') <= SocketRoom
    BY <1>2, <2>3 DEF Write
  <2> QED BY <1>2, <2>2, <2>3, <2>4 DEF TypeOK, Write
<1>3. CASE WriteFails
  BY <1>3, EmptyType DEF TypeOK, WriteFails
<1>4. CASE Shut \/ Reset
  <2>1. /\ socket' \in {"open", "shut", "reset"}
        /\ wire' = wire \/ wire' = << >>
        /\ unsent' = unsent \/ unsent' = << >>
        /\ UNCHANGED <<sent, send_result, reading, usrbuf, rio_buf, m_last_result, got,
                        descriptor, alive>>
    BY <1>4 DEF Shut, Reset
  <2>2. wire' \in Seq(Byte) /\ Len(wire') <= SocketRoom /\ unsent' \in Seq(Byte)
    BY <2>1, EmptyType DEF TypeOK
  <2> QED BY <2>1, <2>2 DEF TypeOK
<1>5. CASE Receive
  BY <1>5 DEF TypeOK, Receive
<1>6. ASSUME NEW k \in 1 .. RIO_BUFSIZE, Refill(k) PROVE TypeOK'
  <2>1. k \in 1 .. Len(wire) /\ wire \in Seq(Byte) /\ Len(wire) <= SocketRoom
    BY <1>6 DEF TypeOK, Refill
  <2>2. /\ rio_buf' \in Seq(Byte) /\ Len(rio_buf') = k
        /\ wire' \in Seq(Byte) /\ Len(wire') = Len(wire) - k
    BY <1>6, <2>1, Cut DEF Refill
  <2>3. Len(wire') <= SocketRoom /\ Len(rio_buf') <= RIO_BUFSIZE
    BY <1>6, <2>1, <2>2
  <2> QED BY <1>6, <2>2, <2>3 DEF TypeOK, Refill
<1>7. CASE TakeByte
  <2> DEFINE line == Append(usrbuf, Head(rio_buf))
  <2>1. reading /\ rio_buf # << >> /\ rio_buf' = Tail(rio_buf)
    BY <1>7 DEF TakeByte
  <2>2. line \in Seq(Byte) /\ Len(line) \in 1 .. MAX_LEN - 1
    BY <2>1, LineTaken
  <2>3. rio_buf' \in Seq(Byte) /\ Len(rio_buf') <= RIO_BUFSIZE
    BY <2>1, First DEF TypeOK
  <2> HIDE DEF line
  <2>4. CASE LineEnds(line) /\ Returns(line)
    <3>1. UNCHANGED <<socket, wire, unsent, sent, send_result, descriptor, alive>>
      BY <1>7 DEF TakeByte
    <3>2. /\ got' \in Seq(Seq(Byte)) /\ \A i \in DOMAIN got' : Len(got'[i]) \in 1 .. MAX_LEN - 1
          /\ m_last_result' \in {"SUCCESS", "EOF_OR_ERROR", "INVALID_MSG"}
          /\ reading' = FALSE /\ usrbuf' = << >>
      BY <2>2, <2>4, ReturnsType
    <3>3. usrbuf' \in Seq(Byte) /\ Len(usrbuf') < MAX_LEN
      BY <3>2, EmptyType
    <3> QED BY <2>3, <3>1, <3>2, <3>3 DEF TypeOK
  <2>5. CASE usrbuf' = line /\ UNCHANGED <<reading, m_last_result, got>>
    BY <1>7, <2>2, <2>3, <2>5 DEF TypeOK, TakeByte
  <2> QED BY <1>7, <2>4, <2>5 DEF TakeByte, line
<1>8. CASE ReadEof
  <2>1. CASE Fails
    <3>1. /\ UNCHANGED <<socket, wire, unsent, sent, send_result, rio_buf, got,
                          descriptor, alive>>
          /\ reading' = FALSE /\ usrbuf' = << >> /\ m_last_result' = "EOF_OR_ERROR"
      BY <1>8, <2>1 DEF ReadEof, Fails
    <3>2. usrbuf' \in Seq(Byte) /\ Len(usrbuf') < MAX_LEN
      BY <3>1, EmptyType
    <3> QED BY <3>1, <3>2 DEF TypeOK
  <2>2. CASE usrbuf # << >> /\ Returns(usrbuf)
    <3>1. usrbuf \in Seq(Byte) /\ Len(usrbuf) \in 1 .. MAX_LEN - 1
      <4>1. usrbuf \in Seq(Byte) /\ Len(usrbuf) < MAX_LEN - 1
        BY DEF TypeOK, UsrbufOK
      <4>2. Len(usrbuf) \in Nat \ {0}
        BY <2>2, <4>1, EmptySeq
      <4> QED BY <4>1, <4>2
    <3>2. UNCHANGED <<socket, wire, unsent, sent, send_result, rio_buf, descriptor, alive>>
      BY <1>8 DEF ReadEof
    <3>3. /\ got' \in Seq(Seq(Byte)) /\ \A i \in DOMAIN got' : Len(got'[i]) \in 1 .. MAX_LEN - 1
          /\ m_last_result' \in {"SUCCESS", "EOF_OR_ERROR", "INVALID_MSG"}
          /\ reading' = FALSE /\ usrbuf' = << >>
      BY <2>2, <3>1, ReturnsType
    <3>4. usrbuf' \in Seq(Byte) /\ Len(usrbuf') < MAX_LEN
      BY <3>3, EmptyType
    <3> QED BY <3>2, <3>3, <3>4 DEF TypeOK
  <2> QED BY <1>8, <2>1, <2>2 DEF ReadEof
<1>9. CASE ReadError
  <2>1. /\ UNCHANGED <<socket, wire, unsent, sent, send_result, rio_buf, got,
                        descriptor, alive>>
        /\ reading' = FALSE /\ usrbuf' = << >> /\ m_last_result' = "EOF_OR_ERROR"
    BY <1>9 DEF ReadError, Fails
  <2>2. usrbuf' \in Seq(Byte) /\ Len(usrbuf') < MAX_LEN
    BY <2>1, EmptyType
  <2> QED BY <2>1, <2>2 DEF TypeOK
<1>10. CASE Destructor
  <2>1. /\ wire' = wire \/ wire' = << >>
        /\ socket' \in {"open", "shut", "reset"} /\ descriptor' \in {"open", "closed"}
        /\ alive' = FALSE
        /\ UNCHANGED <<unsent, sent, send_result, reading, usrbuf, rio_buf, m_last_result, got>>
    BY <1>10 DEF TypeOK, Destructor
  <2>2. wire' \in Seq(Byte) /\ Len(wire') <= SocketRoom
    BY <2>1, EmptyType DEF TypeOK
  <2> QED BY <2>1, <2>2 DEF TypeOK
<1>11. CASE UNCHANGED vars
  BY <1>11 DEF TypeOK, vars
<1> QED
  BY <1>1, <1>2, <1>3, <1>4, <1>5, <1>6, <1>7, <1>8, <1>9, <1>10, <1>11
  DEF Next, WriterSteps, ReceiveSteps, Finished

-----------------------------------------------------------------------------
(***************************************************************************)
(* The stream.                                                             *)
(***************************************************************************)
LEMMA Assoc ==
  ASSUME NEW a \in Seq(Byte), NEW b \in Seq(Byte), NEW c \in Seq(Byte)
  PROVE  a \o (b \o c) = (a \o b) \o c /\ a \o b \in Seq(Byte) /\ b \o c \in Seq(Byte)
<1> HIDE DEF Byte
<1> QED BY ConcatAssociative, ConcatProperties

\* Concatenation as an operator that the provers do not look into.
Cat(a, b) == a \o b

LEMMA CatAssoc ==
  ASSUME NEW a \in Seq(Byte), NEW b \in Seq(Byte), NEW c \in Seq(Byte)
  PROVE  Cat(a, Cat(b, c)) = Cat(Cat(a, b), c) /\ Cat(a, b) \in Seq(Byte)
<1> HIDE DEF Byte
<1> QED BY Assoc DEF Cat

LEMMA NoBytes ==
  ASSUME NEW a \in Seq(Byte), NEW n, n = << >>
  PROVE  a \o n = a /\ n \o a = a
<1> HIDE DEF Byte
<1> QED BY ConcatEmptySeq

LEMMA StreamType ==
  ASSUME TypeOK
  PROVE  /\ Live \in Seq(Byte) /\ LastByte \in Seq(Byte) /\ wire \o Live \in Seq(Byte)
         /\ rio_buf \o (wire \o Live) \in Seq(Byte)
         /\ Coming \in Seq(Byte) /\ Stream \in Seq(Byte)
<1> HIDE DEF Byte
<1>1. /\ usrbuf \in Seq(Byte) /\ rio_buf \in Seq(Byte) /\ wire \in Seq(Byte)
      /\ unsent \in Seq(Byte)
  BY DEF TypeOK
<1>2. Live \in Seq(Byte)
  BY <1>1, EmptyType DEF Live
<1>3. LastByte \in Seq(Byte)
  <2>1. CASE got = << >>
    BY <2>1, EmptyType DEF LastByte
  <2>2. CASE got # << >>
    <3>1. got \in Seq(Seq(Byte)) /\ Len(got) \in Nat \ {0}
      BY <2>2, EmptySeq DEF TypeOK
    <3>2. Len(got) \in DOMAIN got /\ Len(got) \in 1 .. Len(got)
      BY <3>1, LenProperties
    <3>3. got[Len(got)] \in Seq(Byte) /\ Len(got[Len(got)]) \in 1 .. MAX_LEN - 1
      BY <3>1, <3>2, ElementOfSeq DEF TypeOK
    <3>4. got[Len(got)] # << >>
      BY <3>3, EmptySeq
    <3>5. Last(got[Len(got)]) \in Byte
      BY <3>3, <3>4, Final
    <3> QED BY <2>2, <3>5 DEF LastByte, Last
  <2> QED BY <2>1, <2>2
<1>4. wire \o Live \in Seq(Byte)
  BY <1>1, <1>2, ConcatProperties
<1>5. rio_buf \o (wire \o Live) \in Seq(Byte)
  BY <1>1, <1>4, ConcatProperties
<1>6. Coming \in Seq(Byte)
  BY <1>1, <1>5, ConcatProperties DEF Coming
<1>7. Stream \in Seq(Byte)
  BY <1>3, <1>6, ConcatProperties DEF Stream
<1> QED BY <1>2, <1>3, <1>4, <1>5, <1>6, <1>7

\* Of a good stream each part is one.
LEMMA PartOfStream ==
  ASSUME NEW x \in Seq(Byte), NEW t \in Seq(Byte), NEW y \in Seq(Byte),
         Flawless(x \o (t \o y))
  PROVE  /\ Flawless(t)
         /\ Len(x \o (t \o y)) = Len(x) + Len(t) + Len(y)
         /\ \A i \in 1 .. Len(t) : t[i] = (x \o (t \o y))[Len(x) + i]
<1> HIDE DEF Byte, Genuine
<1> DEFINE s == x \o (t \o y)
<1>0. s = x \o (t \o y) /\ Flawless(s)
  OBVIOUS
<1> HIDE DEF s
<1>1. Len(x) \in Nat /\ Len(t) \in Nat /\ Len(y) \in Nat
  OBVIOUS
<1>2. /\ t \o y \in Seq(Byte) /\ Len(t \o y) = Len(t) + Len(y)
      /\ \A i \in 1 .. Len(t) : (t \o y)[i] = t[i]
  BY <1>1, ConcatProperties
<1>3. /\ Len(s) = Len(x) + Len(t) + Len(y)
      /\ \A i \in 1 .. Len(t) : s[Len(x) + i] = (t \o y)[i]
  <2>1. /\ Len(s) = Len(x) + Len(t \o y)
        /\ \A i \in 1 .. Len(x) + Len(t \o y) :
             s[i] = IF i <= Len(x) THEN x[i] ELSE (t \o y)[i - Len(x)]
    BY <1>0, <1>2, ConcatProperties
  <2>2. ASSUME NEW i \in 1 .. Len(t) PROVE s[Len(x) + i] = (t \o y)[i]
    <3>1. Len(x) + i \in 1 .. Len(x) + Len(t \o y) /\ ~ (Len(x) + i <= Len(x))
          /\ (Len(x) + i) - Len(x) = i
      BY <1>1, <1>2
    <3> QED BY <2>1, <3>1
  <2> QED BY <1>1, <1>2, <2>1, <2>2
<1>4. \A i \in 1 .. Len(t) : t[i] = s[Len(x) + i] /\ Len(x) + i \in 1 .. Len(s)
  BY <1>1, <1>2, <1>3
<1>5. \A i \in 1 .. Len(t) : Genuine(t[i], sent)
  BY <1>0, <1>4 DEF Flawless
<1>6. Chain(t)
  <2> SUFFICES ASSUME NEW i \in 1 .. Len(t) - 1 PROVE Follows(t[i], t[i + 1])
    BY DEF Chain
  <2>1. Len(x) + i \in 1 .. Len(s) - 1 /\ (Len(x) + i) + 1 = Len(x) + (i + 1)
        /\ i \in 1 .. Len(t) /\ i + 1 \in 1 .. Len(t)
    BY <1>1, <1>3
  <2>2. Follows(s[Len(x) + i], s[(Len(x) + i) + 1])
    BY <1>0, <2>1 DEF Chain, Flawless
  <2>3. t[i] = s[Len(x) + i]
    BY <1>4, <2>1
  <2>4. t[i + 1] = s[(Len(x) + i) + 1]
    BY <1>4, <2>1
  <2> QED BY <2>2, <2>3, <2>4
<1> QED BY <1>3, <1>4, <1>5, <1>6 DEF Flawless, s

\* How the stream goes on: the same, without its beginning, or without its end.
LEMMA StreamSame ==
  ASSUME StreamOK, EndOK, Stream' = Stream, UNCHANGED <<got, sent>>,
         socket' = "open" => socket = "open", socket' = "reset" => wire' = << >>
  PROVE  StreamOK' /\ EndOK'
<1> HIDE DEF Stream
<1>1. StreamOK'
  BY DEF StreamOK, Flawless, Chain, Follows, Genuine
<1>2. EndOK'
  BY DEF EndOK, Last
<1> QED BY <1>1, <1>2

LEMMA StreamSuffix ==
  ASSUME StreamOK, EndOK, NEW x \in Seq(Byte), NEW t \in Seq(Byte), t # << >>,
         Stream = x \o t, Stream' = t, got' # << >>, UNCHANGED <<sent, socket, wire>>
  PROVE  StreamOK' /\ EndOK'
<1> HIDE DEF Byte, Stream
<1>1. PICK e \in Seq(Byte) : e = << >> /\ Len(e) = 0
  BY EmptyType
<1>2. Stream = x \o (t \o e) /\ x \o t \in Seq(Byte)
  BY <1>1, NoBytes, ConcatProperties
<1>3. /\ Flawless(t)
      /\ Len(Stream) = Len(x) + Len(t) + Len(e)
      /\ \A i \in 1 .. Len(t) : t[i] = Stream[Len(x) + i]
  <2>1. Flawless(Stream)
    BY DEF StreamOK
  <2>2. Flawless(x \o (t \o e))
    BY <1>2, <2>1
  <2>3. /\ Flawless(t)
        /\ Len(x \o (t \o e)) = Len(x) + Len(t) + Len(e)
        /\ \A i \in 1 .. Len(t) : t[i] = (x \o (t \o e))[Len(x) + i]
    BY <2>2, PartOfStream
  <2> QED BY <1>2, <2>3
<1>4. Len(t) \in Nat \ {0} /\ Len(x) \in Nat
  BY EmptySeq
<1>5. StreamOK'
  BY <1>3 DEF StreamOK, Flawless, Chain, Follows, Genuine
<1>6. Stream \in Seq(Byte) /\ Stream # << >>
  <2>1. Stream \in Seq(Byte) /\ Len(Stream) # 0
    BY <1>1, <1>2, <1>3, <1>4
  <2> QED BY <2>1, EmptySeq
<1>7. Last(t) = Last(Stream)
  <2>1. Last(t) = t[Len(t)] /\ Last(Stream) = Stream[Len(Stream)]
    BY <1>6, Final
  <2>2. Len(t) \in 1 .. Len(t) /\ Len(Stream) = Len(x) + Len(t)
    BY <1>1, <1>3, <1>4
  <2> QED BY <1>3, <2>1, <2>2
<1>8. EndOK'
  <2>1. socket = "open" => sent # << >> /\ Last(Stream).newline /\ Last(Stream).msg = Len(sent)
    BY <1>6 DEF EndOK
  <2>2. socket' = "open" => /\ sent' # << >> /\ Stream' # << >>
                            /\ Last(Stream').newline /\ Last(Stream').msg = Len(sent')
    BY <1>7, <2>1
  <2>3. socket' = "reset" => wire' = << >>
    BY DEF EndOK
  <2> QED BY <2>2, <2>3 DEF EndOK
<1> QED BY <1>5, <1>8

LEMMA StreamPrefix ==
  ASSUME StreamOK, NEW t \in Seq(Byte), NEW y \in Seq(Byte),
         Stream = t \o y, Stream' = t, UNCHANGED <<got, sent>>,
         socket' # "open", socket' = "reset" => wire' = << >>
  PROVE  StreamOK' /\ EndOK'
<1> HIDE DEF Byte, Stream
<1>1. PICK e \in Seq(Byte) : e = << >> /\ Len(e) = 0
  BY EmptyType
<1>2. Stream = e \o (t \o y)
  <2>1. t \o y \in Seq(Byte)
    BY ConcatProperties
  <2> QED BY <1>1, <2>1, NoBytes
<1>3. /\ Flawless(t)
      /\ Len(Stream) = Len(e) + Len(t) + Len(y)
      /\ \A i \in 1 .. Len(t) : t[i] = Stream[Len(e) + i]
  <2>1. Flawless(Stream)
    BY DEF StreamOK
  <2>2. Flawless(e \o (t \o y))
    BY <1>2, <2>1
  <2>3. /\ Flawless(t)
        /\ Len(e \o (t \o y)) = Len(e) + Len(t) + Len(y)
        /\ \A i \in 1 .. Len(t) : t[i] = (e \o (t \o y))[Len(e) + i]
    BY <2>2, PartOfStream
  <2> QED BY <1>2, <2>3
<1>4. got' = << >> /\ t # << >> => t[1].at = 1
  <2> SUFFICES ASSUME got' = << >>, t # << >> PROVE t[1].at = 1
    OBVIOUS
  <2>1. Len(t) \in Nat \ {0} /\ Len(y) \in Nat
    BY EmptySeq
  <2>2. Len(Stream) # 0 /\ 1 \in 1 .. Len(t) /\ Len(e) + 1 = 1
    BY <1>1, <1>3, <2>1
  <2>3. Stream # << >> /\ t[1] = Stream[1]
    BY <1>3, <2>2, EmptyType
  <2> QED BY <2>3 DEF StreamOK
<1>5. StreamOK'
  BY <1>3, <1>4 DEF StreamOK, Flawless, Chain, Follows, Genuine
<1>6. EndOK'
  BY DEF EndOK
<1> QED BY <1>5, <1>6

\* Lengths that were given to send stay what they were.
LEMMA MoreSent ==
  ASSUME NEW lengths \in Seq(Lengths), NEW len \in Lengths
  PROVE  /\ Append(lengths, len) \in Seq(Lengths)
         /\ Len(Append(lengths, len)) = Len(lengths) + 1
         /\ Append(lengths, len)[Len(lengths) + 1] = len
         /\ Append(lengths, len) # << >>
         /\ \A m \in 1 .. Len(lengths) : Append(lengths, len)[m] = lengths[m]
         /\ \A b : Genuine(b, lengths) => Genuine(b, Append(lengths, len))
<1> DEFINE more == Append(lengths, len)
<1>1. /\ more \in Seq(Lengths) /\ Len(more) = Len(lengths) + 1
      /\ more[Len(lengths) + 1] = len /\ more # << >>
      /\ \A m \in 1 .. Len(lengths) : more[m] = lengths[m]
  BY AppendProperties
<1> HIDE DEF more
<1>2. ASSUME NEW b, Genuine(b, lengths) PROVE Genuine(b, more)
  <2>1. b.msg \in 1 .. Len(lengths) /\ Len(lengths) \in Nat
    BY <1>2 DEF Genuine
  <2>2. b.msg \in 1 .. Len(more) /\ more[b.msg] = lengths[b.msg]
    BY <1>1, <2>1
  <2> QED BY <1>2, <2>2 DEF Genuine
<1> QED BY <1>1, <1>2 DEF more

LEMMA StreamMore ==
  ASSUME TypeOK, StreamOK, EndOK, socket = "open", NEW len \in Lengths, Send(len)
  PROVE  StreamOK' /\ EndOK'
<1> HIDE DEF Byte
<1>1. /\ sent \in Seq(Lengths) /\ Len(sent) \in Nat /\ Len(sent) + 1 \in 1 .. MaxMessages
      /\ len \in Nat \ {0} /\ len > 0
  BY ConnectionAssumption DEF TypeOK, Send
<1>2. PICK line \in Seq(Byte) :
        /\ line = Line(Len(sent) + 1, len) /\ Len(line) = len
        /\ \A i \in 1 .. len : line[i].msg = Len(sent) + 1 /\ line[i].at = i
        /\ \A i \in 1 .. len - 1 : ~ line[i].newline
        /\ line[len].newline
  <2>1. PICK m \in 1 .. MaxMessages : m = Len(sent) + 1
    BY <1>1
  <2>2. /\ Line(m, len) \in Seq(Byte) /\ Len(Line(m, len)) = len
        /\ \A i \in 1 .. len : Line(m, len)[i].msg = m /\ Line(m, len)[i].at = i
        /\ \A i \in 1 .. len - 1 : ~ Line(m, len)[i].newline
        /\ Line(m, len)[len].newline
    BY <1>1, LineType
  <2> HIDE DEF Line
  <2> QED BY <2>1, <2>2
<1>3. PICK s \in Seq(Byte) : s = Stream
  BY StreamType
<1>4. PICK u \in Seq(Byte) : u = s \o line
  BY ConcatProperties
<1>5. Stream' = u
  <2>1. /\ UNCHANGED <<socket, got, usrbuf, rio_buf, wire>>
        /\ unsent = << >> /\ unsent' = line
    BY <1>2 DEF Send, reader
  <2>2. /\ usrbuf \in Seq(Byte) /\ rio_buf \in Seq(Byte) /\ wire \in Seq(Byte)
        /\ LastByte \in Seq(Byte)
    BY StreamType DEF TypeOK
  <2>3. s = LastByte \o (usrbuf \o (rio_buf \o wire))
    <3>1. wire \o Live = wire
      BY <2>1, <2>2, NoBytes DEF Live
    <3> QED BY <1>3, <3>1 DEF Stream, Coming
  <2>4. Stream' = LastByte \o (usrbuf \o (rio_buf \o (wire \o line)))
    BY <2>1 DEF Stream, Coming, LastByte, Live
  <2>5. LastByte \o (usrbuf \o (rio_buf \o (wire \o line)))
          = (LastByte \o (usrbuf \o (rio_buf \o wire))) \o line
    <3> HIDE DEF LastByte
    <3>1. PICK a \in Seq(Byte), b \in Seq(Byte), c \in Seq(Byte), d \in Seq(Byte) :
            a = LastByte /\ b = usrbuf /\ c = rio_buf /\ d = wire
      BY <2>2
    <3>2. Cat(a, Cat(b, Cat(c, Cat(d, line)))) = Cat(Cat(a, Cat(b, Cat(c, d))), line)
      BY CatAssoc
    <3> QED BY <3>1, <3>2 DEF Cat
  <2> QED BY <1>4, <2>3, <2>4, <2>5
<1>6. /\ Len(u) = Len(s) + len /\ Len(s) \in Nat
      /\ \A i \in 1 .. Len(s) : u[i] = s[i]
      /\ \A i \in 1 .. len : u[Len(s) + i] = line[i]
  <2>1. /\ Len(u) = Len(s) + len /\ Len(s) \in Nat
        /\ \A i \in 1 .. Len(s) + len : u[i] = IF i <= Len(s) THEN s[i] ELSE line[i - Len(s)]
    <3>1. /\ Len(s \o line) = Len(s) + Len(line)
          /\ \A i \in 1 .. Len(s) + Len(line) :
               (s \o line)[i] = IF i <= Len(s) THEN s[i] ELSE line[i - Len(s)]
      BY ConcatProperties
    <3>2. u = s \o line /\ Len(line) = len
      BY <1>2, <1>4
    <3>3. Len(s) \in Nat
      OBVIOUS
    <3> QED BY <3>1, <3>2, <3>3
  <2>2. ASSUME NEW i \in 1 .. len PROVE u[Len(s) + i] = line[i]
    <3>1. Len(s) + i \in 1 .. Len(s) + len /\ ~ (Len(s) + i <= Len(s)) /\ (Len(s) + i) - Len(s) = i
      BY <1>1, <2>1
    <3> QED BY <2>1, <3>1
  <2>3. \A i \in 1 .. Len(s) : i \in 1 .. Len(s) + len /\ i <= Len(s)
    BY <1>1, <2>1
  <2> QED BY <2>1, <2>2, <2>3
<1>7. PICK n \in Nat : n = Len(s)
  BY <1>6
<1>8. PICK more \in Seq(Lengths) :
        /\ more = sent' /\ more # << >> /\ Len(more) = Len(sent) + 1
        /\ more[Len(sent) + 1] = len
        /\ \A b : Genuine(b, sent) => Genuine(b, more)
  <2>1. sent' = Append(sent, len)
    BY DEF Send
  <2> QED BY <1>1, <2>1, MoreSent
<1>9. ASSUME NEW i \in 1 .. Len(u) PROVE Genuine(u[i], more)
  <2>1. CASE i \in 1 .. n
    <3>1. Genuine(s[i], sent)
      BY <1>3, <1>7, <2>1 DEF StreamOK, Flawless
    <3> QED BY <1>6, <1>7, <1>8, <2>1, <3>1
  <2>2. CASE i \in n + 1 .. n + len
    <3>1. i - n \in 1 .. len /\ n + (i - n) = i
      BY <1>1, <2>2
    <3>2. /\ u[i].msg = Len(sent) + 1 /\ u[i].at = i - n
          /\ i - n = len => u[i].newline
          /\ i - n \in 1 .. len - 1 => ~ u[i].newline
      <4>1. u[n + (i - n)] = line[i - n]
        BY <1>6, <1>7, <3>1
      <4>2. u[i] = line[i - n]
        BY <3>1, <4>1
      <4> QED BY <1>2, <3>1, <4>2
    <3>3. /\ u[i].msg \in 1 .. Len(more) /\ more[u[i].msg] = len
          /\ u[i].at \in 1 .. len
      BY <1>1, <1>8, <3>1, <3>2
    <3>4. i - n = len \/ i - n \in 1 .. len - 1
      BY <1>1, <3>1
    <3> QED BY <3>1, <3>2, <3>3, <3>4 DEF Genuine
  <2> QED BY <1>1, <1>6, <1>7, <2>1, <2>2
<1>10. ASSUME NEW i \in 1 .. Len(u) - 1 PROVE Follows(u[i], u[i + 1])
  <2>1. CASE i \in 1 .. n - 1
    <3>1. i \in 1 .. n /\ i + 1 \in 1 .. n
      BY <2>1
    <3>2. Follows(s[i], s[i + 1])
      BY <1>3, <1>7, <2>1 DEF StreamOK, Flawless, Chain
    <3> QED BY <1>6, <1>7, <3>1, <3>2
  <2>2. CASE i = n
    <3>1. n \in 1 .. Len(s)
      BY <1>7, <2>2
    <3>2. s # << >> /\ u[i] = s[n] /\ u[i + 1] = line[1]
      BY <1>1, <1>6, <1>7, <2>2, <3>1, EmptyType
    <3>3. Last(s).newline /\ Last(s).msg = Len(sent) /\ Last(s) = s[n]
      BY <1>3, <1>7, <3>2, Final DEF EndOK
    <3>4. line[1].msg = Len(sent) + 1 /\ line[1].at = 1
      BY <1>1, <1>2
    <3> QED BY <3>2, <3>3, <3>4 DEF Follows
  <2>3. CASE i \in n + 1 .. n + len - 1
    <3>1. i - n \in 1 .. len /\ (i - n) + 1 \in 1 .. len /\ n + (i - n) = i
          /\ n + ((i - n) + 1) = i + 1 /\ i - n \in 1 .. len - 1
      BY <1>1, <2>3
    <3>2. /\ u[i].msg = Len(sent) + 1 /\ u[i].at = i - n /\ ~ u[i].newline
          /\ u[i + 1].msg = Len(sent) + 1 /\ u[i + 1].at = (i - n) + 1
      <4>1. u[n + (i - n)] = line[i - n]
        BY <1>6, <1>7, <3>1
      <4>2. u[i] = line[i - n]
        BY <3>1, <4>1
      <4>3. u[n + ((i - n) + 1)] = line[(i - n) + 1]
        BY <1>6, <1>7, <3>1
      <4>4. u[i + 1] = line[(i - n) + 1]
        BY <3>1, <4>3
      <4> QED BY SMTT(30), <1>2, <3>1, <4>2, <4>4
    <3> QED BY <3>1, <3>2 DEF Follows
  <2> QED BY <1>1, <1>6, <1>7, <2>1, <2>2, <2>3
<1>11. got' = << >> => u[1].at = 1
  <2> SUFFICES ASSUME got = << >> PROVE u[1].at = 1
    BY DEF Send, reader
  <2>1. CASE n = 0
    <3>1. u[1] = line[1]
      BY <1>1, <1>6, <1>7, <2>1
    <3> QED BY <1>1, <1>2, <3>1
  <2>2. CASE n # 0
    <3>1. s # << >> /\ u[1] = s[1]
      BY <1>6, <1>7, <2>2, EmptyType
    <3> QED BY <1>3, <3>1 DEF StreamOK
  <2> QED BY <2>1, <2>2
<1>12. StreamOK'
  BY <1>5, <1>8, <1>9, <1>10, <1>11 DEF StreamOK, Flawless, Chain
<1>13. u # << >> /\ Last(u).newline /\ Last(u).msg = Len(sent) + 1
  <2>1. u # << >>
    BY <1>1, <1>6, EmptyType
  <2>2. Last(u) = u[Len(u)] /\ u[Len(u)] = line[len]
    <3>1. Last(u) = u[Len(u)]
      BY <2>1, Final
    <3>2. len \in 1 .. len /\ Len(u) = Len(s) + len
      BY <1>1, <1>6
    <3>3. u[Len(s) + len] = line[len]
      BY <1>6, <3>2
    <3> QED BY <3>1, <3>2, <3>3
  <2> QED BY <1>1, <1>2, <2>1, <2>2
<1>14. EndOK'
  BY <1>5, <1>8, <1>13 DEF EndOK, Send
<1> QED BY <1>12, <1>14

-----------------------------------------------------------------------------
(***************************************************************************)
(* The lines.                                                              *)
(***************************************************************************)
LEMMA StreamParts ==
  /\ Stream = Cat(LastByte, Cat(usrbuf, Cat(rio_buf, Cat(wire, Live))))
  /\ Stream' = Cat(LastByte', Cat(usrbuf', Cat(rio_buf', Cat(wire', Live'))))
<1> HIDE DEF LastByte, Live
<1> QED BY DEF Stream, Coming, Cat

LEMMA CatEmpty ==
  ASSUME NEW a \in Seq(Byte), NEW n, n = << >>
  PROVE  Cat(a, n) = a /\ Cat(n, a) = a
<1> HIDE DEF Byte
<1> QED BY NoBytes DEF Cat

\* The line that receive is given is what comes next in the stream.
LEMMA LineComesNext ==
  ASSUME TypeOK, UsrbufOK, reading, rio_buf # << >>,
         NEW line, line = Append(usrbuf, Head(rio_buf)),
         NEW rest, rest = Cat(Tail(rio_buf), Cat(wire, Live))
  PROVE  /\ LastByte \in Seq(Byte) /\ line \in Seq(Byte) /\ rest \in Seq(Byte)
         /\ Cat(LastByte, usrbuf) \in Seq(Byte) /\ Cat(<<rio_buf[1]>>, rest) \in Seq(Byte)
         /\ Stream = Cat(LastByte, Cat(line, rest))
         /\ Stream = Cat(Cat(LastByte, usrbuf), Cat(<<rio_buf[1]>>, rest))
<1> HIDE DEF Byte, LastByte, Live
<1>1. LastByte \in Seq(Byte) /\ Live \in Seq(Byte) /\ usrbuf \in Seq(Byte)
      /\ rio_buf \in Seq(Byte) /\ wire \in Seq(Byte)
  BY StreamType DEF TypeOK
<1>2. PICK a \in Seq(Byte), b \in Seq(Byte), r \in Seq(Byte), w \in Seq(Byte) :
        a = LastByte /\ b = usrbuf /\ r = rio_buf /\ w = Cat(wire, Live)
  BY <1>1, CatAssoc
<1>3. PICK h \in Seq(Byte), t \in Seq(Byte) :
        h = <<rio_buf[1]>> /\ t = Tail(rio_buf) /\ r = Cat(h, t)
  <2>1. Head(rio_buf) \in Byte /\ Head(rio_buf) = rio_buf[1] /\ Tail(rio_buf) \in Seq(Byte)
        /\ <<Head(rio_buf)>> \o Tail(rio_buf) = rio_buf
    BY <1>1, First
  <2>2. <<rio_buf[1]>> \in Seq(Byte)
    BY <2>1
  <2> QED BY <1>2, <2>1, <2>2 DEF Cat
<1>4. line = Cat(b, h)
  <2>1. Head(rio_buf) \in Byte /\ Head(rio_buf) = rio_buf[1]
    BY <1>1, First
  <2>2. Append(usrbuf, Head(rio_buf)) = usrbuf \o <<Head(rio_buf)>>
    BY <1>1, <2>1, AppendIsConcat
  <2> QED BY <1>2, <1>3, <2>1, <2>2 DEF Cat
<1>5. rest = Cat(t, w)
  BY <1>2, <1>3
<1>6. Stream = Cat(a, Cat(b, Cat(r, w)))
  BY <1>2, StreamParts
<1>7. Cat(r, w) = Cat(h, rest)
  <2>1. Cat(h, Cat(t, w)) = Cat(Cat(h, t), w)
    BY CatAssoc
  <2> QED BY <1>3, <1>5, <2>1
<1>8. rest \in Seq(Byte) /\ line \in Seq(Byte) /\ Cat(h, rest) \in Seq(Byte)
  <2>1. Cat(t, w) \in Seq(Byte) /\ Cat(b, h) \in Seq(Byte)
    BY CatAssoc
  <2>2. Cat(h, rest) = Cat(r, w) /\ Cat(r, w) \in Seq(Byte)
    BY <1>7, CatAssoc
  <2> QED BY <1>4, <1>5, <2>1, <2>2
<1>9. PICK q \in Seq(Byte) : q = rest
  BY <1>8
<1>10. Cat(b, Cat(h, q)) = Cat(Cat(b, h), q)
  BY CatAssoc
<1>11. PICK hq \in Seq(Byte) : hq = Cat(h, q)
  BY CatAssoc
<1>12. Cat(a, Cat(b, hq)) = Cat(Cat(a, b), hq) /\ Cat(a, b) \in Seq(Byte)
  BY CatAssoc
<1> QED BY <1>2, <1>3, <1>4, <1>6, <1>7, <1>8, <1>9, <1>10, <1>11, <1>12

LEMMA Part ==
  ASSUME StreamOK, NEW x \in Seq(Byte), NEW t \in Seq(Byte), NEW y \in Seq(Byte),
         Stream = Cat(x, Cat(t, y))
  PROVE  /\ Flawless(t)
         /\ Len(Stream) = Len(x) + Len(t) + Len(y)
         /\ \A i \in 1 .. Len(t) : t[i] = Stream[Len(x) + i]
<1> HIDE DEF Byte, Stream
<1>1. Stream = x \o (t \o y)
  BY DEF Cat
<1>2. Flawless(x \o (t \o y))
  BY <1>1 DEF StreamOK
<1>3. /\ Flawless(t)
      /\ Len(x \o (t \o y)) = Len(x) + Len(t) + Len(y)
      /\ \A i \in 1 .. Len(t) : t[i] = (x \o (t \o y))[Len(x) + i]
  BY <1>2, PartOfStream
<1> QED BY <1>1, <1>3

\* It belongs to one message, and only its last byte may be a newline.
LEMMA LineOfOneMessage ==
  ASSUME TypeOK, StreamOK, UsrbufOK, reading, rio_buf # << >>,
         NEW line \in Seq(Byte), line = Append(usrbuf, Head(rio_buf))
  PROVE  /\ Flawless(line) /\ OneMessage(line)
         /\ \A j \in 1 .. Len(line) - 1 : ~ line[j].newline
<1> HIDE DEF Byte
<1>1. /\ line # << >> /\ Len(line) = Len(usrbuf) + 1
      /\ \A j \in 1 .. Len(usrbuf) : line[j] = usrbuf[j]
      /\ line[Len(line)] = rio_buf[1]
  BY LineTaken
<1>2. Flawless(line)
  <2>1. PICK rest : rest = Cat(Tail(rio_buf), Cat(wire, Live))
    OBVIOUS
  <2>2. LastByte \in Seq(Byte) /\ rest \in Seq(Byte) /\ Stream = Cat(LastByte, Cat(line, rest))
    BY <2>1, LineComesNext
  <2> HIDE DEF LastByte, Stream
  <2> QED BY <2>2, Part
<1>3. PICK n \in Nat : n = Len(usrbuf)
  BY DEF TypeOK
<1>4. \A j \in 1 .. n : ~ line[j].newline
  BY <1>1, <1>3 DEF UsrbufOK
<1>5. \A j \in 1 .. n + 1 : line[j].at \in Nat /\ line[j].msg \in Nat
  BY <1>1, <1>2, <1>3 DEF Flawless, Genuine
<1>6. \A j \in 1 .. n : line[j].msg = line[1].msg /\ line[j].at = line[1].at + (j - 1)
  <2> SUFFICES ASSUME NEW j \in 1 .. n
               PROVE  line[j].msg = line[1].msg /\ line[j].at = line[1].at + (j - 1)
    OBVIOUS
  <2>1. 1 \in 1 .. n
    OBVIOUS
  <2>2. line[j] = usrbuf[j] /\ line[1] = usrbuf[1]
    BY <1>1, <1>3, <2>1
  <2>3. usrbuf[j].msg = usrbuf[1].msg /\ usrbuf[j].at = usrbuf[1].at + (j - 1)
    BY <1>3 DEF UsrbufOK, OneMessage
  <2> QED BY <2>2, <2>3
<1>7. line[n + 1].msg = line[1].msg /\ line[n + 1].at = line[1].at + n
  <2>1. CASE n = 0
    BY <1>5, <2>1
  <2>2. CASE n # 0
    <3>1. n \in 1 .. n /\ n \in 1 .. Len(line) - 1 /\ n - 1 + 1 = n
      BY <1>1, <1>3, <2>2
    <3>2. Follows(line[n], line[n + 1]) /\ ~ line[n].newline
      BY <1>2, <1>4, <3>1 DEF Flawless, Chain
    <3>3. line[n + 1].msg = line[n].msg /\ line[n + 1].at = line[n].at + 1
      BY <3>2 DEF Follows
    <3>4. line[n].msg = line[1].msg /\ line[n].at = line[1].at + (n - 1)
      BY <1>6, <3>1
    <3>5. line[1].at \in Nat
      BY <1>5
    <3>6. PICK x \in Nat : x = line[1].at
      BY <3>5
    <3>7. line[n + 1].at = (x + (n - 1)) + 1 /\ (x + (n - 1)) + 1 = x + n
      <4>1. line[n].at = x + (n - 1)
        BY <3>4, <3>6
      <4>2. line[n + 1].at = (x + (n - 1)) + 1
        BY <3>3, <4>1
      <4>3. (x + (n - 1)) + 1 = x + n
        OBVIOUS
      <4> QED BY <4>2, <4>3
    <3> QED BY <3>3, <3>4, <3>6, <3>7
  <2> QED BY <2>1, <2>2
<1>8. OneMessage(line)
  <2> SUFFICES ASSUME NEW j \in 1 .. n + 1
               PROVE  line[j].msg = line[1].msg /\ line[j].at = line[1].at + (j - 1)
    BY <1>1, <1>3 DEF OneMessage
  <2>1. CASE j \in 1 .. n
    BY <1>6, <2>1
  <2>2. CASE j = n + 1
    <3>1. j - 1 = n
      BY <2>2
    <3> QED BY <1>7, <2>2, <3>1
  <2>3. j \in 1 .. n \/ j = n + 1
    OBVIOUS
  <2> QED BY <2>1, <2>2, <2>3
<1> QED BY <1>1, <1>2, <1>3, <1>4, <1>8

\* Unless a message too long goes on, a line starts with its message.
LEMMA LineStarts ==
  ASSUME TypeOK, StreamOK, LinesOK, ~ Dry,
         NEW line \in Seq(Byte), line # << >>, NEW y \in Seq(Byte),
         Stream = Cat(LastByte, Cat(line, y)), sent[line[1].msg] < MAX_LEN
  PROVE  line[1].at = 1
<1> HIDE DEF Byte, Stream, Dry
<1>1. LastByte \in Seq(Byte) /\ Len(line) \in Nat \ {0} /\ Len(y) \in Nat
  BY StreamType, EmptySeq
<1>2. /\ Len(Stream) = Len(LastByte) + Len(line) + Len(y)
      /\ line[1] = Stream[Len(LastByte) + 1]
  <2>1. 1 \in 1 .. Len(line)
    BY <1>1
  <2> HIDE DEF LastByte
  <2> QED BY <1>1, <2>1, Part
<1>3. CASE got = << >>
  <2>1. Len(LastByte) = 0
    BY <1>3, EmptyType DEF LastByte
  <2>2. Len(Stream) # 0 /\ Len(LastByte) + 1 = 1
    BY <1>1, <1>2, <2>1
  <2>3. Stream # << >> /\ line[1] = Stream[1]
    BY <1>2, <2>2, EmptyType
  <2> QED BY <1>3, <2>3 DEF StreamOK
<1>4. CASE got # << >>
  <2>1. got \in Seq(Seq(Byte)) /\ Len(got) \in Nat \ {0} /\ DOMAIN got = 1 .. Len(got)
    BY <1>4, EmptySeq, LenProperties DEF TypeOK
  <2>2. PICK old \in Seq(Byte) : old = got[Len(got)] /\ Len(old) \in 1 .. MAX_LEN - 1
    <3>1. Len(got) \in 1 .. Len(got) /\ Len(got) \in DOMAIN got
      BY <2>1
    <3>2. got[Len(got)] \in Seq(Byte)
      BY <2>1, <3>1, ElementOfSeq
    <3>3. Len(got[Len(got)]) \in 1 .. MAX_LEN - 1
      BY <3>1 DEF TypeOK
    <3> QED BY <3>2, <3>3
  <2>3. OneMessage(old) /\ (sent[old[1].msg] < MAX_LEN => Last(old).newline)
    <3>1. GoodLine(got[Len(got)], sent, Len(got) = Len(got) /\ Dry)
      <4>1. Len(got) \in 1 .. Len(got)
        BY <2>1
      <4> QED BY <4>1 DEF LinesOK
    <3> QED BY <2>2, <3>1 DEF GoodLine
  <2>4. PICK b \in Byte : b = Last(old) /\ b = old[Len(old)]
    <3>1. old # << >>
      BY <2>2, EmptyType
    <3> QED BY <3>1, Final
  <2>5. b.msg = old[1].msg
    BY <2>2, <2>3, <2>4 DEF OneMessage
  <2>6. LastByte = <<b>>
    BY <1>4, <2>2, <2>4 DEF LastByte, Last
  <2>7. Stream[1] = b
    <3>1. PICK z \in Seq(Byte) : z = Cat(line, y)
      BY CatAssoc
    <3>2. <<b>> \in Seq(Byte) /\ Len(<<b>>) = 1 /\ <<b>>[1] = b
      OBVIOUS
    <3>3. 1 \in 1 .. Len(<<b>>) + Len(z) /\ 1 <= Len(<<b>>)
      BY <3>2
    <3>4. (<<b>> \o z)[1] = <<b>>[1]
      BY <3>2, <3>3, ConcatProperties
    <3> QED BY <2>6, <3>1, <3>2, <3>4 DEF Cat
  <2>8. Len(LastByte) = 1
    BY <2>6
  <2>9. 1 \in 1 .. Len(Stream) - 1 /\ line[1] = Stream[1 + 1]
    BY <1>1, <1>2, <2>8
  <2>10. Follows(b, line[1])
    <3>1. Follows(Stream[1], Stream[1 + 1])
      BY <2>9 DEF StreamOK, Flawless, Chain
    <3> QED BY <2>7, <2>9, <3>1
  <2>11. CASE b.newline
    BY <2>10, <2>11 DEF Follows
  <2>12. CASE ~ b.newline
    <3>1. line[1].msg = old[1].msg
      BY <2>5, <2>10, <2>12 DEF Follows
    <3> QED BY <2>3, <2>4, <2>12, <3>1
  <2> QED BY <2>11, <2>12
<1> QED BY <1>3, <1>4

\* A line as long as bufer that starts with a short message ends with it.
LEMMA LineOver ==
  ASSUME TypeOK, NEW line \in Seq(Byte), Flawless(line), OneMessage(line),
         Len(line) = MAX_LEN - 1, line[1].at = 1, sent[line[1].msg] < MAX_LEN
  PROVE  Last(line).newline
<1> HIDE DEF Byte
<1>1. MAX_LEN \in Nat /\ MAX_LEN > 2
  BY ConnectionAssumption
<1>2. PICK n \in Nat : n = Len(line) /\ n > 0 /\ n + 1 = MAX_LEN
  BY <1>1
<1>3. n \in 1 .. Len(line) /\ 1 + (n - 1) = n
  BY <1>2
<1>4. line[n].msg = line[1].msg /\ line[n].at = n
  <2>1. line[n].msg = line[1].msg /\ line[n].at = line[1].at + (n - 1)
    BY <1>3 DEF OneMessage
  <2> QED BY <1>3, <2>1
<1>5. /\ line[n].msg \in 1 .. Len(sent)
      /\ line[n].at \in 1 .. sent[line[n].msg]
      /\ line[n].at = sent[line[n].msg] => line[n].newline
  BY <1>3 DEF Flawless, Genuine
<1>6. PICK len \in Nat : len = sent[line[n].msg]
  <2>1. sent[line[n].msg] \in Lengths
    BY <1>5, ElementOfSeq DEF TypeOK
  <2> QED BY <2>1, ConnectionAssumption
<1>7. n <= len /\ len < n + 1
  BY <1>2, <1>4, <1>5, <1>6
<1>8. line[n].newline
  BY <1>4, <1>5, <1>6, <1>7
<1>9. Last(line) = line[n]
  <2>1. line # << >>
    BY <1>2, EmptyType
  <2> QED BY <1>2, <2>1, Final
<1> QED BY <1>8, <1>9

LEMMA NewLine ==
  ASSUME TypeOK, StreamOK, LinesOK, ~ Dry,
         NEW line \in Seq(Byte), Len(line) \in 1 .. MAX_LEN - 1, NEW y \in Seq(Byte),
         Stream = Cat(LastByte, Cat(line, y)), OneMessage(line),
         Last(line).newline \/ Len(line) = MAX_LEN - 1 \/ Dry',
         Returns(line), sent' = sent
  PROVE  LinesOK'
<1> HIDE DEF Byte, Stream, LastByte, Dry
<1>1. /\ Len(got) \in Nat /\ Len(got') = Len(got) + 1 /\ got'[Len(got) + 1] = line
      /\ \A i \in 1 .. Len(got) : got'[i] = got[i]
  <2>1. Len(got) \in Nat
    BY DEF TypeOK
  <2>2. /\ Len(got') = Len(got) + 1 /\ got'[Len(got) + 1] = line
        /\ \A i \in 1 .. Len(got) : got'[i] = got[i]
    BY ReturnsType
  <2> QED BY <2>1, <2>2
<1>2. Flawless(line)
  <2>1. LastByte \in Seq(Byte)
    BY StreamType
  <2> QED BY <2>1, Part
<1>3. line # << >>
  BY EmptyType
<1>4. ASSUME NEW i \in 1 .. Len(got) PROVE GoodLine(got'[i], sent', i = Len(got') /\ Dry')
  <2>1. GoodLine(got[i], sent, i = Len(got) /\ Dry)
    BY DEF LinesOK
  <2>2. GoodLine(got[i], sent, i = Len(got') /\ Dry')
    BY <2>1 DEF GoodLine
  <2> QED BY <1>1, <2>2
<1>5. GoodLine(line, sent, Len(got) + 1 = Len(got') /\ Dry')
  <2>1. ASSUME sent[line[1].msg] < MAX_LEN
        PROVE  line[1].at = 1 /\ (Last(line).newline \/ Dry')
    <3>1. line[1].at = 1
      BY <1>3, <2>1, LineStarts
    <3>2. Len(line) = MAX_LEN - 1 => Last(line).newline
      BY <1>2, <2>1, <3>1, LineOver
    <3> QED BY <3>1, <3>2
  <2>2. \A j \in 1 .. Len(line) : Genuine(line[j], sent)
    BY <1>2 DEF Flawless
  <2> QED BY <1>1, <2>1, <2>2 DEF GoodLine
<1>6. ASSUME NEW i \in 1 .. Len(got') PROVE GoodLine(got'[i], sent', i = Len(got') /\ Dry')
  <2>1. CASE i \in 1 .. Len(got)
    BY <1>4, <2>1
  <2>2. CASE i = Len(got) + 1
    BY <1>1, <1>5, <2>2
  <2>3. i \in 1 .. Len(got) \/ i = Len(got) + 1
    BY <1>1
  <2> QED BY <2>1, <2>2, <2>3
<1> QED BY <1>6 DEF LinesOK

LEMMA OldLines ==
  ASSUME LinesOK, UNCHANGED <<got, sent>>, Dry => Dry'
  PROVE  LinesOK'
<1> HIDE DEF Dry
<1>1. ASSUME NEW i \in 1 .. Len(got) PROVE GoodLine(got[i], sent, i = Len(got) /\ Dry')
  <2>1. GoodLine(got[i], sent, i = Len(got) /\ Dry)
    BY DEF LinesOK
  <2> QED BY <2>1 DEF GoodLine
<1> QED BY <1>1 DEF LinesOK

LEMMA OldLinesSend ==
  ASSUME TypeOK, LinesOK, NEW len \in Lengths, Send(len)
  PROVE  LinesOK'
<1> HIDE DEF Byte
<1>1. sent' = Append(sent, len) /\ got' = got /\ Dry' = Dry /\ sent \in Seq(Lengths)
  BY DEF TypeOK, Send, reader, Dry
<1> HIDE DEF Dry
<1>2. ASSUME NEW i \in 1 .. Len(got) PROVE GoodLine(got[i], sent', i = Len(got) /\ Dry)
  <2>1. GoodLine(got[i], sent, i = Len(got) /\ Dry)
    BY DEF LinesOK
  <2>2. PICK line : line = got[i]
    OBVIOUS
  <2>3. \A j \in 1 .. Len(line) : Genuine(line[j], sent')
    BY <1>1, <2>1, <2>2, MoreSent DEF GoodLine
  <2>4. sent'[line[1].msg] = sent[line[1].msg]
    <3>1. 1 \in 1 .. Len(line)
      <4>1. Len(got[i]) \in 1 .. MAX_LEN - 1
        BY LenProperties DEF TypeOK
      <4> QED BY <2>2, <4>1
    <3>2. line[1].msg \in 1 .. Len(sent)
      BY <2>1, <2>2, <3>1 DEF GoodLine, Genuine
    <3> QED BY <1>1, <3>2, MoreSent
  <2> QED BY <2>1, <2>2, <2>3, <2>4 DEF GoodLine
<1> QED BY <1>1, <1>2 DEF LinesOK

-----------------------------------------------------------------------------
(***************************************************************************)
(* The steps.                                                              *)
(***************************************************************************)
\* The steps that give receive nothing leave the lines and bufer as they are.
LEMMA QuietStep ==
  ASSUME LinesOK, UsrbufOK, UNCHANGED <<got, sent>>, Dry => Dry',
         \/ usrbuf' = usrbuf /\ (reading' = reading \/ reading' = TRUE)
         \/ usrbuf' = << >>
  PROVE  LinesOK' /\ UsrbufOK'
<1>1. LinesOK'
  BY OldLines
<1>2. CASE usrbuf' = usrbuf /\ (reading' = reading \/ reading' = TRUE)
  <2>1. /\ Len(usrbuf) < MAX_LEN - 1 /\ OneMessage(usrbuf)
        /\ \A j \in 1 .. Len(usrbuf) : ~ usrbuf[j].newline
    BY DEF UsrbufOK
  <2>2. /\ Len(usrbuf') < MAX_LEN - 1 /\ OneMessage(usrbuf')
        /\ \A j \in 1 .. Len(usrbuf') : ~ usrbuf'[j].newline
    <3>1. usrbuf' = usrbuf
      BY <1>2
    <3> QED BY <2>1, <3>1
  <2>3. ~ reading' => usrbuf' = << >>
    <3>1. CASE reading' = TRUE
      BY <3>1
    <3>2. CASE reading' = reading
      BY <1>2, <3>2 DEF UsrbufOK
    <3> QED BY <1>2, <3>1, <3>2
  <2> QED BY <1>1, <2>2, <2>3 DEF UsrbufOK, OneMessage
<1>3. CASE usrbuf' = << >>
  <2>1. Len(usrbuf') = 0 /\ MAX_LEN \in Nat /\ MAX_LEN > 2
    BY <1>3, EmptyType, ConnectionAssumption
  <2>2. \A j \in 1 .. Len(usrbuf') : FALSE
    BY <2>1
  <2>3. Len(usrbuf') < MAX_LEN - 1
    BY <2>1
  <2>4. UsrbufOK'
    BY <1>3, <2>2, <2>3 DEF UsrbufOK, OneMessage
  <2> QED BY <1>1, <2>4
<1> QED BY <1>1, <1>2, <1>3

\* Writing and reading move bytes along the stream.
LEMMA WriteStep ==
  ASSUME TypeOK, NEW k \in 1 .. SocketRoom, Write(k)
  PROVE  Stream' = Stream
<1> HIDE DEF Byte
<1>1. socket = "open" /\ socket' = "open" /\ UNCHANGED <<got, usrbuf, rio_buf>>
      /\ k <= Len(unsent)
  BY DEF Write, reader
<1>2. wire \in Seq(Byte) /\ unsent \in Seq(Byte) /\ k \in 1 .. Len(unsent)
  BY <1>1 DEF TypeOK
<1>3. PICK w \in Seq(Byte), p \in Seq(Byte), q \in Seq(Byte) :
        /\ w = wire /\ p = SubSeq(unsent, 1, k) /\ q = SubSeq(unsent, k + 1, Len(unsent))
        /\ unsent = Cat(p, q)
  <2>1. /\ SubSeq(unsent, 1, k) \in Seq(Byte) /\ SubSeq(unsent, k + 1, Len(unsent)) \in Seq(Byte)
        /\ SubSeq(unsent, 1, k) \o SubSeq(unsent, k + 1, Len(unsent)) = unsent
    BY <1>2, Cut
  <2> QED BY <1>2, <2>1 DEF Cat
<1>4. Live = Cat(p, q) /\ Live' = q /\ wire' = Cat(w, p)
  BY <1>1, <1>3 DEF Live, Write, Cat
<1>5. Cat(w, Cat(p, q)) = Cat(Cat(w, p), q)
  BY CatAssoc
<1>6. Cat(wire', Live') = Cat(wire, Live)
  BY <1>3, <1>4, <1>5
<1>7. LastByte' = LastByte
  BY <1>1 DEF LastByte
<1> HIDE DEF Stream, LastByte, Live
<1> QED BY <1>1, <1>6, <1>7, StreamParts

LEMMA RefillStep ==
  ASSUME TypeOK, NEW k \in 1 .. RIO_BUFSIZE, Refill(k)
  PROVE  Stream' = Stream
<1> HIDE DEF Byte
<1>1. rio_buf = << >> /\ UNCHANGED <<got, usrbuf, socket, unsent>> /\ k <= Len(wire)
  BY DEF Refill, writer
<1>2. wire \in Seq(Byte) /\ k \in 1 .. Len(wire) /\ Live \in Seq(Byte)
  BY <1>1, StreamType DEF TypeOK
<1>3. PICK l \in Seq(Byte), p \in Seq(Byte), q \in Seq(Byte) :
        /\ l = Live /\ p = SubSeq(wire, 1, k) /\ q = SubSeq(wire, k + 1, Len(wire))
        /\ wire = Cat(p, q)
  <2>1. /\ SubSeq(wire, 1, k) \in Seq(Byte) /\ SubSeq(wire, k + 1, Len(wire)) \in Seq(Byte)
        /\ SubSeq(wire, 1, k) \o SubSeq(wire, k + 1, Len(wire)) = wire
    BY <1>2, Cut
  <2> QED BY <1>2, <2>1 DEF Cat
<1>4. rio_buf' = p /\ wire' = q /\ Live' = l /\ LastByte' = LastByte
  BY <1>1, <1>3 DEF Refill, Live, LastByte
<1>5. Cat(p, Cat(q, l)) = Cat(Cat(p, q), l)
  BY CatAssoc
<1>6. Cat(rio_buf, Cat(wire, Live)) = Cat(wire, Live)
  <2>1. Cat(wire, Live) \in Seq(Byte)
    BY <1>2, CatAssoc
  <2> QED BY <1>1, <2>1, CatEmpty
<1>7. Cat(rio_buf', Cat(wire', Live')) = Cat(rio_buf, Cat(wire, Live))
  BY <1>3, <1>4, <1>5, <1>6
<1> HIDE DEF Stream, LastByte, Live
<1> QED BY <1>1, <1>4, <1>7, StreamParts

LEMMA EmptyUsrbuf == ASSUME usrbuf' = << >> PROVE UsrbufOK'
<1>1. Len(usrbuf') = 0 /\ MAX_LEN \in Nat /\ MAX_LEN > 2
  BY EmptyType, ConnectionAssumption
<1>2. \A j \in 1 .. Len(usrbuf') : FALSE
  BY <1>1
<1>3. Len(usrbuf') < MAX_LEN - 1
  BY <1>1
<1> QED BY <1>2, <1>3 DEF UsrbufOK, OneMessage

LEMMA NewLastByte ==
  ASSUME TypeOK, NEW line \in Seq(Byte), Returns(line)
  PROVE  got' # << >> /\ LastByte' = <<Last(line)>>
<1> HIDE DEF Byte
<1>1. got \in Seq(Seq(Byte)) /\ got' = Append(got, line)
  BY DEF TypeOK, Returns
<1>2. got' # << >> /\ Len(got') = Len(got) + 1 /\ got'[Len(got) + 1] = line
  BY <1>1, AppendProperties
<1>3. Last(got') = line
  BY <1>2 DEF Last
<1> QED BY <1>2, <1>3 DEF LastByte

LEMMA TakeStep ==
  ASSUME Inv, TakeByte
  PROVE  StreamOK' /\ EndOK' /\ UsrbufOK' /\ LinesOK'
<1> HIDE DEF Byte, Stream, LastByte, Live
<1>0. TypeOK /\ StreamOK /\ EndOK /\ UsrbufOK /\ LinesOK
  BY DEF Inv
<1>1. /\ reading /\ rio_buf # << >> /\ rio_buf' = Tail(rio_buf)
      /\ UNCHANGED <<socket, wire, unsent, sent>>
  BY DEF TakeByte, writer
<1>2. ~ Dry /\ Live' = Live
  BY <1>1 DEF Dry, Live
<1>3. PICK line : line = Append(usrbuf, Head(rio_buf))
  OBVIOUS
<1>4. /\ line \in Seq(Byte) /\ line # << >> /\ Len(line) \in 1 .. MAX_LEN - 1
      /\ Last(line) = rio_buf[1] /\ Last(line) = line[Len(line)]
  BY <1>0, <1>1, <1>3, LineTaken
<1>5. OneMessage(line) /\ \A j \in 1 .. Len(line) - 1 : ~ line[j].newline
  BY <1>0, <1>1, <1>3, <1>4, LineOfOneMessage
<1>6. PICK rest : rest = Cat(Tail(rio_buf), Cat(wire, Live))
  OBVIOUS
<1>7. /\ LastByte \in Seq(Byte) /\ rest \in Seq(Byte)
      /\ Cat(LastByte, usrbuf) \in Seq(Byte) /\ Cat(<<rio_buf[1]>>, rest) \in Seq(Byte)
      /\ Stream = Cat(LastByte, Cat(line, rest))
      /\ Stream = Cat(Cat(LastByte, usrbuf), Cat(<<rio_buf[1]>>, rest))
  BY <1>0, <1>1, <1>3, <1>6, LineComesNext
<1>8. Stream' = Cat(LastByte', Cat(usrbuf', rest))
  BY <1>1, <1>2, <1>6, StreamParts
<1>9. CASE LineEnds(line) /\ Returns(line)
  <2>1. usrbuf' = << >> /\ got' # << >> /\ LastByte' = <<rio_buf[1]>>
    BY <1>0, <1>4, <1>9, NewLastByte DEF Returns
  <2>2. UsrbufOK'
    BY <2>1, EmptyUsrbuf
  <2>3. Last(line).newline \/ Len(line) = MAX_LEN - 1
    BY <1>9 DEF LineEnds
  <2>4. LinesOK'
    BY <1>0, <1>1, <1>2, <1>4, <1>5, <1>7, <1>9, <2>3, NewLine
  <2>5. PICK x \in Seq(Byte), t \in Seq(Byte) :
          x = Cat(LastByte, usrbuf) /\ t = Cat(<<rio_buf[1]>>, rest)
    BY <1>7
  <2>6. Stream = x \o t
    BY <1>7, <2>5 DEF Cat
  <2>7. Stream' = t
    <3>1. Cat(usrbuf', rest) = rest
      BY <1>7, <2>1, CatEmpty
    <3> QED BY <1>8, <2>1, <2>5, <3>1
  <2>8. t # << >>
    <3>1. <<rio_buf[1]>> \in Seq(Byte) /\ Len(<<rio_buf[1]>>) = 1
      <4>1. rio_buf[1] \in Byte
        BY <1>4, Final
      <4> QED BY <4>1
    <3>2. Len(<<rio_buf[1]>> \o rest) = Len(<<rio_buf[1]>>) + Len(rest) /\ Len(rest) \in Nat
      BY <1>7, <3>1, ConcatProperties
    <3>3. Len(t) # 0
      BY <2>5, <3>1, <3>2 DEF Cat
    <3> QED BY <3>3, EmptyType
  <2>9. StreamOK' /\ EndOK'
    BY <1>0, <1>1, <2>1, <2>6, <2>7, <2>8, StreamSuffix
  <2> QED BY <2>2, <2>4, <2>9
<1>10. CASE ~ LineEnds(line) /\ usrbuf' = line /\ UNCHANGED <<reading, m_last_result, got>>
  <2>1. Stream' = Stream
    <3>1. LastByte' = LastByte
      BY <1>10 DEF LastByte
    <3> QED BY <1>7, <1>8, <1>10, <3>1
  <2>2. StreamOK' /\ EndOK'
    <3>1. socket' = "reset" => wire' = << >>
      BY <1>0, <1>1 DEF EndOK
    <3> QED BY <1>0, <1>1, <1>10, <2>1, <3>1, StreamSame
  <2>3. LinesOK'
    BY <1>0, <1>1, <1>2, <1>10, OldLines
  <2>4. UsrbufOK'
    <3>1. Len(line) < MAX_LEN - 1 /\ ~ line[Len(line)].newline
      <4>1. Len(line) # MAX_LEN - 1 /\ ~ Last(line).newline
        BY <1>10 DEF LineEnds
      <4>2. MAX_LEN \in Nat
        BY ConnectionAssumption
      <4>3. Len(line) \in 1 .. MAX_LEN - 1
        BY <1>4
      <4>4. Len(line) < MAX_LEN - 1
        BY <4>1, <4>2, <4>3
      <4> QED BY <1>4, <4>1, <4>4
    <3>2. \A j \in 1 .. Len(line) : ~ line[j].newline
      <4> SUFFICES ASSUME NEW j \in 1 .. Len(line) PROVE ~ line[j].newline
        OBVIOUS
      <4>1. j \in 1 .. Len(line) - 1 \/ j = Len(line)
        BY <1>4
      <4> QED BY <1>5, <3>1, <4>1
    <3>3. reading'
      BY <1>1, <1>10
    <3> QED BY <1>5, <1>10, <3>1, <3>2, <3>3 DEF UsrbufOK
  <2> QED BY <2>2, <2>3, <2>4
<1> QED BY <1>3, <1>9, <1>10 DEF TakeByte

\* What is left of a message that was cut off is a line.
LEMMA EofStep ==
  ASSUME Inv, ReadEof, usrbuf # << >>, Returns(usrbuf)
  PROVE  StreamOK' /\ EndOK' /\ UsrbufOK' /\ LinesOK'
<1> HIDE DEF Byte, Stream, LastByte, Live
<1>0. TypeOK /\ StreamOK /\ LinesOK /\ UsrbufOK
  BY DEF Inv
<1>1. /\ rio_buf = << >> /\ wire = << >> /\ socket = "shut"
      /\ UNCHANGED <<socket, wire, unsent, sent, rio_buf>>
  BY DEF ReadEof, writer
<1>2. /\ usrbuf' = << >> /\ got' # << >> /\ LastByte' = <<Last(usrbuf)>>
  BY <1>0, NewLastByte DEF Returns, TypeOK
<1>3. ~ Dry /\ Dry'
  BY <1>1, <1>2 DEF Dry
<1>4. PICK e \in Seq(Byte) : e = << >>
  BY EmptyType
<1>5. Live = e /\ Live' = e
  BY <1>1, <1>4 DEF Live
<1>6. PICK line \in Seq(Byte) : line = usrbuf
  BY <1>0 DEF TypeOK
<1>7. LastByte \in Seq(Byte)
  BY <1>0, StreamType
<1>8. Cat(e, e) = e /\ Cat(e, Cat(e, e)) = e
  <2>1. Cat(e, e) = e
    BY <1>4, CatEmpty
  <2> QED BY <2>1
<1>9. Stream = Cat(LastByte, Cat(line, e))
  BY <1>1, <1>4, <1>5, <1>6, <1>8, StreamParts
<1>10. Flawless(line)
  BY <1>0, <1>7, <1>9, Part
<1>11. Len(line) \in 1 .. MAX_LEN - 1
  <2>1. Len(line) \in Nat \ {0} /\ Len(line) < MAX_LEN - 1 /\ MAX_LEN \in Nat
    BY <1>0, <1>6, EmptySeq, ConnectionAssumption DEF UsrbufOK
  <2> QED BY <2>1
<1>12. LinesOK'
  <2>1. OneMessage(line) /\ Returns(line) /\ sent' = sent
    BY <1>0, <1>1, <1>6 DEF UsrbufOK
  <2> QED BY <1>0, <1>3, <1>9, <1>11, <2>1, NewLine
<1>13. UsrbufOK'
  BY <1>2, EmptyUsrbuf
<1>14. PICK b \in Byte : b = Last(line) /\ b = line[Len(line)]
  BY <1>6, Final
<1>15. Stream' = <<b>>
  <2>1. PICK l \in Seq(Byte) : l = <<b>>
    <3>1. <<b>> \in Seq(Byte)
      OBVIOUS
    <3> QED BY <3>1
  <2>2. Stream' = Cat(l, Cat(e, Cat(e, Cat(e, e))))
    BY <1>1, <1>2, <1>4, <1>5, <1>6, <1>14, <2>1, StreamParts
  <2>3. Cat(l, e) = l
    BY <1>4, CatEmpty
  <2> QED BY <1>8, <2>1, <2>2, <2>3
<1>16. StreamOK'
  <2>1. Len(line) \in 1 .. Len(line)
    BY <1>11
  <2>2. Genuine(b, sent)
    BY <1>10, <1>14, <2>1 DEF Flawless
  <2>3. Len(<<b>>) = 1 /\ <<b>>[1] = b
    OBVIOUS
  <2>4. Genuine(b, sent')
    BY <1>1, <2>2
  <2>5. PICK u : u = <<b>> /\ Len(u) = 1 /\ u[1] = b
    BY <2>3
  <2>6. Chain(u)
    BY <2>5 DEF Chain
  <2>7. \A i \in 1 .. Len(u) : Genuine(u[i], sent')
    BY <2>4, <2>5
  <2> QED BY <1>2, <1>15, <2>5, <2>6, <2>7 DEF StreamOK, Flawless, Chain
<1>17. EndOK'
  BY <1>1 DEF EndOK
<1> QED BY <1>12, <1>13, <1>16, <1>17

\* What is under way is lost when the connection breaks.
LEMMA LossStep ==
  ASSUME Inv, UNCHANGED <<sent, got>>, socket' # "open",
         \/ /\ UNCHANGED <<usrbuf, rio_buf>>
            /\ wire' = << >> \/ (wire' = wire /\ socket' # "reset")
         \/ /\ rio_buf = << >> /\ wire = << >> /\ socket # "open"
            /\ usrbuf' = << >> /\ UNCHANGED <<rio_buf, wire>>
  PROVE  StreamOK' /\ EndOK'
<1> HIDE DEF Byte, Stream, LastByte, Live
<1>0. TypeOK /\ StreamOK
  BY DEF Inv
<1>1. PICK e \in Seq(Byte) : e = << >>
  BY EmptyType
<1>2. LastByte' = LastByte /\ Live' = e
  BY <1>1 DEF LastByte, Live
<1>3. PICK a \in Seq(Byte), b \in Seq(Byte), r \in Seq(Byte), w \in Seq(Byte), l \in Seq(Byte) :
        a = LastByte /\ b = usrbuf /\ r = rio_buf /\ w = wire /\ l = Live
  BY <1>0, StreamType DEF TypeOK
<1>4. Stream = Cat(a, Cat(b, Cat(r, Cat(w, l))))
  BY <1>3, StreamParts
<1>5. Stream' = Cat(a, Cat(usrbuf', Cat(rio_buf', Cat(wire', e))))
  BY <1>2, <1>3, StreamParts
<1>6. \E t \in Seq(Byte), y \in Seq(Byte) : Stream' = t /\ Stream = Cat(t, y)
  <2>1. CASE UNCHANGED <<usrbuf, rio_buf>> /\ wire' = << >>
    <3>1. Stream' = Cat(a, Cat(b, r))
      <4>1. Cat(wire', e) = e /\ Cat(r, e) = r
        BY <1>1, <2>1, CatEmpty
      <4> QED BY <1>3, <1>5, <2>1, <4>1
    <3>2. PICK y \in Seq(Byte) : y = Cat(w, l)
      BY CatAssoc
    <3>3. Cat(a, Cat(b, Cat(r, y))) = Cat(Cat(a, Cat(b, r)), y) /\ Cat(a, Cat(b, r)) \in Seq(Byte)
      BY CatAssoc
    <3> QED BY <1>4, <3>1, <3>2, <3>3
  <2>2. CASE UNCHANGED <<usrbuf, rio_buf>> /\ wire' = wire
    <3>1. Stream' = Cat(a, Cat(b, Cat(r, w)))
      <4>1. Cat(w, e) = w
        BY <1>1, CatEmpty
      <4> QED BY <1>3, <1>5, <2>2, <4>1
    <3>2. Cat(a, Cat(b, Cat(r, Cat(w, l)))) = Cat(Cat(a, Cat(b, Cat(r, w))), l)
          /\ Cat(a, Cat(b, Cat(r, w))) \in Seq(Byte)
      BY CatAssoc
    <3> QED BY <1>4, <3>1, <3>2
  <2>3. CASE rio_buf = << >> /\ wire = << >> /\ socket # "open"
             /\ usrbuf' = << >> /\ UNCHANGED <<rio_buf, wire>>
    <3>1. r = e /\ w = e /\ l = e /\ usrbuf' = e /\ rio_buf' = e /\ wire' = e
      BY <1>1, <1>3, <2>3 DEF Live
    <3>2. Cat(e, e) = e /\ Cat(a, e) = a /\ Cat(b, e) = b
      BY <1>1, CatEmpty
    <3>3. Stream' = a /\ Stream = Cat(a, b)
      BY <1>4, <1>5, <3>1, <3>2
    <3> QED BY <3>3
  <2> QED BY <2>1, <2>2, <2>3
<1>7. PICK t \in Seq(Byte), y \in Seq(Byte) : Stream' = t /\ Stream = t \o y
  BY <1>6 DEF Cat
<1>8. socket' = "reset" => wire' = << >>
  BY DEF Inv, EndOK
<1> QED BY <1>0, <1>7, <1>8, StreamPrefix

LEMMA InvInit == Init => Inv
<1> SUFFICES ASSUME Init PROVE Inv
  OBVIOUS
<1> USE ConnectionAssumption DEF Init
<1> HIDE DEF Byte
<1>1. PICK e \in Seq(Byte) : e = << >> /\ Len(e) = 0
  BY EmptyType
<1>2. wire = e /\ unsent = e /\ usrbuf = e /\ rio_buf = e /\ sent = << >> /\ got = << >>
  BY <1>1
<1>3. TypeOK
  <2>1. sent \in Seq(Lengths) /\ Len(sent) = 0 /\ got \in Seq(Seq(Byte)) /\ DOMAIN got = {}
    BY <1>2
  <2>2. Len(wire) <= SocketRoom /\ Len(rio_buf) <= RIO_BUFSIZE /\ Len(usrbuf) < MAX_LEN
    BY <1>1, <1>2
  <2>3. wire \in Seq(Byte) /\ unsent \in Seq(Byte) /\ usrbuf \in Seq(Byte) /\ rio_buf \in Seq(Byte)
    BY <1>2
  <2>4. Len(sent) <= MaxMessages /\ \A i \in DOMAIN got : Len(got[i]) \in 1 .. MAX_LEN - 1
    BY <2>1
  <2> QED BY <2>1, <2>2, <2>3, <2>4 DEF TypeOK
<1>4. Stream = e
  <2>1. LastByte = e /\ Live = e
    BY <1>1, <1>2 DEF LastByte, Live
  <2>2. Cat(e, e) = e
    BY <1>1, CatEmpty
  <2> HIDE DEF Stream, LastByte, Live
  <2>3. Stream = Cat(e, Cat(e, Cat(e, Cat(e, e))))
    BY <1>2, <2>1, StreamParts
  <2> QED BY <2>2, <2>3
<1>5. StreamOK /\ EndOK
  <2> HIDE DEF Stream
  <2>1. \A i \in 1 .. Len(e) : FALSE
    BY <1>1
  <2>2. \A i \in 1 .. Len(e) - 1 : FALSE
    BY <1>1
  <2> QED BY <1>1, <1>2, <1>4, <2>1, <2>2 DEF StreamOK, EndOK, Flawless, Chain
<1>6. UsrbufOK
  <2>1. \A i \in 1 .. Len(usrbuf) : FALSE
    BY <1>1, <1>2
  <2>2. Len(usrbuf) < MAX_LEN - 1
    BY <1>1, <1>2
  <2> QED BY <1>1, <1>2, <2>1, <2>2 DEF UsrbufOK, OneMessage
<1>7. LinesOK
  <2>1. \A i \in 1 .. Len(got) : FALSE
    BY <1>2
  <2> QED BY <2>1 DEF LinesOK
<1> QED BY <1>3, <1>5, <1>6, <1>7 DEF Inv

LEMMA InvStep == Inv /\ [Next]_vars => Inv'
<1> SUFFICES ASSUME Inv, [Next]_vars PROVE Inv'
  OBVIOUS
<1>types. TypeOK'
  <2>1. TypeOK /\ UsrbufOK
    BY DEF Inv
  <2> QED BY <2>1, TypeStep
<1> SUFFICES StreamOK' /\ EndOK' /\ UsrbufOK' /\ LinesOK'
  BY <1>types DEF Inv
<1> HIDE DEF Byte, Stream, LastByte, Live, StreamOK, EndOK, UsrbufOK, LinesOK, Dry
<1> USE DEF writer, reader, object
<1>0. /\ TypeOK /\ StreamOK /\ EndOK /\ UsrbufOK /\ LinesOK
      /\ socket = "reset" => wire = << >>
  BY DEF Inv, EndOK
<1>1. ASSUME NEW len \in Lengths, Send(len) PROVE StreamOK' /\ EndOK' /\ UsrbufOK' /\ LinesOK'
  <2>1. LinesOK'
    BY <1>0, <1>1, OldLinesSend
  <2>2. UsrbufOK'
    BY <1>0, <1>1 DEF Send, UsrbufOK, OneMessage
  <2>3. CASE socket = "open"
    BY <1>0, <1>1, <2>1, <2>2, <2>3, StreamMore
  <2>4. CASE socket # "open"
    <3>1. /\ Stream' = Stream /\ UNCHANGED <<got, socket, wire>>
          /\ sent' = Append(sent, len) /\ sent \in Seq(Lengths)
      BY <1>0, <1>1, <2>4 DEF Send, Stream, Coming, LastByte, Live, TypeOK
    <3>2. StreamOK'
      <4>1. \A i \in 1 .. Len(Stream) : Genuine(Stream[i], sent')
        BY <1>0, <3>1, MoreSent DEF StreamOK, Flawless
      <4> QED BY <1>0, <3>1, <4>1 DEF StreamOK, Flawless, Chain
    <3>3. EndOK'
      BY <1>0, <2>4, <3>1 DEF EndOK
    <3> QED BY <2>1, <2>2, <3>2, <3>3
  <2> QED BY <2>3, <2>4
<1>2. ASSUME NEW k \in 1 .. SocketRoom, Write(k)
      PROVE  StreamOK' /\ EndOK' /\ UsrbufOK' /\ LinesOK'
  <2>1. UNCHANGED <<got, sent, usrbuf, reading, socket>> /\ socket = "open"
    BY <1>2 DEF Write
  <2>2. Dry => Dry'
    BY <2>1 DEF Dry
  <2>3. Stream' = Stream
    BY <1>0, <1>2, WriteStep
  <2>4. StreamOK' /\ EndOK'
    BY <1>0, <2>1, <2>3, StreamSame
  <2> QED BY <1>0, <2>1, <2>2, <2>4, QuietStep
<1>3. CASE WriteFails
  <2>1. UNCHANGED <<got, sent, usrbuf, reading, socket, wire, rio_buf>> /\ socket = "reset"
    BY <1>3 DEF WriteFails
  <2>2. (Dry => Dry') /\ Stream' = Stream
    BY <2>1 DEF Dry, Stream, Coming, LastByte, Live
  <2>3. StreamOK' /\ EndOK'
    BY <1>0, <2>1, <2>2, StreamSame
  <2> QED BY <1>0, <2>1, <2>2, <2>3, QuietStep
<1>4. CASE Shut \/ Reset
  <2>1. /\ UNCHANGED <<got, sent, usrbuf, reading, rio_buf>> /\ socket' # "open"
        /\ wire' = << >> \/ (wire' = wire /\ socket' # "reset")
    BY <1>4 DEF Shut, Reset
  <2>2. Dry => Dry'
    BY <2>1 DEF Dry
  <2>3. StreamOK' /\ EndOK'
    BY <2>1, LossStep
  <2> QED BY <1>0, <2>1, <2>2, <2>3, QuietStep
<1>5. CASE Receive
  <2>1. UNCHANGED <<got, sent, usrbuf, socket, wire, rio_buf, unsent>> /\ reading' = TRUE
    BY <1>5 DEF Receive
  <2>2. (Dry => Dry') /\ Stream' = Stream
    BY <2>1 DEF Dry, Stream, Coming, LastByte, Live
  <2>3. StreamOK' /\ EndOK'
    BY <1>0, <2>1, <2>2, StreamSame
  <2> QED BY <1>0, <2>1, <2>2, <2>3, QuietStep
<1>6. ASSUME NEW k \in 1 .. RIO_BUFSIZE, Refill(k)
      PROVE  StreamOK' /\ EndOK' /\ UsrbufOK' /\ LinesOK'
  <2>1. UNCHANGED <<got, sent, usrbuf, reading, socket>> /\ socket # "reset"
    BY <1>6 DEF Refill
  <2>2. ~ Dry
    <3>1. wire # << >>
      <4>1. k <= Len(wire) /\ wire \in Seq(Byte)
        BY <1>0, <1>6 DEF Refill, TypeOK
      <4>2. Len(wire) # 0
        BY <4>1
      <4> QED BY <4>2, EmptyType
    <3> QED BY <3>1 DEF Dry
  <2>3. Stream' = Stream
    BY <1>0, <1>6, RefillStep
  <2>4. StreamOK' /\ EndOK'
    BY <1>0, <2>1, <2>3, StreamSame
  <2> QED BY <1>0, <2>1, <2>2, <2>4, QuietStep
<1>7. CASE TakeByte
  BY <1>7, TakeStep
<1>8. CASE ReadEof
  <2>1. CASE usrbuf = << >> /\ Fails
    <3>1. /\ UNCHANGED <<got, sent, socket, wire, rio_buf, unsent>> /\ usrbuf' = usrbuf
          /\ usrbuf' = << >>
      BY <1>8, <2>1 DEF ReadEof, Fails
    <3>2. (Dry => Dry') /\ Stream' = Stream
      BY <3>1 DEF Dry, Stream, Coming, LastByte, Live
    <3>3. StreamOK' /\ EndOK'
      BY <1>0, <3>1, <3>2, StreamSame
    <3> QED BY <1>0, <3>1, <3>2, <3>3, QuietStep
  <2>2. CASE usrbuf # << >> /\ Returns(usrbuf)
    BY <1>8, <2>2, EofStep
  <2> QED BY <1>8, <2>1, <2>2 DEF ReadEof
<1>9. CASE ReadError
  <2>1. /\ UNCHANGED <<got, sent, socket, wire, rio_buf>> /\ usrbuf' = << >>
        /\ rio_buf = << >> /\ socket = "reset"
    BY <1>9 DEF ReadError, Fails
  <2>2. Dry => Dry'
    BY <2>1 DEF Dry
  <2>3. StreamOK' /\ EndOK'
    BY <1>0, <2>1, LossStep
  <2> QED BY <1>0, <2>1, <2>2, <2>3, QuietStep
<1>10. CASE Destructor
  <2>1. UNCHANGED <<got, sent, usrbuf, reading, rio_buf, unsent>>
    BY <1>10 DEF Destructor
  <2>2. CASE socket' = "reset" /\ wire' = << >>
    <3>1. Dry => Dry'
      BY <2>1, <2>2 DEF Dry
    <3>2. StreamOK' /\ EndOK'
      BY <2>1, <2>2, LossStep
    <3> QED BY <1>0, <2>1, <3>1, <3>2, QuietStep
  <2>3. CASE UNCHANGED <<socket, wire>>
    <3>1. (Dry => Dry') /\ Stream' = Stream
      BY <2>1, <2>3 DEF Dry, Stream, Coming, LastByte, Live
    <3>2. StreamOK' /\ EndOK'
      BY <1>0, <2>1, <2>3, <3>1, StreamSame
    <3> QED BY <1>0, <2>1, <3>1, <3>2, QuietStep
  <2> QED BY <1>10, <2>2, <2>3 DEF Destructor
<1>11. CASE UNCHANGED vars
  <2>1. UNCHANGED <<got, sent, usrbuf, reading, socket, wire, rio_buf, unsent>>
    BY <1>11 DEF vars
  <2>2. (Dry => Dry') /\ Stream' = Stream
    BY <2>1 DEF Dry, Stream, Coming, LastByte, Live
  <2>3. StreamOK' /\ EndOK'
    BY <1>0, <2>1, <2>2, StreamSame
  <2> QED BY <1>0, <2>1, <2>2, <2>3, QuietStep
<1> QED
  BY <1>1, <1>2, <1>3, <1>4, <1>5, <1>6, <1>7, <1>8, <1>9, <1>10, <1>11
  DEF Next, WriterSteps, ReceiveSteps, Finished

-----------------------------------------------------------------------------
(***************************************************************************)
(* The theorems.                                                           *)
(***************************************************************************)
LEMMA InvAlways == Spec => []Inv
  BY InvInit, InvStep, PTL DEF Spec

\* No buffer of rio_writen, rio_readlineb and rio_read is overrun, and every
\* variable keeps its type, whatever the sizes and the cuts.
THEOREM TypeCorrect == Spec => []TypeOK
<1>1. Inv => TypeOK
  BY DEF Inv
<1> QED BY <1>1, InvAlways, PTL

LEMMA LinesAreMessages == Inv => ShortMessagesWhole
<1> SUFFICES ASSUME Inv PROVE ShortMessagesWhole
  OBVIOUS
<1> HIDE DEF Byte
<1>1. /\ got \in Seq(Seq(Byte)) /\ DOMAIN got = 1 .. Len(got)
      /\ \A i \in DOMAIN got : Len(got[i]) \in 1 .. MAX_LEN - 1
  BY LenProperties DEF Inv, TypeOK
<1> SUFFICES ASSUME NEW i \in 1 .. Len(got), NEW line \in Seq(Byte), line = got[i]
             PROVE  /\ \A j \in DOMAIN line : line[j].msg = line[1].msg
                    /\ sent[line[1].msg] < MAX_LEN =>
                         line[1].at = 1 /\ (Last(line).newline \/ (i = Len(got) /\ socket # "open"))
  <2>1. \A n \in 1 .. Len(got) : got[n] \in Seq(Byte)
    BY <1>1, ElementOfSeq
  <2> QED BY <1>1, <2>1 DEF ShortMessagesWhole, ReceivedWhole, MessageOf
<1>2. GoodLine(line, sent, i = Len(got) /\ Dry)
  BY DEF Inv, LinesOK
<1>3. DOMAIN line = 1 .. Len(line) /\ Len(line) \in 1 .. MAX_LEN - 1
  BY <1>1, LenProperties
<1>4. \A j \in DOMAIN line : line[j].msg = line[1].msg
  BY <1>2, <1>3 DEF GoodLine, OneMessage
<1>5. sent[line[1].msg] < MAX_LEN =>
        line[1].at = 1 /\ (Last(line).newline \/ (i = Len(got) /\ socket # "open"))
  BY <1>2 DEF GoodLine, Dry
<1> QED BY <1>4, <1>5

\* A message shorter than MAX_LEN is received whole and by itself, for every
\* MAX_LEN, every buffer, all lengths and however the bytes are cut.
THEOREM WholeMessages == Spec => []ShortMessagesWhole
  BY InvAlways, LinesAreMessages, PTL

-----------------------------------------------------------------------------
(***************************************************************************)
(* FlattenSeq by induction.  The property is a set of numbers, because the *)
(* provers cannot instantiate a theorem about an operator.                 *)
(***************************************************************************)
\* Every set of natural numbers has a least element.
LEMMA Least == ASSUME NEW T, T \subseteq Nat, T # {}
               PROVE  \E m \in T : \A k \in T : m <= k
<1>1. IsWellFoundedOn(OpToRel(<, Nat), Nat)
  BY NatLessThanWellFounded
<1>2. \E x \in T : \A y \in T : ~ (<<y, x>> \in OpToRel(<, Nat))
  BY <1>1, WFMin
<1>3. PICK x \in T : \A y \in T : ~ (<<y, x>> \in OpToRel(<, Nat))
  BY <1>2
<1>4. ASSUME NEW y \in T
      PROVE  x <= y
  <2>1. x \in Nat /\ y \in Nat
    OBVIOUS
  <2>2. <<y, x>> \in Nat \X Nat
    BY <2>1
  <2>3. y < x => <<y, x>> \in OpToRel(<, Nat)
    BY <2>2 DEF OpToRel
  <2>4. ~ (y < x)
    BY <1>3, <2>3, Zenon
  <2> QED
    BY <2>1, <2>4
<1> QED
  BY <1>4

\* Induction, for the set of the numbers that have a property.
LEMMA Induction == ASSUME NEW T, 0 \in T, \A n \in Nat : n \in T => n + 1 \in T
                   PROVE  \A n \in Nat : n \in T
<1> SUFFICES ASSUME NEW c \in Nat, c \notin T
             PROVE  FALSE
  OBVIOUS
<1> DEFINE S == Nat \ T
<1>1. S \subseteq Nat /\ S # {}
  OBVIOUS
<1>2. PICK m \in S : \A k \in S : m <= k
  BY <1>1, Least
<1>3. m \in Nat /\ m # 0 /\ m \notin T
  OBVIOUS
<1>4. m - 1 \in Nat /\ (m - 1) + 1 = m /\ ~ (m <= m - 1)
  BY <1>3
<1>5. m - 1 \in T
  BY <1>2, <1>4
<1> QED
  BY <1>3, <1>4, <1>5

\* The function that FlattenSeq defines: the first i sequences, one after the
\* other.
Flat(seqs) == CHOOSE flatten : flatten = [i \in 1 .. Len(seqs) |->
                IF i = 1 THEN seqs[i] ELSE flatten[i - 1] \o seqs[i]]

\* FlattenSeq is its last value.
LEMMA FlattenIsFlat ==
  ASSUME NEW seqs
  PROVE  FlattenSeq(seqs) = IF Len(seqs) = 0 THEN seqs ELSE Flat(seqs)[Len(seqs)]
BY DEF FlattenSeq, Flat

\* There is such a function: one for the first N sequences gives one for N + 1.
LEMMA FlatExists ==
  ASSUME NEW seqs, Len(seqs) \in Nat
  PROVE  Flat(seqs) = [i \in 1 .. Len(seqs) |->
                         IF i = 1 THEN seqs[i] ELSE Cat(Flat(seqs)[i - 1], seqs[i])]
<1> DEFINE Is(g, N) == g = [i \in 1 .. N |-> IF i = 1 THEN seqs[i] ELSE Cat(g[i - 1], seqs[i])]
           T == {N \in Nat : \E g : Is(g, N)}
<1>1. 0 \in T
  <2>1. Is([i \in 1 .. 0 |-> seqs[i]], 0)
    OBVIOUS
  <2> HIDE DEF Is
  <2> QED
    BY <2>1
<1>2. ASSUME NEW N \in Nat, N \in T
      PROVE  N + 1 \in T
  <2>1. PICK g : Is(g, N)
    BY <1>2
  <2> DEFINE last == IF N = 0 THEN seqs[1] ELSE Cat(g[N], seqs[N + 1])
             h == [i \in 1 .. N + 1 |-> IF i = N + 1 THEN last ELSE g[i]]
  <2>2. ASSUME NEW i \in 1 .. N + 1
        PROVE  h[i] = IF i = 1 THEN seqs[i] ELSE Cat(h[i - 1], seqs[i])
    <3> HIDE DEF last
    <3>1. CASE i = N + 1
      <4>1. CASE N = 0
        BY <3>1, <4>1 DEF last
      <4>2. CASE N # 0
        <5>1. i - 1 = N /\ i # 1 /\ N \in 1 .. N + 1 /\ N # N + 1
          BY <3>1, <4>2
        <5>2. h[N] = g[N]
          BY <5>1
        <5> QED
          BY <3>1, <4>2, <5>1, <5>2 DEF last
      <4> QED
        BY <4>1, <4>2
    <3>2. CASE i # N + 1
      <4>1. i \in 1 .. N /\ h[i] = g[i]
        BY <3>2
      <4>2. g[i] = IF i = 1 THEN seqs[i] ELSE Cat(g[i - 1], seqs[i])
        BY <2>1, <4>1
      <4>3. CASE i = 1
        BY <4>1, <4>2, <4>3
      <4>4. CASE i # 1
        <5>1. i - 1 \in 1 .. N + 1 /\ i - 1 # N + 1
          BY <4>1, <4>4
        <5>2. h[i - 1] = g[i - 1]
          BY <5>1
        <5> QED
          BY <4>1, <4>2, <4>4, <5>2
      <4> QED
        BY <4>3, <4>4
    <3> QED
      BY <3>1, <3>2
  <2>3. h = [i \in 1 .. N + 1 |-> h[i]]
    OBVIOUS
  <2> HIDE DEF h
  <2>4. Is(h, N + 1)
    BY <2>2, <2>3
  <2> HIDE DEF Is
  <2> QED
    BY <2>4
<1>3. Len(seqs) \in T
  <2> HIDE DEF T
  <2> QED
    BY <1>1, <1>2, Induction
<1>4. \E g : Is(g, Len(seqs))
  BY <1>3
<1> QED
  BY <1>4 DEF Flat, Cat

\* The first parts of two sequences that begin alike are alike.
LEMMA FlatSame ==
  ASSUME NEW s, NEW t, Len(s) \in Nat, Len(t) \in Nat, NEW n \in Nat, n <= Len(s), n <= Len(t),
         \A i \in 1 .. n : s[i] = t[i]
  PROVE  \A i \in 1 .. n : Flat(s)[i] = Flat(t)[i]
<1> DEFINE T == {i \in Nat : i \in 1 .. n => Flat(s)[i] = Flat(t)[i]}
<1>1. 0 \in T
  OBVIOUS
<1>2. ASSUME NEW i \in Nat, i \in T
      PROVE  i + 1 \in T
  <2> SUFFICES ASSUME i + 1 \in 1 .. n
               PROVE  Flat(s)[i + 1] = Flat(t)[i + 1]
    OBVIOUS
  <2>1. i + 1 \in 1 .. Len(s) /\ i + 1 \in 1 .. Len(t) /\ (i + 1) - 1 = i
    OBVIOUS
  <2>2. /\ Flat(s)[i + 1] = IF i + 1 = 1 THEN s[i + 1] ELSE Cat(Flat(s)[i], s[i + 1])
        /\ Flat(t)[i + 1] = IF i + 1 = 1 THEN t[i + 1] ELSE Cat(Flat(t)[i], t[i + 1])
    BY <2>1, FlatExists
  <2>3. s[i + 1] = t[i + 1]
    OBVIOUS
  <2>4. CASE i = 0
    BY <2>2, <2>3, <2>4
  <2>5. CASE i # 0
    <3>1. i \in 1 .. n
      BY <2>5
    <3>2. Flat(s)[i] = Flat(t)[i]
      BY <1>2, <3>1
    <3> QED
      BY <2>2, <2>3, <2>5, <3>2
  <2> QED
    BY <2>4, <2>5
<1> HIDE DEF T
<1>3. \A i \in Nat : i \in T
  BY <1>1, <1>2, Induction
<1> QED
  BY <1>3 DEF T

LEMMA FlatType ==
  ASSUME NEW s \in Seq(Seq(Byte))
  PROVE  \A i \in 1 .. Len(s) : Flat(s)[i] \in Seq(Byte)
<1> HIDE DEF Byte
<1>0. Len(s) \in Nat /\ \A i \in 1 .. Len(s) : s[i] \in Seq(Byte)
  BY ElementOfSeq
<1> DEFINE T == {i \in Nat : i \in 1 .. Len(s) => Flat(s)[i] \in Seq(Byte)}
<1>1. 0 \in T
  OBVIOUS
<1>2. ASSUME NEW i \in Nat, i \in T
      PROVE  i + 1 \in T
  <2> SUFFICES ASSUME i + 1 \in 1 .. Len(s)
               PROVE  Flat(s)[i + 1] \in Seq(Byte)
    OBVIOUS
  <2>1. Flat(s)[i + 1] = IF i + 1 = 1 THEN s[i + 1] ELSE Cat(Flat(s)[(i + 1) - 1], s[i + 1])
    BY <1>0, FlatExists
  <2>2. s[i + 1] \in Seq(Byte) /\ (i + 1) - 1 = i
    BY <1>0
  <2>3. CASE i = 0
    BY <2>1, <2>2, <2>3
  <2>4. CASE i # 0
    <3>1. i \in 1 .. Len(s)
      BY <1>0, <2>4
    <3>2. Flat(s)[i] \in Seq(Byte)
      BY <1>2, <3>1
    <3>3. Cat(Flat(s)[i], s[i + 1]) \in Seq(Byte)
      BY <2>2, <3>2, CatAssoc
    <3> QED
      BY <2>1, <2>2, <2>4, <3>3
  <2> QED
    BY <2>3, <2>4
<1> HIDE DEF T
<1>3. \A i \in Nat : i \in T
  BY <1>1, <1>2, Induction
<1> QED
  BY <1>0, <1>3 DEF T

LEMMA FlattenType ==
  ASSUME NEW s \in Seq(Seq(Byte))
  PROVE  FlattenSeq(s) \in Seq(Byte)
<1> HIDE DEF Byte
<1>1. CASE Len(s) = 0
  <2>1. s = << >>
    BY <1>1, EmptySeq
  <2> QED
    BY <1>1, <2>1, FlattenIsFlat, EmptyType
<1>2. CASE Len(s) # 0
  <2>1. Len(s) \in 1 .. Len(s)
    BY <1>2
  <2> QED
    BY <1>2, <2>1, FlatType, FlattenIsFlat
<1> QED
  BY <1>1, <1>2

\* A sequence more at the end is put at the end.
LEMMA FlattenAppend ==
  ASSUME NEW s \in Seq(Seq(Byte)), NEW x \in Seq(Byte), NEW t, t = Append(s, x)
  PROVE  FlattenSeq(t) = Cat(FlattenSeq(s), x)
<1> HIDE DEF Byte
<1>1. /\ t \in Seq(Seq(Byte)) /\ Len(t) = Len(s) + 1 /\ t[Len(s) + 1] = x
      /\ \A i \in 1 .. Len(s) : t[i] = s[i]
  BY AppendProperties
<1>2. Len(s) \in Nat /\ Len(t) \in Nat /\ Len(t) # 0 /\ Len(s) + 1 \in 1 .. Len(t)
      /\ (Len(s) + 1) - 1 = Len(s) /\ Len(s) <= Len(t)
  BY <1>1
<1>3. FlattenSeq(t) = Flat(t)[Len(s) + 1]
  <2>1. FlattenSeq(t) = Flat(t)[Len(t)]
    BY <1>2, FlattenIsFlat
  <2> QED
    BY <1>1, <2>1
<1>4. Flat(t)[Len(s) + 1] = IF Len(s) + 1 = 1 THEN x ELSE Cat(Flat(t)[Len(s)], x)
  <2>1. Flat(t) = [i \in 1 .. Len(t) |->
                         IF i = 1 THEN t[i] ELSE Cat(Flat(t)[i - 1], t[i])]
    BY <1>2, FlatExists
  <2>2. Flat(t)[Len(s) + 1] = IF Len(s) + 1 = 1 THEN t[Len(s) + 1]
                              ELSE Cat(Flat(t)[(Len(s) + 1) - 1], t[Len(s) + 1])
    BY <1>2, <2>1, Zenon
  <2> QED
    BY <1>1, <1>2, <2>2, Zenon
<1>5. CASE Len(s) = 0
  <2>1. s = << >>
    BY <1>5, EmptySeq
  <2>2. FlattenSeq(s) = << >>
    BY <1>5, <2>1, FlattenIsFlat
  <2>3. << >> \o x = x
    BY NoBytes
  <2>4. Len(s) + 1 = 1
    BY <1>5
  <2> QED
    BY <1>3, <1>4, <2>2, <2>3, <2>4, Zenon DEF Cat
<1>6. CASE Len(s) # 0
  <2>1. Len(s) \in 1 .. Len(s) /\ Len(s) + 1 # 1
    BY <1>2, <1>6
  <2>2. \A i \in 1 .. Len(s) : Flat(s)[i] = Flat(t)[i]
    <3>1. \A i \in 1 .. Len(s) : s[i] = t[i]
      BY <1>1
    <3>2. Len(s) <= Len(s)
      BY <1>2
    <3> QED
      BY ZenonT(60), <1>2, <3>1, <3>2, FlatSame
  <2>3. FlattenSeq(s) = Flat(s)[Len(s)]
    BY <1>6, FlattenIsFlat
  <2> QED
    BY <1>3, <1>4, <2>1, <2>2, <2>3, Zenon
<1> QED
  BY <1>5, <1>6

-----------------------------------------------------------------------------
(***************************************************************************)
(* No byte is lost on the way.  Given is what send was called with, one    *)
(* encoded message after the other; Returned, what receive was given;      *)
(* Unread, what lies between the two on the reader's side.                 *)
(***************************************************************************)
Given == [n \in DOMAIN sent |-> Line(n, sent[n])]
Returned == FlattenSeq(got)
Unread == Cat(usrbuf, Cat(rio_buf, wire))

LEMMA GivenType ==
  ASSUME TypeOK
  PROVE  /\ Given \in Seq(Seq(Byte)) /\ Len(Given) = Len(sent) /\ Len(sent) \in Nat
         /\ DOMAIN sent = 1 .. Len(sent)
         /\ \A n \in 1 .. Len(sent) : Given[n] = Line(n, sent[n])
<1> HIDE DEF Byte
<1>1. /\ sent \in Seq(Lengths) /\ Len(sent) \in Nat /\ Len(sent) <= MaxMessages
      /\ DOMAIN sent = 1 .. Len(sent) /\ \A n \in 1 .. Len(sent) : sent[n] \in Lengths
  BY ElementOfSeq DEF TypeOK
<1>2. ASSUME NEW n \in 1 .. Len(sent)
      PROVE  Line(n, sent[n]) \in Seq(Byte)
  <2>1. sent[n] \in Nat \ {0}
    <3>1. sent[n] \in Lengths
      BY <1>1
    <3>2. Lengths \subseteq Nat \ {0, 1}
      BY ConnectionAssumption
    <3> QED
      BY <3>1, <3>2
  <2>2. n \in 1 .. MaxMessages
    <3>1. MaxMessages \in Nat
      BY ConnectionAssumption
    <3> QED
      BY <1>1, <3>1
  <2> QED
    BY <2>1, <2>2, LineType
<1> HIDE DEF Line
<1>3. Given = [n \in 1 .. Len(sent) |-> Line(n, sent[n])]
  BY <1>1 DEF Given
<1>4. \A n \in 1 .. Len(sent) : Given[n] = Line(n, sent[n])
  BY <1>3
<1>5. Given \in Seq(Seq(Byte)) /\ Len(Given) = Len(sent)
  BY <1>1, <1>2, <1>3
<1> QED
  BY <1>1, <1>4, <1>5

\* One more message is given to send.
LEMMA GivenMore ==
  ASSUME TypeOK, TypeOK', NEW len \in Lengths, Send(len)
  PROVE  Given' = Append(Given, unsent')
<1> HIDE DEF Byte, Line
<1>1. /\ sent \in Seq(Lengths) /\ Len(sent) \in Nat /\ sent' = Append(sent, len)
      /\ unsent' = Line(Len(sent) + 1, len)
  BY DEF TypeOK, Send
<1>2. /\ sent' \in Seq(Lengths) /\ Len(sent') = Len(sent) + 1 /\ sent'[Len(sent) + 1] = len
      /\ \A n \in 1 .. Len(sent) : sent'[n] = sent[n]
  BY <1>1, AppendProperties
<1>3. DOMAIN sent' = 1 .. Len(sent) + 1
  BY <1>2, LenProperties
<1>4. /\ Given \in Seq(Seq(Byte)) /\ Len(Given) = Len(sent)
      /\ \A n \in 1 .. Len(sent) : Given[n] = Line(n, sent[n])
  BY GivenType
<1>5. Append(Given, unsent') \in Seq(Seq(Byte))
      /\ Len(Append(Given, unsent')) = Len(sent) + 1
      /\ Append(Given, unsent')[Len(sent) + 1] = unsent'
      /\ \A n \in 1 .. Len(sent) : Append(Given, unsent')[n] = Given[n]
  <2>1. unsent' \in Seq(Byte)
    BY DEF TypeOK
  <2> HIDE DEF Given
  <2> QED
    BY <1>4, <2>1, AppendProperties
<1>6. Given' = [n \in 1 .. Len(sent) + 1 |-> Line(n, sent'[n])]
  BY <1>3 DEF Given
<1> DEFINE more == Append(Given, unsent')
<1> HIDE DEF Given, more
<1>7. ASSUME NEW n \in 1 .. Len(sent) + 1
      PROVE  Line(n, sent'[n]) = more[n]
  <2>1. CASE n = Len(sent) + 1
    BY <1>1, <1>2, <1>5, <2>1 DEF more
  <2>2. CASE n # Len(sent) + 1
    <3>1. n \in 1 .. Len(sent)
      BY <1>1, <2>2
    <3>2. more[n] = Given[n]
      BY <1>5, <3>1 DEF more
    <3> QED
      BY <1>2, <1>4, <3>1, <3>2
  <2> QED
    BY <2>1, <2>2
<1>8. more = [n \in 1 .. Len(sent) + 1 |-> more[n]]
  <2>1. more \in Seq(Seq(Byte)) /\ Len(more) = Len(sent) + 1
    BY <1>5 DEF more
  <2> QED
    BY <2>1
<1>9. Given' = more
  BY <1>6, <1>7, <1>8
<1> QED
  BY <1>9 DEF more

LEMMA UnreadType ==
  ASSUME TypeOK
  PROVE  /\ Returned \in Seq(Byte) /\ Unread \in Seq(Byte) /\ AllSent \in Seq(Byte)
         /\ Arrived = Cat(Returned, Unread) /\ Arrived \in Seq(Byte)
<1> HIDE DEF Byte
<1>1. got \in Seq(Seq(Byte)) /\ usrbuf \in Seq(Byte) /\ rio_buf \in Seq(Byte) /\ wire \in Seq(Byte)
  BY DEF TypeOK
<1>2. Returned \in Seq(Byte)
  BY <1>1, FlattenType DEF Returned
<1>3. AllSent \in Seq(Byte)
  BY GivenType, FlattenType DEF AllSent, Given
<1>4. Cat(rio_buf, wire) \in Seq(Byte)
  BY <1>1, CatAssoc
<1>5. Unread \in Seq(Byte)
  BY <1>1, <1>4, CatAssoc DEF Unread
<1>6. Arrived = Cat(Cat(Cat(Returned, usrbuf), rio_buf), wire)
  BY DEF Arrived, Returned, Cat
<1>7. Cat(Returned, Unread) \in Seq(Byte)
  BY <1>2, <1>5, CatAssoc
<1>8. Cat(Returned, Unread) = Cat(Cat(Returned, usrbuf), Cat(rio_buf, wire))
  BY <1>1, <1>2, <1>4, CatAssoc DEF Unread
<1>9. Cat(Returned, usrbuf) \in Seq(Byte)
  BY <1>1, <1>2, CatAssoc
<1>10. Cat(Cat(Returned, usrbuf), Cat(rio_buf, wire))
         = Cat(Cat(Cat(Returned, usrbuf), rio_buf), wire)
  BY <1>1, <1>9, CatAssoc
<1> QED
  BY <1>2, <1>3, <1>5, <1>6, <1>7, <1>8, <1>10

\* What was given to send is what has arrived and something more: as long as
\* the connection is open, that is what rio_writen has still to write.
Whole == \E x \in Seq(Byte) : /\ AllSent = Cat(Returned, Cat(Unread, x))
                              /\ socket = "open" => x = unsent

\* A step by which nothing more is given to send, and x becomes y.
LEMMA WholeSame ==
  ASSUME TypeOK, TypeOK', Whole, sent' = sent,
         \A x \in Seq(Byte) :
           (socket = "open" => x = unsent) =>
             \E y \in Seq(Byte) : /\ Cat(Returned', Cat(Unread', y)) = Cat(Returned, Cat(Unread, x))
                                  /\ socket' = "open" => y = unsent'
  PROVE  Whole'
<1>1. AllSent' = AllSent
  BY DEF AllSent
<1>2. PICK x \in Seq(Byte) : /\ AllSent = Cat(Returned, Cat(Unread, x))
                             /\ socket = "open" => x = unsent
  BY DEF Whole
<1> HIDE DEF Byte, AllSent, Returned, Unread
<1>3. PICK y \in Seq(Byte) : /\ Cat(Returned', Cat(Unread', y)) = Cat(Returned, Cat(Unread, x))
                             /\ socket' = "open" => y = unsent'
  BY <1>2
<1>4. AllSent' = Cat(Returned', Cat(Unread', y))
  BY <1>1, <1>2, <1>3
<1> QED
  BY <1>3, <1>4 DEF Whole

LEMMA WholeSend ==
  ASSUME TypeOK, TypeOK', Whole, NEW len \in Lengths, Send(len)
  PROVE  Whole'
<1> HIDE DEF Byte, AllSent, Returned, Unread
<1>1. UNCHANGED <<socket, wire, usrbuf, rio_buf, got>> /\ unsent = << >>
  BY DEF Send, reader
<1>2. PICK x \in Seq(Byte) : /\ AllSent = Cat(Returned, Cat(Unread, x))
                             /\ socket = "open" => x = unsent
  BY DEF Whole
<1>3. PICK line \in Seq(Byte) : line = unsent'
  BY DEF TypeOK
<1>4. AllSent' = Cat(AllSent, line)
  <2>1. Given \in Seq(Seq(Byte)) /\ Given' = Append(Given, line)
    BY <1>3, GivenType, GivenMore
  <2>2. AllSent = FlattenSeq(Given) /\ AllSent' = FlattenSeq(Given')
    BY DEF AllSent, Given
  <2> HIDE DEF Given
  <2>3. FlattenSeq(Given') = Cat(FlattenSeq(Given), line)
    BY <2>1, FlattenAppend
  <2> QED
    BY <2>2, <2>3
<1>5. Returned' = Returned /\ Unread' = Unread
  BY <1>1 DEF Returned, Unread
<1>6. Returned \in Seq(Byte) /\ Unread \in Seq(Byte)
  BY UnreadType
<1>7. Cat(Unread, x) \in Seq(Byte) /\ Cat(x, line) \in Seq(Byte)
  BY <1>6, CatAssoc
<1>8. Cat(Cat(Returned, Cat(Unread, x)), line) = Cat(Returned, Cat(Cat(Unread, x), line))
  BY <1>6, <1>7, CatAssoc
<1>9. Cat(Cat(Unread, x), line) = Cat(Unread, Cat(x, line))
  BY <1>6, CatAssoc
<1>10. AllSent' = Cat(Returned', Cat(Unread', Cat(x, line)))
  BY <1>2, <1>4, <1>5, <1>8, <1>9
<1>11. socket' = "open" => Cat(x, line) = unsent'
  <2> SUFFICES ASSUME socket' = "open" PROVE Cat(x, line) = unsent'
    OBVIOUS
  <2>1. x = << >>
    BY <1>1, <1>2
  <2> QED
    BY <1>3, <2>1, CatEmpty
<1> QED
  BY <1>7, <1>10, <1>11 DEF Whole

\* write() takes a piece of the message.
LEMMA WholeWrite ==
  ASSUME TypeOK, TypeOK', Whole, NEW k \in 1 .. SocketRoom, Write(k)
  PROVE  Whole'
<1> HIDE DEF Byte, AllSent, Returned
<1>1. socket = "open" /\ socket' = "open" /\ UNCHANGED <<got, usrbuf, rio_buf, sent>>
      /\ k <= Len(unsent)
  BY DEF Write, reader
<1>2. wire \in Seq(Byte) /\ unsent \in Seq(Byte) /\ k \in 1 .. Len(unsent)
  BY <1>1 DEF TypeOK
<1>3. PICK u \in Seq(Byte), r \in Seq(Byte), w \in Seq(Byte), p \in Seq(Byte), q \in Seq(Byte) :
        /\ u = usrbuf /\ r = rio_buf
        /\ w = wire /\ p = SubSeq(unsent, 1, k) /\ q = SubSeq(unsent, k + 1, Len(unsent))
        /\ unsent = Cat(p, q)
  <2>1. /\ SubSeq(unsent, 1, k) \in Seq(Byte) /\ SubSeq(unsent, k + 1, Len(unsent)) \in Seq(Byte)
        /\ SubSeq(unsent, 1, k) \o SubSeq(unsent, k + 1, Len(unsent)) = unsent
    BY <1>2, Cut
  <2>2. usrbuf \in Seq(Byte) /\ rio_buf \in Seq(Byte)
    BY DEF TypeOK
  <2> QED BY <1>2, <2>1, <2>2 DEF Cat
<1>4. wire' = Cat(w, p) /\ unsent' = q
  BY <1>3 DEF Write, Cat
<1>5. Cat(r, Cat(w, p)) \in Seq(Byte) /\ Cat(w, p) \in Seq(Byte) /\ Cat(r, w) \in Seq(Byte)
      /\ Cat(p, q) \in Seq(Byte)
  BY CatAssoc
<1>6. Cat(Cat(u, Cat(r, Cat(w, p))), q) = Cat(Cat(u, Cat(r, w)), Cat(p, q))
  <2>1. Cat(Cat(w, p), q) = Cat(w, Cat(p, q))
    BY CatAssoc
  <2>2. Cat(Cat(r, Cat(w, p)), q) = Cat(r, Cat(Cat(w, p), q))
    BY <1>5, CatAssoc
  <2>3. Cat(Cat(u, Cat(r, Cat(w, p))), q) = Cat(u, Cat(Cat(r, Cat(w, p)), q))
    BY <1>5, CatAssoc
  <2>4. Cat(Cat(u, Cat(r, w)), Cat(p, q)) = Cat(u, Cat(Cat(r, w), Cat(p, q)))
    BY <1>5, CatAssoc
  <2>5. Cat(Cat(r, w), Cat(p, q)) = Cat(r, Cat(w, Cat(p, q)))
    BY <1>5, CatAssoc
  <2> QED
    BY <2>1, <2>2, <2>3, <2>4, <2>5
<1>7. Unread' = Cat(u, Cat(r, Cat(w, p))) /\ Unread = Cat(u, Cat(r, w)) /\ Returned' = Returned
  BY <1>1, <1>3, <1>4 DEF Unread, Returned
<1> HIDE DEF Unread
<1> QED
  BY <1>1, <1>3, <1>4, <1>6, <1>7, WholeSame

\* The bytes that were on the wire are lost, and perhaps those in usrbuf.
LEMMA WholeLoss ==
  ASSUME TypeOK, TypeOK', Whole, socket' # "open", UNCHANGED <<sent, got>>,
         \/ UNCHANGED <<usrbuf, rio_buf, wire>>
         \/ UNCHANGED <<usrbuf, rio_buf>> /\ wire' = << >>
         \/ UNCHANGED <<rio_buf, wire>> /\ rio_buf = << >> /\ wire = << >> /\ usrbuf' = << >>
  PROVE  Whole'
<1> HIDE DEF Byte, AllSent, Returned
<1>1. PICK u \in Seq(Byte), r \in Seq(Byte), w \in Seq(Byte) :
        u = usrbuf /\ r = rio_buf /\ w = wire
  BY DEF TypeOK
<1>2. Returned' = Returned
  BY DEF Returned
<1>3. CASE UNCHANGED <<usrbuf, rio_buf, wire>>
  <2>1. Unread' = Unread
    BY <1>3 DEF Unread
  <2> HIDE DEF Unread
  <2> QED
    BY <1>2, <2>1, WholeSame
<1>4. CASE UNCHANGED <<usrbuf, rio_buf>> /\ wire' = << >>
  <2>1. Unread = Cat(u, Cat(r, w)) /\ Unread' = Cat(u, r)
    <3>1. Cat(r, wire') = r
      BY <1>4, CatEmpty
    <3> QED
      BY <1>1, <1>4, <3>1 DEF Unread
  <2>2. ASSUME NEW x \in Seq(Byte)
        PROVE  Cat(w, x) \in Seq(Byte) /\ Cat(Unread', Cat(w, x)) = Cat(Unread, x)
    <3>1. Cat(w, x) \in Seq(Byte) /\ Cat(r, w) \in Seq(Byte)
      BY CatAssoc
    <3>2. Cat(Cat(u, r), Cat(w, x)) = Cat(u, Cat(r, Cat(w, x)))
      BY <3>1, CatAssoc
    <3>3. Cat(Cat(u, Cat(r, w)), x) = Cat(u, Cat(Cat(r, w), x))
      BY <3>1, CatAssoc
    <3>4. Cat(Cat(r, w), x) = Cat(r, Cat(w, x))
      BY CatAssoc
    <3> QED
      BY <2>1, <3>1, <3>2, <3>3, <3>4
  <2> HIDE DEF Unread
  <2> QED
    BY <1>2, <2>2, WholeSame
<1>5. CASE UNCHANGED <<rio_buf, wire>> /\ rio_buf = << >> /\ wire = << >> /\ usrbuf' = << >>
  <2>1. Unread = u /\ Unread' = << >>
    <3>1. Cat(r, w) = << >> /\ r = << >>
      BY <1>1, <1>5, CatEmpty
    <3>2. Cat(u, Cat(r, w)) = u
      BY <3>1, CatEmpty
    <3>3. Cat(r, r) = << >>
      BY <3>1, CatEmpty
    <3> QED
      BY <1>1, <1>5, <3>1, <3>2, <3>3 DEF Unread
  <2>2. ASSUME NEW x \in Seq(Byte)
        PROVE  Cat(u, x) \in Seq(Byte) /\ Cat(Unread', Cat(u, x)) = Cat(Unread, x)
    BY <2>1, CatAssoc, CatEmpty
  <2> HIDE DEF Unread
  <2> QED
    BY <1>2, <2>2, WholeSame
<1> QED
  BY <1>3, <1>4, <1>5

\* The reader moves bytes from one place to the next.
LEMMA WholeMoves ==
  ASSUME TypeOK, TypeOK', Whole, UNCHANGED <<socket, sent, unsent>>,
         Cat(Returned', Unread') = Cat(Returned, Unread)
  PROVE  Whole'
<1> HIDE DEF Byte, AllSent, Returned, Unread
<1>1. Returned \in Seq(Byte) /\ Unread \in Seq(Byte)
  BY UnreadType
<1>2. Returned' \in Seq(Byte) /\ Unread' \in Seq(Byte)
  <2>1. /\ got' \in Seq(Seq(Byte)) /\ usrbuf' \in Seq(Byte) /\ rio_buf' \in Seq(Byte)
        /\ wire' \in Seq(Byte)
    BY DEF TypeOK
  <2>2. Cat(rio_buf', wire') \in Seq(Byte)
    BY <2>1, CatAssoc
  <2>3. Unread' \in Seq(Byte)
    BY <2>1, <2>2, CatAssoc DEF Unread
  <2> QED
    BY <2>1, <2>3, FlattenType DEF Returned
<1>3. ASSUME NEW x \in Seq(Byte)
      PROVE  Cat(Returned', Cat(Unread', x)) = Cat(Returned, Cat(Unread, x))
  BY <1>1, <1>2, CatAssoc
<1> QED
  BY <1>3, WholeSame

LEMMA WholeRefill ==
  ASSUME TypeOK, TypeOK', Whole, NEW k \in 1 .. RIO_BUFSIZE, Refill(k)
  PROVE  Whole'
<1> HIDE DEF Byte, AllSent, Returned
<1>1. rio_buf = << >> /\ UNCHANGED <<got, usrbuf, socket, unsent, sent>> /\ k <= Len(wire)
  BY DEF Refill, writer
<1>2. wire \in Seq(Byte) /\ k \in 1 .. Len(wire)
  BY <1>1 DEF TypeOK
<1>3. wire = Cat(rio_buf', wire')
  BY <1>2, Cut DEF Refill, Cat
<1>4. Cat(rio_buf, wire) = wire
  BY <1>1, <1>2, CatEmpty
<1>5. Unread' = Unread /\ Returned' = Returned
  BY <1>1, <1>3, <1>4 DEF Unread, Returned
<1> HIDE DEF Unread
<1> QED
  BY <1>1, <1>5, WholeMoves

\* One more line is returned to receive.
LEMMA ReturnedMore ==
  ASSUME TypeOK, NEW line \in Seq(Byte), Returns(line)
  PROVE  Returned' = Cat(Returned, line)
<1> HIDE DEF Byte
<1>1. got \in Seq(Seq(Byte)) /\ got' = Append(got, line)
  BY DEF TypeOK, Returns
<1> QED
  BY <1>1, FlattenAppend DEF Returned

LEMMA WholeTake ==
  ASSUME TypeOK, TypeOK', UsrbufOK, Whole, TakeByte
  PROVE  Whole'
<1> HIDE DEF Byte, AllSent, Returned
<1>1. reading /\ rio_buf # << >> /\ rio_buf' = Tail(rio_buf)
      /\ UNCHANGED <<socket, wire, unsent, sent>>
  BY DEF TakeByte, writer
<1>2. PICK u \in Seq(Byte), w \in Seq(Byte), line \in Seq(Byte), p \in Seq(Byte), q \in Seq(Byte) :
        /\ u = usrbuf /\ w = wire /\ line = Append(usrbuf, Head(rio_buf))
        /\ rio_buf = Cat(p, q) /\ rio_buf' = q /\ line = Cat(u, p)
  <2>1. usrbuf \in Seq(Byte) /\ rio_buf \in Seq(Byte) /\ wire \in Seq(Byte)
    BY DEF TypeOK
  <2>2. /\ Head(rio_buf) \in Byte /\ Tail(rio_buf) \in Seq(Byte)
        /\ <<Head(rio_buf)>> \o Tail(rio_buf) = rio_buf
    BY <1>1, <2>1, First
  <2>3. <<Head(rio_buf)>> \in Seq(Byte)
    BY <2>2
  <2>4. Append(usrbuf, Head(rio_buf)) = usrbuf \o <<Head(rio_buf)>>
    BY <2>1, <2>2, AppendIsConcat
  <2>5. Append(usrbuf, Head(rio_buf)) \in Seq(Byte)
    BY <2>1, <2>2
  <2> QED
    BY <1>1, <2>1, <2>2, <2>3, <2>4, <2>5 DEF Cat
<1>3. Returned \in Seq(Byte)
  BY UnreadType
<1>4. Cat(q, w) \in Seq(Byte) /\ Cat(p, Cat(q, w)) \in Seq(Byte)
  BY CatAssoc
<1>5. Cat(u, Cat(Cat(p, q), w)) = Cat(Cat(u, p), Cat(q, w))
  <2>1. Cat(Cat(p, q), w) = Cat(p, Cat(q, w))
    BY CatAssoc
  <2>2. Cat(u, Cat(p, Cat(q, w))) = Cat(Cat(u, p), Cat(q, w))
    BY <1>4, CatAssoc
  <2> QED
    BY <2>1, <2>2
<1>6. Unread = Cat(line, Cat(q, w))
  BY <1>2, <1>5 DEF Unread
<1>7. CASE Returns(line)
  <2>1. usrbuf' = << >> /\ Returned' = Cat(Returned, line)
    BY <1>7, ReturnedMore DEF Returns
  <2>2. Unread' = Cat(q, w)
    BY ZenonT(60), <1>1, <1>2, <1>4, <2>1, CatEmpty DEF Unread
  <2>3. Cat(Cat(Returned, line), Cat(q, w)) = Cat(Returned, Cat(line, Cat(q, w)))
    BY <1>3, <1>4, CatAssoc
  <2> HIDE DEF Unread
  <2> QED
    BY <1>1, <1>6, <2>1, <2>2, <2>3, WholeMoves
<1>8. CASE usrbuf' = line /\ UNCHANGED <<reading, m_last_result, got>>
  <2>1. Unread' = Unread /\ Returned' = Returned
    BY <1>1, <1>2, <1>6, <1>8 DEF Unread, Returned
  <2> HIDE DEF Unread
  <2> QED
    BY <1>1, <2>1, WholeMoves
<1> QED
  BY <1>2, <1>7, <1>8 DEF TakeByte

LEMMA WholeEof ==
  ASSUME TypeOK, TypeOK', Whole, ReadEof, Returns(usrbuf)
  PROVE  Whole'
<1> HIDE DEF Byte, AllSent, Returned
<1>1. rio_buf = << >> /\ wire = << >> /\ UNCHANGED <<socket, wire, unsent, sent, rio_buf>>
  BY DEF ReadEof, writer
<1>2. usrbuf \in Seq(Byte) /\ Returned \in Seq(Byte)
  BY UnreadType DEF TypeOK
<1>3. Returned' = Cat(Returned, usrbuf) /\ usrbuf' = << >>
  BY <1>2, ReturnedMore DEF Returns
<1>4. PICK e \in Seq(Byte) : e = << >>
  BY EmptyType
<1>5. Cat(e, e) = e /\ Cat(usrbuf, e) = usrbuf
  BY <1>2, <1>4, CatEmpty
<1>6. Unread = usrbuf /\ Unread' = e
  BY <1>1, <1>3, <1>4, <1>5 DEF Unread
<1>7. Cat(Cat(Returned, usrbuf), e) = Cat(Returned, usrbuf)
  <2>1. Cat(Returned, usrbuf) \in Seq(Byte)
    BY <1>2, CatAssoc
  <2> QED
    BY <1>4, <2>1, CatEmpty
<1> HIDE DEF Unread
<1> QED
  BY <1>1, <1>3, <1>6, <1>7, WholeMoves

LEMMA WholeStep == ASSUME Inv, Inv', Whole, [Next]_vars PROVE Whole'
<1> USE DEF writer, reader, object
<1> HIDE DEF Byte, AllSent, Returned, Unread
<1>0. TypeOK /\ TypeOK' /\ UsrbufOK /\ EndOK
  BY DEF Inv
<1>1. ASSUME NEW len \in Lengths, Send(len) PROVE Whole'
  BY <1>0, <1>1, WholeSend
<1>2. ASSUME NEW k \in 1 .. SocketRoom, Write(k) PROVE Whole'
  BY <1>0, <1>2, WholeWrite
<1>3. CASE WriteFails
  <2>1. socket' # "open" /\ UNCHANGED <<sent, got, usrbuf, rio_buf, wire>>
    BY <1>3 DEF WriteFails
  <2> QED
    BY <1>0, <2>1, WholeLoss
<1>4. CASE Shut \/ Reset
  <2>1. socket' # "open" /\ UNCHANGED <<sent, got, usrbuf, rio_buf>>
        /\ (wire' = wire \/ wire' = << >>)
    BY <1>4 DEF Shut, Reset
  <2> QED
    BY <1>0, <2>1, WholeLoss
<1>5. CASE Receive
  <2>1. UNCHANGED <<socket, sent, unsent, got, usrbuf, rio_buf, wire>>
    BY <1>5 DEF Receive
  <2>2. Returned' = Returned /\ Unread' = Unread
    BY <2>1 DEF Returned, Unread
  <2> QED
    BY <1>0, <2>1, <2>2, WholeMoves
<1>6. ASSUME NEW k \in 1 .. RIO_BUFSIZE, Refill(k) PROVE Whole'
  BY <1>0, <1>6, WholeRefill
<1>7. CASE TakeByte
  BY <1>0, <1>7, WholeTake
<1>8. CASE ReadEof
  <2>1. CASE usrbuf = << >> /\ Fails
    <3>1. UNCHANGED <<socket, sent, unsent, got, usrbuf, rio_buf, wire>>
      BY <1>8, <2>1 DEF ReadEof, Fails
    <3>2. Returned' = Returned /\ Unread' = Unread
      BY <3>1 DEF Returned, Unread
    <3> QED
      BY <1>0, <3>1, <3>2, WholeMoves
  <2>2. CASE Returns(usrbuf)
    BY <1>0, <1>8, <2>2, WholeEof
  <2> QED
    BY <1>8, <2>1, <2>2 DEF ReadEof
<1>9. CASE ReadError
  <2>1. /\ socket' # "open" /\ UNCHANGED <<sent, got, rio_buf, wire>>
        /\ rio_buf = << >> /\ wire = << >> /\ usrbuf' = << >>
    BY <1>0, <1>9 DEF ReadError, Fails, EndOK
  <2> QED
    BY <1>0, <2>1, WholeLoss
<1>10. CASE Destructor
  <2>1. CASE socket' = "reset" /\ wire' = << >>
    <3>1. UNCHANGED <<sent, got, usrbuf, rio_buf>>
      BY <1>10 DEF Destructor
    <3> QED
      BY <1>0, <2>1, <3>1, WholeLoss
  <2>2. CASE UNCHANGED <<descriptor, socket, wire>>
    <3>1. UNCHANGED <<socket, sent, unsent, got, usrbuf, rio_buf, wire>>
      BY <1>10, <2>2 DEF Destructor
    <3>2. Returned' = Returned /\ Unread' = Unread
      BY <3>1 DEF Returned, Unread
    <3> QED
      BY <1>0, <3>1, <3>2, WholeMoves
  <2> QED
    BY <1>10, <2>1, <2>2 DEF Destructor
<1>11. CASE UNCHANGED vars
  <2>1. UNCHANGED <<socket, sent, unsent, got, usrbuf, rio_buf, wire>>
    BY <1>11 DEF vars
  <2>2. Returned' = Returned /\ Unread' = Unread
    BY <2>1 DEF Returned, Unread
  <2> QED
    BY <1>0, <2>1, <2>2, WholeMoves
<1> QED
  BY <1>1, <1>2, <1>3, <1>4, <1>5, <1>6, <1>7, <1>8, <1>9, <1>10, <1>11
  DEF Next, WriterSteps, ReceiveSteps, Finished

LEMMA WholeInit == Init => Whole
<1> HIDE DEF Byte
<1> SUFFICES ASSUME Init PROVE Whole
  OBVIOUS
<1>1. PICK e \in Seq(Byte) : e = << >>
  BY EmptyType
<1>2. /\ sent = << >> /\ got = << >> /\ usrbuf = << >> /\ rio_buf = << >> /\ wire = << >>
      /\ unsent = << >>
  BY DEF Init
<1>3. FlattenSeq(<< >>) = << >>
  <2>1. Len(<< >>) = 0
    OBVIOUS
  <2> QED
    BY <2>1, FlattenIsFlat
<1>4. AllSent = << >>
  <2>1. DOMAIN sent = {}
    BY <1>2
  <2>2. [n \in DOMAIN sent |-> Line(n, sent[n])] = << >>
    BY <2>1
  <2> QED
    BY <1>3, <2>2 DEF AllSent
<1>5. Cat(e, e) = e
  BY <1>1, CatEmpty
<1>6. Returned = e /\ Unread = e
  BY <1>1, <1>2, <1>3, <1>5 DEF Returned, Unread
<1>7. AllSent = Cat(Returned, Cat(Unread, e))
  BY <1>1, <1>4, <1>5, <1>6
<1> HIDE DEF AllSent, Returned, Unread
<1> QED
  BY <1>1, <1>2, <1>7 DEF Whole

\* A sequence is a prefix of what continues it.
LEMMA Beginning ==
  ASSUME NEW a \in Seq(Byte), NEW x \in Seq(Byte), NEW s, s = Cat(a, x)
  PROVE  IsPrefix(a, s)
<1> HIDE DEF Byte
<1>1. /\ s \in Seq(Byte) /\ Len(s) = Len(a) + Len(x) /\ Len(a) \in Nat /\ Len(x) \in Nat
      /\ \A i \in 1 .. Len(a) : s[i] = a[i]
  BY ConcatProperties DEF Cat
<1>2. SubSeq(s, 1, Len(a)) = SubSeq(a, 1, Len(a))
  <2>1. CASE Len(a) = 0
    BY <1>1, <2>1, SubSeqEmpty
  <2>2. CASE Len(a) # 0
    <3>1. 1 \in 1 .. Len(a) /\ Len(a) \in 1 .. Len(a)
      BY <1>1, <2>2
    <3> QED
      BY <3>1, SubSeqOfConcat1 DEF Cat
  <2> QED
    BY <2>1, <2>2
<1> QED
  BY <1>1, <1>2 DEF IsPrefix

LEMMA WholeInOrder == ASSUME TypeOK, Whole PROVE BytesArriveInOrder
<1> HIDE DEF Byte, AllSent, Returned, Unread, Arrived
<1>1. PICK x \in Seq(Byte) : /\ AllSent = Cat(Returned, Cat(Unread, x))
                             /\ socket = "open" => x = unsent
  BY DEF Whole
<1>2. /\ Returned \in Seq(Byte) /\ Unread \in Seq(Byte) /\ Arrived \in Seq(Byte)
      /\ Arrived = Cat(Returned, Unread)
  BY UnreadType
<1>3. AllSent = Cat(Arrived, x)
  BY <1>1, <1>2, CatAssoc
<1>4. IsPrefix(Arrived, AllSent)
  BY <1>2, <1>3, Beginning
<1>5. socket = "open" => Arrived \o unsent = AllSent
  BY <1>1, <1>3 DEF Cat
<1> QED
  BY <1>4, <1>5 DEF BytesArriveInOrder

\* However write() and read() cut the bytes, they arrive in order, none missing
\* and none twice.
THEOREM AllBytesArrive == Spec => []BytesArriveInOrder
<1>1. Init => Whole
  BY WholeInit
<1>2. Inv /\ Inv' /\ Whole /\ [Next]_vars => Whole'
  BY WholeStep
<1>3. Inv /\ Whole => BytesArriveInOrder
  BY WholeInOrder DEF Inv
<1> QED
  BY <1>1, <1>2, <1>3, InvAlways, PTL DEF Spec
=============================================================================
