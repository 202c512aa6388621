---------------------------- MODULE ClientsProof ----------------------------
(***************************************************************************)
(* RepliesLagBySurplus and PrintedInOrder for any number of senders and    *)
(* receivers, a room, users and texts with names and lines of any length,  *)
(* and any number of lines and descriptors.                                *)
(***************************************************************************)
EXTENDS Clients, Integers, SequenceTheorems, TLAPS

\* What the names in the specification range over.
Tags == {"slogin", "rlogin", "join", "leave", "sendall", "quit", "other", "ok", "err",
         "delivery", "delivery_tab"}
Ends == {"none", "up", "eof", "doomed", "reset", "broken"}
Points == {"none", "login", "join", "sender", "receiver", "ended"}
Places == {"start", "connected", "login", "admitted", "join", "listen", "input", "reply",
           "quit", "exited", "failed", "killed"}
PieceType == [tag : Tags, size : Nat, whole : BOOLEAN, at : Nat, said : Nat]
Sayings == UNION {[length : {n}, tails : DeliveryTails(n)] : n \in Nat \ {0}}

USE DEF Tags, Ends, Points, Places

\* The queues hold pieces, the mailboxes what has been said, and the programs and
\* workers are somewhere.
Types == /\ up \in [Clients -> Seq(PieceType)]
         /\ down \in [Clients -> Seq(PieceType)]
         /\ said \in Seq(Sayings)
         /\ mqueue \in [Receivers -> Seq(1 .. Len(said))]
         /\ client \in [Clients -> Places]
         /\ conn \in [Clients -> Ends]
         /\ worker \in [Clients -> Points]
         /\ surplus \in [Senders -> Int]

Counted(p) ==
  conn[p] = "up" /\ worker[p] # "ended" /\ client[p] \notin Over =>
    Len(up[p]) + Len(down[p]) = surplus[p] + (IF client[p] \in Blocked THEN 1 ELSE 0)

\* Before a sender has started nothing is under way.
Fresh(p) == client[p] = "start" => up[p] = << >> /\ down[p] = << >> /\ surplus[p] = 0

Inv == Types /\ \A p \in Senders : Counted(p) /\ Fresh(p)

-----------------------------------------------------------------------------
(***************************************************************************)
(* What is sent is pieces.                                                 *)
(***************************************************************************)
LEMMA Quotient == ASSUME NEW a \in Nat, NEW b \in Nat, b > 0 PROVE a \div b \in Nat
<1> DEFINE q == a \div b
<1>1. q \in Int /\ b * q <= a /\ a < b * q + b
  BY SMT
<1> HIDE DEF q
<1>2. q >= 0
  <2>1. SUFFICES ASSUME q <= -1 PROVE FALSE
    BY <1>1
  <2>2. b * q <= b * (-1)
    BY <1>1, <2>1
  <2> QED BY <1>1, <2>2
<1> QED BY <1>1, <1>2 DEF q

LEMMA Balance ==
  ASSUME NEW a \in Nat, NEW b \in Nat, NEW s \in Int, NEW c \in Int, a + b = s + c
  PROVE  (c = 1 => a + (b - 1) = s + 0) /\ (a - 1) + (b + 1) = s + c
OBVIOUS

\* M is MAX_LEN, and q the number of pieces of a line of length x.
LEMMA Quotients ==
  ASSUME NEW M \in Nat, M > 2, NEW x \in Nat \ {0}, NEW q \in Nat,
         (M - 1) * q <= x + M - 2, x + M - 2 < (M - 1) * q + (M - 1)
  PROVE  q >= 1 /\ (q = 1 <=> x < M) /\ x - (q - 1) * (M - 1) \in Nat
<1>1. PICK m \in Nat : m = M - 1 /\ m >= 2
  <2>1. M - 1 \in Nat /\ M - 1 >= 2
    OBVIOUS
  <2> QED BY <2>1
<1>2. m * q <= x + m - 1 /\ x + m - 1 < m * q + m
  BY <1>1
<1>3. q >= 1
  <2>1. q = 0 => m * q = 0
    BY <1>1
  <2> QED BY <1>1, <1>2, <2>1
<1>4. (q - 1) * m = m * q - m /\ m * q \in Nat
  BY <1>1
<1>5. q = 1 => x < M
  <2>1. q = 1 => m * q = m
    BY <1>1
  <2> QED BY <1>1, <1>2, <2>1
<1>6. x < M => q = 1
  <2>1. SUFFICES ASSUME x < M, q >= 2 PROVE FALSE
    BY <1>3
  <2>2. m * 2 <= m * q
    <3>1. PICK e \in Nat : q = 2 + e
      <4>1. q - 2 \in Nat
        BY <2>1
      <4> QED BY <4>1
    <3>2. m * q = m * 2 + m * e /\ m * e \in Nat
      BY <1>1, <3>1
    <3> QED BY <1>1, <3>2
  <2> QED BY <1>1, <1>2, <1>4, <2>1, <2>2
<1>7. x - (q - 1) * m \in Nat
  <2>1. m * q - m <= x - 1 /\ m * q - m \in Int
    BY <1>1, <1>2, <1>4
  <2> QED BY <1>4, <2>1
<1> QED BY <1>1, <1>3, <1>5, <1>6, <1>7

\* A line has one piece exactly if it is shorter than MAX_LEN.
LEMMA Counts ==
  ASSUME NEW length \in Nat \ {0}
  PROVE  /\ Count(length) \in Nat /\ Count(length) >= 1
         /\ Count(length) = 1 <=> length < MAX_LEN
         /\ \A k \in 1 .. Count(length) : Size(length, k) \in Nat
<1> DEFINE a == length + MAX_LEN - 2
           b == MAX_LEN - 1
           q == a \div b
<1>1. MAX_LEN \in Nat /\ MAX_LEN > 2 /\ a \in Nat /\ b \in Nat /\ b > 0
  BY ClientsAssumption
<1>2. q \in Int /\ b * q <= a /\ a < b * q + b
  <2> HIDE DEF a, b
  <2> QED BY <1>1, SMT
<1>3. q \in Nat
  <2> HIDE DEF a, b
  <2> QED BY <1>1, Quotient
<1> HIDE DEF q
<1>4. q >= 1 /\ (q = 1 <=> length < MAX_LEN) /\ length - (q - 1) * (MAX_LEN - 1) \in Nat
  BY <1>1, <1>2, <1>3, Quotients
<1>5. Count(length) = q
  BY DEF Count, q
<1>6. ASSUME NEW k \in 1 .. q PROVE Size(length, k) \in Nat
  <2>1. CASE k < q
    BY <1>1, <1>5, <2>1 DEF Size
  <2>2. CASE ~ k < q
    <3>1. k = q
      BY <1>3, <2>2
    <3> QED BY <1>4, <1>5, <2>2, <3>1 DEF Size
  <2> QED BY <2>1, <2>2
<1> QED BY <1>3, <1>4, <1>5, <1>6

LEMMA PiecesAreSeq ==
  ASSUME NEW tag \in Tags, NEW length \in Nat \ {0}, NEW tails, NEW number \in Nat,
         \A k \in 2 .. Count(length) : tails[k] \in Tags
  PROVE  /\ Pieces(tag, length, tails, number) \in Seq(PieceType)
         /\ Len(Pieces(tag, length, tails, number)) = Count(length)
<1> DEFINE n == Count(length)
           piece(k) == Piece(IF k = 1 THEN tag ELSE tails[k], Size(length, k), k = n, k, number)
<1>1. n \in Nat /\ n >= 1 /\ \A k \in 1 .. n : Size(length, k) \in Nat
  BY Counts
<1>2. ASSUME NEW k \in 1 .. n PROVE piece(k) \in PieceType
  <2>1. (IF k = 1 THEN tag ELSE tails[k]) \in Tags
    <3>1. k = 1 \/ k \in 2 .. n
      BY <1>1
    <3> QED BY <3>1
  <2>2. k \in Nat /\ (k = n) \in BOOLEAN /\ Size(length, k) \in Nat
    BY <1>1
  <2> QED BY <2>1, <2>2 DEF Piece, PieceType
<1> HIDE DEF piece
<1>3. Pieces(tag, length, tails, number) = [k \in 1 .. n |-> piece(k)]
  BY DEF Pieces, piece
<1> HIDE DEF n
<1> QED BY <1>1, <1>2, <1>3 DEF n

LEMMA ShortIsSeq == ASSUME NEW tag \in Tags
                    PROVE  /\ Short(tag) \in Seq(PieceType) /\ Len(Short(tag)) = 1
                           /\ Short(tag)[1] = Piece(tag, Size(2, 1), TRUE, 1, 0)
<1>1. Count(2) = 1
  <2>1. 2 \in Nat \ {0} /\ 2 < MAX_LEN
    BY ClientsAssumption
  <2> QED BY <2>1, Counts
<1> DEFINE tails == << >>
<1>2. \A k \in 2 .. Count(2) : tails[k] \in Tags
  BY <1>1
<1>3. Short(tag) = Pieces(tag, 2, tails, 0)
  BY DEF Short
<1> HIDE DEF tails
<1>5. Short(tag) \in Seq(PieceType) /\ Len(Short(tag)) = 1
  <2>1. 2 \in Nat \ {0} /\ 0 \in Nat
    OBVIOUS
  <2>2. /\ Pieces(tag, 2, tails, 0) \in Seq(PieceType)
        /\ Len(Pieces(tag, 2, tails, 0)) = Count(2)
    BY <1>2, <2>1, PiecesAreSeq
  <2> QED BY <1>1, <1>3, <2>2
<1>4. Short(tag)[1] = Piece(tag, Size(2, 1), 1 = 1, 1, 0)
  BY <1>1 DEF Short, Pieces
<1> QED BY <1>4, <1>5

LEMMA RequestsAreSeqs ==
  ASSUME NEW tag \in Tags, NEW length \in Nat \ {0}, NEW tails \in RequestTails(length)
  PROVE  Pieces(tag, length, tails, 0) \in Seq(PieceType)
<1>1. \A k \in 2 .. Count(length) : tails[k] \in Tags
  BY DEF RequestTails, Requests
<1>2. 0 \in Nat
  OBVIOUS
<1> QED BY <1>1, <1>2, PiecesAreSeq

LEMMA LinesAreSeqs == /\ \A l \in Lines : l \in Seq(PieceType)
                      /\ EmptyText \in Seq(PieceType)
<1>1. ASSUME NEW l \in Lines PROVE l \in Seq(PieceType)
  <2>1. CASE l \in {Short(tag) : tag \in {"join", "leave", "quit", "other"}}
    BY <2>1, ShortIsSeq
  <2>2. ASSUME NEW tag \in Tags, NEW n \in Nat \ {0}, l \in Ways(tag, n)
        PROVE  l \in Seq(PieceType)
    BY <2>2, RequestsAreSeqs DEF Ways
  <2>3. ASSUME NEW n \in Texts PROVE n + 2 \in Nat \ {0}
    <3>1. n \in Nat
      BY ClientsAssumption
    <3> QED BY <3>1
  <2>4. TooLong \subseteq Nat \ {0}
    BY <2>3 DEF TooLong
  <2>5. CASE l \notin {Short(tag) : tag \in {"join", "leave", "quit", "other"}}
    <3>1. \/ \E n \in Texts : l \in Ways("sendall", n + 2)
          \/ \E n \in TooLong : l \in Ways("join", n)
      BY <2>5 DEF Lines
    <3>2. "sendall" \in Tags /\ "join" \in Tags
      OBVIOUS
    <3> QED BY <2>2, <2>3, <2>4, <3>1, <3>2
  <2> QED BY <2>1, <2>5
<1>2. EmptyText \in Seq(PieceType)
  <2>1. Count(2) = 1
    <3>1. 2 \in Nat \ {0} /\ 2 < MAX_LEN
      BY ClientsAssumption
    <3> QED BY <3>1, Counts
  <2>2. 2 \in Nat \ {0} /\ 0 \in Nat /\ \A k \in 2 .. Count(2) : << >>[k] \in Tags
    BY <2>1
  <2> QED BY <2>2, PiecesAreSeq DEF EmptyText
<1> QED BY <1>1, <1>2

\* What has been said has pieces.
LEMMA SayingHas ==
  ASSUME NEW y \in Sayings
  PROVE  /\ y.length \in Nat \ {0}
         /\ \A k \in 2 .. Count(y.length) : y.tails[k] \in Tags
<1>1. PICK n \in Nat \ {0} : y \in [length : {n}, tails : DeliveryTails(n)]
  BY DEF Sayings
<1>2. y.length = n /\ y.tails \in DeliveryTails(n)
  BY <1>1
<1> QED BY <1>2 DEF DeliveryTails

\* A mailbox after something has been said.
LEMMA MailboxGrows ==
  ASSUME NEW m, NEW n \in Nat, m \in Seq(1 .. n)
  PROVE  m \in Seq(1 .. n + 1) /\ Append(m, n + 1) \in Seq(1 .. n + 1)
<1>1. 1 .. n \subseteq 1 .. n + 1 /\ n + 1 \in 1 .. n + 1
  OBVIOUS
<1>2. m \in Seq(1 .. n + 1)
  BY <1>1
<1> QED BY <1>1, <1>2
-----------------------------------------------------------------------------
LEMMA InitInv == Init => Inv
<1> SUFFICES ASSUME Init PROVE Inv
  OBVIOUS
<1>1. Types
  BY DEF Init, Types, Clients
<1>2. ASSUME NEW p \in Senders PROVE Counted(p) /\ Fresh(p)
  BY <1>2 DEF Init, Counted, Fresh, Clients, Over, Blocked
<1> QED BY <1>1, <1>2 DEF Inv

(***************************************************************************)
(* A client sends.                                                         *)
(***************************************************************************)
LEMMA SendKeeps ==
  ASSUME Inv, NEW p \in Clients, NEW pieces \in Seq(PieceType), NEW next \in Places,
         NEW failed \in Places,
         Send(p, pieces, next, failed), client[p] \notin Blocked \cup Over \cup {"start"},
         next \in Blocked, failed \in Blocked \cup Over,
         UNCHANGED <<down, worker, mqueue, said>>,
         surplus' \in [Senders -> Int],
         \A q \in Senders : surplus'[q] = IF q = p /\ conn[p] = "up"
                                          THEN surplus[p] + Len(pieces) - 1 ELSE surplus[q]
  PROVE  Inv'
<1> USE DEF Types
<1>0. Types
  BY DEF Inv
<1>1. Types'
  <2>1. up[p] \o pieces \in Seq(PieceType)
    BY <1>0, ConcatProperties
  <2>2. up' \in [Clients -> Seq(PieceType)]
    BY <1>0, <2>1 DEF Send
  <2>3. client' \in [Clients -> Places]
    BY <1>0, ZenonT(60) DEF Send, SigPipe
  <2>4. conn' \in [Clients -> Ends]
    <3>1. conn \in [Clients -> Ends] /\ "doomed" \in Ends /\ "broken" \in Ends
      BY <1>0 DEF Ends
    <3>2. \/ conn' = conn
          \/ conn' = [conn EXCEPT ![p] = "doomed"]
          \/ conn' = [conn EXCEPT ![p] = "broken"]
      BY DEF Send, SigPipe
    <3> QED BY <3>1, <3>2
  <2> QED BY <1>0, <2>2, <2>3, <2>4
<1>2. ASSUME NEW q \in Senders PROVE Counted(q)' /\ Fresh(q)'
  <2>0. Counted(q) /\ Fresh(q) /\ q \in Clients
    BY DEF Inv, Clients
  <2>1. CASE q # p
    BY <1>0, <2>0, <2>1 DEF Send, SigPipe, Counted, Fresh
  <2>2. CASE q = p
    <3>1. CASE conn[p] = "up"
      <4>1. Len(up'[p]) = Len(up[p]) + Len(pieces) /\ client'[p] = next
        BY <1>0, <3>1 DEF Send
      <4> QED BY <1>0, <2>0, <2>2, <3>1, <4>1 DEF Counted, Fresh, Blocked, Over
    <3>2. CASE conn[p] # "up"
      <4>1. conn'[p] # "up" /\ client'[p] # "start"
        BY <1>0, <3>2 DEF Send, SigPipe, Blocked, Over
      <4> QED BY <2>2, <4>1 DEF Counted, Fresh
    <3> QED BY <3>1, <3>2
  <2> QED BY <2>1, <2>2
<1> QED BY <1>1, <1>2 DEF Inv

LEMMA SendLoginKeeps == ASSUME Inv, NEW p \in Clients, SendLogin(p) PROVE Inv'
<1> DEFINE pieces == Short(IF p \in Senders THEN "slogin" ELSE "rlogin")
           failed == IF p \in Senders THEN "failed" ELSE "login"
<1>1. pieces \in Seq(PieceType) /\ Len(pieces) = 1
  BY ShortIsSeq
<1>2. Send(p, pieces, "login", failed) /\ client[p] = "connected"
      /\ UNCHANGED <<down, worker, mqueue, said, surplus>>
  BY DEF SendLogin, elsewhere
<1> HIDE DEF pieces
<1>3. surplus \in [Senders -> Int]
  BY DEF Inv, Types
<1>4. failed \in Places /\ failed \in Blocked \cup Over /\ "login" \in Blocked
  BY DEF Blocked, Over
<1>5. client[p] \notin Blocked \cup Over \cup {"start"}
  BY <1>2 DEF Blocked, Over
<1>6. \A q \in Senders : surplus'[q] = IF q = p /\ conn[p] = "up"
                                       THEN surplus[p] + Len(pieces) - 1 ELSE surplus[q]
  BY <1>1, <1>2, <1>3
<1> HIDE DEF failed
<1> QED BY <1>1, <1>2, <1>3, <1>4, <1>5, <1>6, SendKeeps

LEMMA SendJoinKeeps == ASSUME Inv, NEW p \in Clients, SendJoin(p) PROVE Inv'
<1> DEFINE pieces == Short("join")
<1>1. pieces \in Seq(PieceType) /\ Len(pieces) = 1
  BY ShortIsSeq
<1>2. Send(p, pieces, "join", "join") /\ client[p] = "admitted"
      /\ UNCHANGED <<down, worker, mqueue, said, surplus>>
  BY DEF SendJoin, elsewhere
<1> HIDE DEF pieces
<1>3. surplus \in [Senders -> Int]
  BY DEF Inv, Types
<1>4. "join" \in Blocked /\ client[p] \notin Blocked \cup Over \cup {"start"}
  BY <1>2 DEF Blocked, Over
<1>5. \A q \in Senders : surplus'[q] = IF q = p /\ conn[p] = "up"
                                       THEN surplus[p] + Len(pieces) - 1 ELSE surplus[q]
  BY <1>1, <1>2, <1>3
<1> QED BY <1>1, <1>2, <1>3, <1>4, <1>5, SendKeeps

LEMMA SendLineKeeps ==
  ASSUME Inv, NEW p \in Senders, NEW pieces \in Seq(PieceType), SendLine(p, pieces)
  PROVE  Inv'
<1> DEFINE then == IF pieces = Short("quit") THEN "quit" ELSE "reply"
<1>1. /\ Send(p, pieces, then, then) /\ client[p] = "input"
      /\ UNCHANGED <<down, worker, mqueue, said>>
  BY DEF SendLine, elsewhere
<1>2. surplus \in [Senders -> Int] /\ p \in Clients
  BY DEF Inv, Types, Clients
<1>3. then \in Places /\ then \in Blocked
  BY DEF Blocked
<1>4. client[p] \notin Blocked \cup Over \cup {"start"}
  BY <1>1 DEF Blocked, Over
<1>5. surplus' = IF conn[p] = "up" THEN [surplus EXCEPT ![p] = @ + Len(pieces) - 1] ELSE surplus
  BY DEF SendLine
<1>6. Len(pieces) \in Nat
  OBVIOUS
<1>7. /\ surplus' \in [Senders -> Int]
      /\ \A q \in Senders : surplus'[q] = IF q = p /\ conn[p] = "up"
                                          THEN surplus[p] + Len(pieces) - 1 ELSE surplus[q]
  BY <1>2, <1>5, <1>6
<1> HIDE DEF then
<1>8. then \in Blocked \cup Over
  BY <1>3
<1> QED BY <1>1, <1>2, <1>3, <1>4, <1>7, <1>8, SendKeeps, SMTT(60)

(***************************************************************************)
(* A client receives.                                                      *)
(***************************************************************************)
LEMMA ReceiveKeeps ==
  ASSUME Inv, NEW p \in Clients,
         client[p] # "start" /\ client'[p] # "start",
         client' \in [Clients -> Places],
         \A q \in Clients : q # p => client'[q] = client[q],
         p \in Senders => client[p] \in Blocked /\ client'[p] \notin Blocked,
         ReceiveGives(p) \/ ReceiveFails(p),
         UNCHANGED <<up, worker, mqueue, said, surplus>>
  PROVE  Inv'
<1> USE DEF Types
<1>0. Types
  BY DEF Inv
<1>1. Types'
  <2>1. down' \in [Clients -> Seq(PieceType)]
    <3>1. CASE ReceiveGives(p)
      <4>1. Tail(down[p]) \in Seq(PieceType)
        BY <1>0, <3>1, HeadTailProperties DEF ReceiveGives
      <4> QED BY <1>0, <3>1, <4>1 DEF ReceiveGives
    <3>2. CASE ReceiveFails(p)
      BY <1>0, <3>2 DEF ReceiveFails
    <3> QED BY <3>1, <3>2
  <2>2. conn' \in [Clients -> Ends]
    <3>1. conn \in [Clients -> Ends] /\ "broken" \in Ends /\ conn[p] \in Ends
      BY <1>0 DEF Ends
    <3>2. conn' = conn \/ \E e \in {"broken", conn[p]} : conn' = [conn EXCEPT ![p] = e]
      BY DEF ReceiveGives, ReceiveFails
    <3> QED BY <3>1, <3>2
  <2> QED BY <1>0, <2>1, <2>2
<1>2. ASSUME NEW q \in Senders PROVE Counted(q)' /\ Fresh(q)'
  <2>0. Counted(q) /\ Fresh(q) /\ q \in Clients
    BY DEF Inv, Clients
  <2>1. CASE q # p
    BY <1>0, <2>0, <2>1 DEF ReceiveGives, ReceiveFails, Counted, Fresh
  <2>2. CASE q = p
    <3>1. CASE ReceiveGives(p)
      <4>1. Len(down[p]) \in Nat /\ Len(down'[p]) = Len(down[p]) - 1
        BY <1>0, <3>1 DEF ReceiveGives
      <4>2. Len(up[p]) \in Nat /\ surplus[q] \in Int
        BY <1>0
      <4>3. UNCHANGED conn /\ client[q] \notin Over
        BY <2>2, <3>1 DEF ReceiveGives, Blocked, Over
      <4>4. client[p] \in Blocked /\ client'[p] \notin Blocked /\ UNCHANGED <<up, worker, surplus>>
        BY <2>2
      <4>5. Counted(q)'
        <5>1. SUFFICES ASSUME conn[q] = "up", worker[q] # "ended"
                       PROVE  Len(up[q]) + Len(down'[q])
                                = surplus[q] + (IF client'[q] \in Blocked THEN 1 ELSE 0)
          BY <2>2, <4>3, <4>4 DEF Counted
        <5>2. Len(up[q]) + Len(down[q]) = surplus[q] + (IF client[q] \in Blocked THEN 1 ELSE 0)
          BY <2>0, <2>2, <4>3, <5>1 DEF Counted
        <5>3. /\ (IF client[q] \in Blocked THEN 1 ELSE 0) = 1
              /\ (IF client'[q] \in Blocked THEN 1 ELSE 0) = 0
          BY <2>2, <4>4
        <5>4. Len(up[q]) + Len(down[q]) = surplus[q] + 1
          BY <5>2, <5>3
        <5>5. Len(up[q]) + (Len(down[q]) - 1) = surplus[q] + 0
          <6>1. Len(down[q]) \in Nat /\ Len(up[q]) \in Nat
            BY <2>2, <4>1, <4>2
          <6>2. surplus[q] \in Int /\ 1 \in Int
            BY <4>2
          <6> QED BY <5>4, <6>1, <6>2, Balance
        <5>6. Len(up[q]) + Len(down'[q]) = surplus[q] + 0
          BY <2>2, <4>1, <5>5
        <5> QED BY <5>3, <5>6
      <4> QED BY <2>2, <4>5 DEF Fresh
    <3>2. CASE ReceiveFails(p)
      <4>1. conn'[p] # "up"
        BY <1>0, <3>2 DEF ReceiveFails
      <4> QED BY <2>2, <4>1 DEF Counted, Fresh
    <3> QED BY <3>1, <3>2
  <2> QED BY <2>1, <2>2
<1> QED BY <1>1, <1>2 DEF Inv

LEMMA LoggedInKeeps == ASSUME Inv, NEW p \in Clients, LoggedIn(p) PROVE Inv'
<1>0. client \in [Clients -> Places]
  BY DEF Inv, Types
<1>1. /\ client[p] \in {"login", "join"}
      /\ client'[p] \in {"failed", "input", "admitted", "listen"}
      /\ client' = [client EXCEPT ![p] = client'[p]]
  BY <1>0 DEF LoggedIn
<1>2. (ReceiveGives(p) \/ ReceiveFails(p)) /\ UNCHANGED <<up, worker, mqueue, said, surplus>>
  BY DEF LoggedIn, elsewhere
<1>3. client' \in [Clients -> Places] /\ \A q \in Clients : q # p => client'[q] = client[q]
  BY <1>0, <1>1
<1>4. /\ client[p] # "start" /\ client'[p] # "start"
      /\ client[p] \in Blocked /\ client'[p] \notin Blocked
  BY <1>1 DEF Blocked
<1> QED BY <1>2, <1>3, <1>4, ReceiveKeeps

LEMMA GetReplyKeeps == ASSUME Inv, NEW p \in Senders, GetReply(p) PROVE Inv'
<1>0. client \in [Clients -> Places] /\ p \in Clients
  BY DEF Inv, Types, Clients
<1>1. /\ client[p] \in {"reply", "quit"}
      /\ client'[p] \in {"exited", "input"}
      /\ client' = [client EXCEPT ![p] = client'[p]]
  BY <1>0 DEF GetReply
<1>2. (ReceiveGives(p) \/ ReceiveFails(p)) /\ UNCHANGED <<up, worker, mqueue, said, surplus>>
  BY DEF GetReply, elsewhere
<1>3. client' \in [Clients -> Places] /\ \A q \in Clients : q # p => client'[q] = client[q]
  BY <1>0, <1>1
<1>4. /\ client[p] # "start" /\ client'[p] # "start"
      /\ client[p] \in Blocked /\ client'[p] \notin Blocked
  BY <1>1 DEF Blocked
<1> QED BY <1>0, <1>2, <1>3, <1>4, ReceiveKeeps

LEMMA ListenKeeps == ASSUME Inv, NEW p \in Receivers, Listen(p) PROVE Inv'
<1>0. client \in [Clients -> Places] /\ p \in Clients /\ p \notin Senders
  BY ClientsAssumption DEF Inv, Types, Clients
<1>1. client[p] = "listen" /\ client' = client
  BY DEF Listen
<1>2. (ReceiveGives(p) \/ ReceiveFails(p)) /\ UNCHANGED <<up, worker, mqueue, said, surplus>>
  BY DEF Listen, elsewhere
<1> QED BY <1>0, <1>1, <1>2, ReceiveKeeps

(***************************************************************************)
(* Other steps of a client.                                                *)
(***************************************************************************)
LEMMA ConnectKeeps == ASSUME Inv, NEW p \in Clients, Connect(p) PROVE Inv'
<1> USE DEF Types
<1>0. Types
  BY DEF Inv
<1>1. Types'
  BY <1>0 DEF Connect, elsewhere
<1>2. ASSUME NEW q \in Senders PROVE Counted(q)' /\ Fresh(q)'
  <2>0. Counted(q) /\ Fresh(q) /\ q \in Clients
    BY DEF Inv, Clients
  <2>1. CASE q # p
    BY <1>0, <2>0, <2>1 DEF Connect, elsewhere, Counted, Fresh
  <2>2. CASE q = p
    <3>1. up[q] = << >> /\ down[q] = << >> /\ surplus[q] = 0
      BY <2>0, <2>2 DEF Connect, Fresh
    <3>2. client'[q] \in {"connected", "failed"} /\ UNCHANGED <<up, down, surplus>>
      BY <1>0, <2>2 DEF Connect, elsewhere
    <3> QED BY <3>1, <3>2 DEF Counted, Fresh, Blocked, Over
  <2> QED BY <2>1, <2>2
<1> QED BY <1>1, <1>2 DEF Inv

LEMMA InterruptedKeeps == ASSUME Inv, NEW p \in Clients, Interrupted(p) PROVE Inv'
<1> USE DEF Types
<1>0. Types
  BY DEF Inv
<1>1. Types'
  <2>1. up' \in [Clients -> Seq(PieceType)] /\ down' \in [Clients -> Seq(PieceType)]
    <3>1. up' = up \/ up' = [up EXCEPT ![p] = << >>]
      BY DEF Interrupted
    <3>2. down' = [down EXCEPT ![p] = << >>] /\ << >> \in Seq(PieceType)
      BY DEF Interrupted
    <3> QED BY <1>0, <3>1, <3>2
  <2>2. client' \in [Clients -> Places] /\ UNCHANGED <<conn, worker, mqueue, said, surplus>>
    BY <1>0 DEF Interrupted, elsewhere
  <2> QED BY <1>0, <2>1, <2>2
<1>2. ASSUME NEW q \in Senders PROVE Counted(q)' /\ Fresh(q)'
  <2>0. Counted(q) /\ Fresh(q) /\ q \in Clients
    BY DEF Inv, Clients
  <2>1. CASE q # p
    BY <1>0, <2>0, <2>1 DEF Interrupted, elsewhere, Counted, Fresh
  <2>2. CASE q = p
    BY <1>0, <2>2 DEF Interrupted, Counted, Fresh, Over
  <2> QED BY <2>1, <2>2
<1> QED BY <1>1, <1>2 DEF Inv

-----------------------------------------------------------------------------
(***************************************************************************)
(* The server and the network.                                             *)
(***************************************************************************)
\* Steps that leave the pieces of the senders alone.
LEMMA ApartKeeps ==
  ASSUME Inv, Types', UNCHANGED <<client, surplus>>,
         \A q \in Senders : /\ up'[q] = up[q] /\ down'[q] = down[q]
                            /\ conn'[q] = "up" => conn[q] = "up"
                            /\ worker'[q] # "ended" => worker[q] # "ended"
  PROVE  Inv'
<1>1. ASSUME NEW q \in Senders PROVE Counted(q)' /\ Fresh(q)'
  BY DEF Inv, Counted, Fresh
<1> QED BY <1>1 DEF Inv

LEMMA ExitKeeps == ASSUME Inv, Exit PROVE Inv'
<1> USE DEF Types
<1>0. Types
  BY DEF Inv
<1>1. PICK reset \in SUBSET {p \in Clients : conn[p] = "up" /\ up[p] # << >>} :
        LET lost(p) == conn[p] = "up" /\ (p \in reset \/ worker[p] = "none")
        IN /\ conn' = [p \in Clients |-> IF lost(p) THEN "reset"
                                         ELSE IF conn[p] = "up" THEN "eof" ELSE conn[p]]
           /\ down' = [p \in Clients |-> IF lost(p) THEN << >> ELSE down[p]]
  BY DEF Exit
<1>2. /\ conn' \in [Clients -> Ends] /\ \A p \in Clients : conn'[p] # "up"
      /\ down' \in [Clients -> Seq(PieceType)]
      /\ \A p \in Clients : down[p] = << >> => down'[p] = << >>
  BY <1>0, <1>1
<1>3. /\ up' \in [Clients -> Seq(PieceType)] /\ \A p \in Clients : up'[p] = << >>
      /\ UNCHANGED <<client, surplus, worker, mqueue, said>>
  BY DEF Exit, local, history
<1>4. ASSUME NEW q \in Senders PROVE Counted(q)' /\ Fresh(q)'
  <2>1. Fresh(q) /\ q \in Clients
    BY DEF Inv, Clients
  <2> QED BY <1>2, <1>3, <2>1 DEF Counted, Fresh
<1> QED BY <1>0, <1>2, <1>3, <1>4 DEF Inv

\* A worker takes a message and replies.
LEMMA ServedKeeps ==
  ASSUME Inv, NEW p \in Clients, NEW at \in Points, at # "ended", NEW tags, Takes(p, at, tags),
         NEW tag \in Tags, NEW next \in Points, Reply(p, tag, next),
         said' \in Seq(Sayings), mqueue' \in [Receivers -> Seq(1 .. Len(said'))],
         UNCHANGED <<client, conn, surplus>>
  PROVE  Inv'
<1> USE DEF Types
<1>0. Types
  BY DEF Inv
<1>1. up' = [up EXCEPT ![p] = Tail(@)] /\ up[p] # << >> /\ worker[p] = at
  BY DEF Takes
<1> DEFINE pieces == Short(tag)
<1>2. pieces \in Seq(PieceType) /\ Len(pieces) = 1 /\ Write(p, pieces, next)
  BY ShortIsSeq DEF Reply
<1> HIDE DEF pieces
<1>3. /\ down' \in [Clients -> Seq(PieceType)] /\ worker' \in [Clients -> Points]
      /\ \A q \in Clients : q # p => down'[q] = down[q] /\ worker'[q] = worker[q]
      /\ client[p] \notin Over => Len(down'[p]) = Len(down[p]) + 1
  <2>1. /\ down[p] \o pieces \in Seq(PieceType)
        /\ Len(down[p] \o pieces) = Len(down[p]) + 1
    <3>1. down[p] \in Seq(PieceType)
      BY <1>0
    <3>2. /\ down[p] \o pieces \in Seq(PieceType)
          /\ Len(down[p] \o pieces) = Len(down[p]) + Len(pieces)
      BY <1>2, <3>1, ConcatProperties
    <3> QED BY <1>2, <3>2
  <2>2. "ended" \in Points
    OBVIOUS
  <2>3. worker' \in [Clients -> Points] /\ \A q \in Clients : q # p => worker'[q] = worker[q]
    <3>1. \E w \in {next, "ended"} : worker' = [worker EXCEPT ![p] = w]
      BY <1>2 DEF Write
    <3>2. worker \in [Clients -> Points]
      BY <1>0
    <3> QED BY <2>2, <3>1, <3>2
  <2>4. CASE client[p] \notin Over
    <3>1. down' = [down EXCEPT ![p] = down[p] \o pieces]
      BY <1>2, <2>4 DEF Write
    <3> QED BY <1>0, <2>1, <2>3, <3>1
  <2>5. CASE client[p] \in Over
    <3>1. down' = down
      BY <1>2, <2>5 DEF Write
    <3> QED BY <1>0, <2>3, <2>5, <3>1
  <2> QED BY <2>4, <2>5
<1>4. Len(up'[p]) = Len(up[p]) - 1 /\ up' \in [Clients -> Seq(PieceType)]
  BY <1>0, <1>1
<1>5. ASSUME NEW q \in Senders PROVE Counted(q)' /\ Fresh(q)'
  <2>0. Counted(q) /\ Fresh(q) /\ q \in Clients
    BY DEF Inv, Clients
  <2>1. CASE q # p
    BY <1>0, <1>1, <1>3, <2>0, <2>1 DEF Counted, Fresh
  <2>2. CASE q = p
    <3>1. Len(up[q]) \in Nat /\ Len(down[q]) \in Nat /\ surplus[q] \in Int
      BY <1>0, <2>0
    <3>2. client[q] # "start"
      BY <1>1, <2>0, <2>2 DEF Fresh
    <3>3. Counted(q)'
      <4>1. SUFFICES ASSUME conn[q] = "up", client[q] \notin Over
                     PROVE  Len(up'[q]) + Len(down'[q])
                              = surplus[q] + (IF client[q] \in Blocked THEN 1 ELSE 0)
        BY DEF Counted
      <4>2. Len(up[q]) + Len(down[q]) = surplus[q] + (IF client[q] \in Blocked THEN 1 ELSE 0)
        BY <1>1, <2>0, <2>2, <4>1 DEF Counted
      <4>3. Len(up'[q]) = Len(up[q]) - 1 /\ Len(down'[q]) = Len(down[q]) + 1
        BY <1>3, <1>4, <2>2, <4>1
      <4> DEFINE due == IF client[q] \in Blocked THEN 1 ELSE 0
      <4>4. due \in Int
        OBVIOUS
      <4>5. Len(up[q]) + Len(down[q]) = surplus[q] + due
        BY <4>2
      <4> HIDE DEF due
      <4>6. (Len(up[q]) - 1) + (Len(down[q]) + 1) = surplus[q] + due
        <5>1. PICK a \in Nat, b \in Nat, c \in Int :
                a = Len(up[q]) /\ b = Len(down[q]) /\ c = surplus[q]
          BY <3>1
        <5>2. a + b = c + due
          BY <4>5, <5>1
        <5>3. (a - 1) + (b + 1) = c + due
          BY <4>4, <5>2
        <5> QED BY <5>1, <5>3
      <4>7. Len(up'[q]) + Len(down'[q]) = surplus[q] + due
        BY <2>2, <4>3, <4>6
      <4> QED BY <4>7 DEF due
    <3> QED BY <3>2, <3>3 DEF Fresh
  <2> QED BY <2>1, <2>2
<1> QED BY <1>0, <1>3, <1>4, <1>5 DEF Inv

LEMMA WorkerLoginKeeps == ASSUME Inv, NEW p \in Clients, WorkerLogin(p) PROVE Inv'
<1>1. /\ Takes(p, "login", {"slogin", "rlogin"}) /\ UNCHANGED <<client, conn, surplus, mqueue, said>>
      /\ \/ Reply(p, "err", "ended")
         \/ Reply(p, "ok", IF p \in Senders THEN "sender" ELSE "join")
  BY DEF WorkerLogin, unserved
<1>2. said' \in Seq(Sayings) /\ mqueue' \in [Receivers -> Seq(1 .. Len(said'))]
  BY <1>1 DEF Inv, Types
<1>3. CASE Reply(p, "err", "ended")
  BY <1>1, <1>2, <1>3, ServedKeeps
<1>4. CASE Reply(p, "ok", IF p \in Senders THEN "sender" ELSE "join")
  <2> DEFINE next == IF p \in Senders THEN "sender" ELSE "join"
  <2>1. next \in Points /\ Reply(p, "ok", next)
    BY <1>4
  <2> HIDE DEF next
  <2> QED BY <1>1, <1>2, <2>1, ServedKeeps
<1> QED BY <1>1, <1>3, <1>4

LEMMA WorkerJoinKeeps == ASSUME Inv, NEW p \in Clients, WorkerJoin(p) PROVE Inv'
<1>1. /\ Takes(p, "join", {"join"})
      /\ Reply(p, "err", "ended") \/ Reply(p, "ok", "receiver")
      /\ UNCHANGED <<client, conn, surplus, mqueue, said>>
  BY DEF WorkerJoin, unserved
<1>2. said' \in Seq(Sayings) /\ mqueue' \in [Receivers -> Seq(1 .. Len(said'))]
  BY <1>1 DEF Inv, Types
<1> QED BY <1>1, <1>2, ServedKeeps

\* The answers that change nothing else than the worker's room.
LEMMA AnsweredKeeps ==
  ASSUME Inv, NEW p \in Clients, Invalid(p) \/ Join(p) \/ Leave(p) \/ Quit(p)
  PROVE  Inv'
<1>1. UNCHANGED <<client, conn, surplus, mqueue, said>>
  BY DEF Invalid, Join, Leave, Quit, unserved
<1>2. said' \in Seq(Sayings) /\ mqueue' \in [Receivers -> Seq(1 .. Len(said'))]
  BY <1>1 DEF Inv, Types
<1>3. CASE Invalid(p)
  <2>1. Takes(p, "sender", {"other"}) /\ Reply(p, "err", "sender")
    BY <1>3 DEF Invalid
  <2> QED BY <1>1, <1>2, <2>1, ServedKeeps
<1>4. CASE Join(p)
  <2>1. /\ Takes(p, "sender", {"join"})
        /\ Reply(p, "ok", "sender") \/ Reply(p, "err", "sender")
    BY <1>4 DEF Join
  <2> QED BY <1>1, <1>2, <2>1, ServedKeeps
<1>5. CASE Leave(p)
  <2> DEFINE tag == IF current_room[p] THEN "ok" ELSE "err"
  <2>1. Takes(p, "sender", {"leave"}) /\ Reply(p, tag, "sender") /\ tag \in Tags
    BY <1>5 DEF Leave
  <2> HIDE DEF tag
  <2> QED BY <1>1, <1>2, <2>1, ServedKeeps
<1>6. CASE Quit(p)
  <2>1. Takes(p, "sender", {"quit"}) /\ Reply(p, "ok", "ended")
    BY <1>6 DEF Quit
  <2> QED BY <1>1, <1>2, <2>1, ServedKeeps
<1> QED BY <1>3, <1>4, <1>5, <1>6

\* What is said has a length, as has what a worker has read.
LEMMA BroadcastTypes ==
  ASSUME Inv, NEW p \in Senders, up[p] # << >>,
         Broadcast(DELIVERY[p] + Head(up[p]).size - 1)
  PROVE  /\ said' \in Seq(Sayings) /\ mqueue' \in [Receivers -> Seq(1 .. Len(said'))]
         /\ \E y \in Sayings : said' = Append(said, y)
<1> DEFINE n == DELIVERY[p] + Head(up[p]).size - 1
<1>0. Types /\ p \in Clients
  BY DEF Inv, Clients
<1>1. n \in Nat \ {0}
  <2>1. Head(up[p]) \in PieceType
    BY <1>0 DEF Types
  <2>2. Head(up[p]).size \in Nat
    BY <2>1 DEF PieceType
  <2>3. DELIVERY[p] \in Nat /\ DELIVERY[p] >= 2
    BY ClientsAssumption
  <2> QED BY <2>2, <2>3
<1> HIDE DEF n
<1>2. Broadcast(n)
  BY DEF n
<1>3. PICK tails \in DeliveryTails(n) : said' = Append(said, [length |-> n, tails |-> tails])
  BY <1>2 DEF Broadcast
<1>4. [length |-> n, tails |-> tails] \in Sayings
  <2>1. [length |-> n, tails |-> tails] \in [length : {n}, tails : DeliveryTails(n)]
    OBVIOUS
  <2> QED BY <1>1, <2>1 DEF Sayings
<1>5. said \in Seq(Sayings) /\ said' \in Seq(Sayings) /\ Len(said') = Len(said) + 1
      /\ Len(said) \in Nat
  BY <1>0, <1>3, <1>4 DEF Types
<1>6. mqueue' \in [Receivers -> Seq(1 .. Len(said'))]
  <2>1. ASSUME NEW q \in Receivers
        PROVE  /\ mqueue[q] \in Seq(1 .. Len(said) + 1)
               /\ Append(mqueue[q], Len(said) + 1) \in Seq(1 .. Len(said) + 1)
    <3>1. mqueue[q] \in Seq(1 .. Len(said))
      BY <1>0 DEF Types
    <3> QED BY <1>5, <3>1, MailboxGrows
  <2>2. mqueue' = [q \in Receivers |-> IF q \in Members THEN Append(mqueue[q], Len(said) + 1)
                                       ELSE mqueue[q]]
    BY <1>2 DEF Broadcast
  <2> QED BY <1>5, <2>1, <2>2
<1> QED BY <1>3, <1>4, <1>5, <1>6

LEMMA SendAllKeeps == ASSUME Inv, NEW p \in Senders, SendAll(p) PROVE Inv'
<1>0. p \in Clients
  BY DEF Clients
<1>1. /\ Takes(p, "sender", {"sendall"}) /\ UNCHANGED <<client, conn, surplus>>
      /\ Reply(p, "ok", "sender") \/ Reply(p, "err", "sender")
  BY DEF SendAll, unserved
<1>2. said' \in Seq(Sayings) /\ mqueue' \in [Receivers -> Seq(1 .. Len(said'))]
  <2>1. CASE UNCHANGED <<said, mqueue>>
    BY <2>1 DEF Inv, Types
  <2>2. CASE Broadcast(DELIVERY[p] + Head(up[p]).size - 1)
    BY <1>1, <2>2, BroadcastTypes DEF Takes
  <2> QED BY <2>1, <2>2 DEF SendAll
<1> QED BY <1>0, <1>1, <1>2, ServedKeeps

LEMMA DeliverKeeps == ASSUME Inv, NEW p \in Receivers, Deliver(p) PROVE Inv'
<1> DEFINE n == Head(mqueue[p])
           pieces == Pieces("delivery", said[n].length, said[n].tails, n)
<1>0. Types /\ p \in Clients /\ p \notin Senders
  BY ClientsAssumption DEF Inv, Clients
<1>1. /\ worker[p] = "receiver" /\ mqueue[p] # << >> /\ Write(p, pieces, "receiver")
      /\ mqueue' = [mqueue EXCEPT ![p] = IF worker'[p] = "ended" THEN << >> ELSE Tail(@)]
      /\ UNCHANGED <<client, conn, surplus, up, said>>
  BY DEF Deliver, unserved
<1>2. mqueue \in [Receivers -> Seq(1 .. Len(said))] /\ said \in Seq(Sayings)
  BY <1>0 DEF Types
<1>3. n \in 1 .. Len(said) /\ Tail(mqueue[p]) \in Seq(1 .. Len(said))
  BY <1>1, <1>2
<1>4. pieces \in Seq(PieceType)
  <2>1. said[n] \in Sayings /\ n \in Nat
    BY <1>2, <1>3
  <2> HIDE DEF n
  <2> QED BY <2>1, SayingHas, PiecesAreSeq
<1> HIDE DEF pieces, n
<1>5. /\ down' \in [Clients -> Seq(PieceType)] /\ worker' \in [Clients -> Points]
      /\ \A q \in Clients : q # p => down'[q] = down[q] /\ worker'[q] = worker[q]
  <2>1. down[p] \in Seq(PieceType) /\ down[p] \o pieces \in Seq(PieceType)
    BY <1>0, <1>4, ConcatProperties DEF Types
  <2>2. worker' \in [Clients -> Points] /\ \A q \in Clients : q # p => worker'[q] = worker[q]
    BY <1>0, <1>1 DEF Write, Types
  <2>3. down' = [down EXCEPT ![p] = down[p] \o pieces] \/ down' = down
    BY <1>1 DEF Write
  <2> QED BY <1>0, <2>1, <2>2, <2>3 DEF Types
<1>6. mqueue' \in [Receivers -> Seq(1 .. Len(said))]
  <2> DEFINE boxes == Seq(1 .. Len(said))
  <2>1. mqueue \in [Receivers -> boxes] /\ Tail(mqueue[p]) \in boxes /\ << >> \in boxes
    BY <1>2, <1>3
  <2> HIDE DEF boxes
  <2>2. mqueue' \in [Receivers -> boxes]
    BY <1>1, <2>1
  <2> QED BY <2>2 DEF boxes
<1>7. Types'
  BY <1>0, <1>1, <1>5, <1>6 DEF Types
<1>8. \A q \in Senders : q # p /\ q \in Clients
  BY <1>0 DEF Clients
<1> QED BY <1>1, <1>5, <1>7, <1>8, ApartKeeps

\* The steps that change a worker or a connection, and no queue.
LEMMA QuietKeeps ==
  ASSUME Inv,
         \/ Main \/ AcceptOther
         \/ \E p \in Clients : Answer(p) \/ AcceptServed(p) \/ ClientGone(p)
         \/ \E p \in Senders : InputEnds(p)
  PROVE  Inv'
<1>0. Types
  BY DEF Inv
<1>1. UNCHANGED <<client, surplus, up, down, mqueue, said>>
  BY DEF Main, AcceptOther, Answer, AcceptServed, ClientGone, InputEnds, local, history,
         elsewhere, unserved
<1>2. /\ conn' \in [Clients -> Ends] /\ worker' \in [Clients -> Points]
      /\ \A q \in Clients : /\ conn'[q] = "up" => conn[q] = "up"
                            /\ worker'[q] # "ended" => worker[q] # "ended"
  <2>1. CASE Main \/ AcceptOther \/ \E p \in Senders : InputEnds(p)
    BY <1>0, <2>1 DEF Types, Main, AcceptOther, InputEnds, elsewhere
  <2>2. CASE \E p \in Clients : Answer(p)
    BY <1>0, <2>2 DEF Types, Answer
  <2>3. CASE \E p \in Clients : AcceptServed(p)
    BY <1>0, <2>3 DEF Types, AcceptServed, Waiting
  <2>4. CASE \E p \in Clients : ClientGone(p)
    BY <1>0, <2>4 DEF Types, ClientGone, unserved
  <2> QED BY <2>1, <2>2, <2>3, <2>4
<1>3. Types'
  BY <1>0, <1>1, <1>2 DEF Types
<1> QED BY <1>1, <1>2, <1>3, ApartKeeps DEF Clients

-----------------------------------------------------------------------------
LEMMA NextKeeps == Inv /\ [Next]_vars => Inv'
<1> SUFFICES ASSUME Inv, [Next]_vars PROVE Inv'
  OBVIOUS
<1>1. CASE \/ Main \/ AcceptOther
           \/ \E p \in Clients : Answer(p) \/ AcceptServed(p) \/ ClientGone(p)
           \/ \E p \in Senders : InputEnds(p)
  BY <1>1, QuietKeeps
<1>2. CASE ServerEnds \/ AcceptFails
  BY <1>2, ExitKeeps DEF ServerEnds, AcceptFails
<1>3. ASSUME NEW p \in Clients, Connect(p) \/ Interrupted(p) PROVE Inv'
  BY <1>3, ConnectKeeps, InterruptedKeeps
<1>4. ASSUME NEW p \in Clients, Login(p) \/ SendJoin(p) PROVE Inv'
  BY <1>4, SendLoginKeeps, LoggedInKeeps, SendJoinKeeps DEF Login
<1>5. ASSUME NEW p \in Senders, UserTypes(p) \/ InputHasEnded(p) \/ GetReply(p) PROVE Inv'
  <2>1. CASE UserTypes(p)
    <3>1. PICK pieces \in Lines : SendLine(p, pieces)
      BY <2>1 DEF UserTypes
    <3> QED BY <3>1, LinesAreSeqs, SendLineKeeps
  <2>2. CASE InputHasEnded(p)
    BY <2>2, LinesAreSeqs, SendLineKeeps DEF InputHasEnded
  <2>3. CASE GetReply(p)
    BY <2>3, GetReplyKeeps
  <2> QED BY <1>5, <2>1, <2>2, <2>3
<1>6. ASSUME NEW p \in Clients, WorkerLogin(p) \/ WorkerJoin(p) PROVE Inv'
  BY <1>6, WorkerLoginKeeps, WorkerJoinKeeps
<1>7. ASSUME NEW p \in Senders, Invalid(p) \/ Join(p) \/ Leave(p) \/ SendAll(p) \/ Quit(p)
      PROVE  Inv'
  BY <1>7, AnsweredKeeps, SendAllKeeps DEF Clients
<1>8. ASSUME NEW p \in Receivers, Listen(p) \/ Deliver(p) PROVE Inv'
  BY <1>8, ListenKeeps, DeliverKeeps
<1>9. CASE UNCHANGED vars
  <2>1. UNCHANGED <<client, surplus, up, down, mqueue, said, conn, worker>>
    BY <1>9 DEF vars, history
  <2>2. Types'
    BY <2>1 DEF Inv, Types
  <2> QED BY <2>1, <2>2, ApartKeeps
<1>10. Senders \subseteq Clients /\ Receivers \subseteq Clients
  BY DEF Clients
<1>11. CASE Next
  <2>1. CASE Main \/ ServerEnds \/ AcceptOther \/ Accept
    BY <1>1, <1>2, <2>1 DEF Accept
  <2>2. CASE \E p \in Clients : Connect(p) \/ Answer(p) \/ Interrupted(p)
    BY <1>1, <1>3, <2>2
  <2>3. ASSUME NEW p \in Senders,
               UserTypes(p) \/ InputEnds(p) \/ SenderRuns(p) \/ SenderServed(p)
        PROVE  Inv'
    BY <1>1, <1>4, <1>5, <1>6, <1>7, <1>10, <2>3 DEF SenderRuns, SenderServed
  <2>4. ASSUME NEW p \in Receivers, ReceiverRuns(p) \/ ReceiverServed(p) PROVE Inv'
    BY <1>1, <1>4, <1>6, <1>8, <1>10, <2>4 DEF ReceiverRuns, ReceiverServed
  <2> QED BY <1>11, <2>1, <2>2, <2>3, <2>4 DEF Next
<1> QED BY <1>9, <1>11

\* For any number of clients, lines of any length and any number of descriptors,
\* a sender is exactly as many replies behind as its lines have had surplus pieces.
THEOREM RepliesLag == Spec => []RepliesLagBySurplus
<1>1. Inv => RepliesLagBySurplus
  BY DEF Inv, Counted, RepliesLagBySurplus
<1> QED BY <1>1, InitInv, NextKeeps, PTL DEF Spec
-----------------------------------------------------------------------------
(***************************************************************************)
(* What a receiver prints.  The pieces on their way to it follow on what   *)
(* it has printed, and what is in its mailbox follows on those: c[i] tells *)
(* what has been said that the first i pieces on their way go up to.       *)
(***************************************************************************)
From(j) == {x \in Nat : x >= j}
Cut(y) == y.length >= MAX_LEN
Deliveries == {"delivery", "delivery_tab"}

\* The first piece of y has the tag, and is all of it if y is not cut; if there is
\* another, y is cut.
Fits(x, y) == IF x.at = 1 THEN x.tag = "delivery" /\ (x.whole <=> ~ Cut(y)) ELSE Cut(y)

\* The piece x, which comes when a has been reached and reaches b, is an answer or
\* belongs to the b-th of what has been said, t, and that since a join at j.
Link(x, a, b, j, t) ==
  \/ x.said = 0 /\ x.tag \notin Deliveries /\ b = a
  \/ /\ x.said = b /\ b \in j + 1 .. Len(t) /\ Fits(x, t[b])
     /\ IF x.at = 1 THEN b = a + 1 ELSE b = a

\* The pieces s, to a receiver that joined at j.
Chain(c, s, j, t) ==
  /\ c \in [0 .. Len(s) -> From(j)]
  /\ \A i \in 1 .. Len(s) : Link(s[i], c[i - 1], c[i], j, t)

\* The mailbox m holds all that was said after k.
Waits(m, k, t) == k + Len(m) = Len(t) /\ \A i \in 1 .. Len(m) : m[i] = k + i

\* A piece x that is printed in a room of this name after one that belongs to a.
Named(name) == name = "plain" /\ ROOM < MAX_LEN
Right(x, a, j, name, t) ==
  /\ x.said \in j + 1 .. Len(t)
  /\ IF x.at = 1 THEN Named(name) /\ x.said = a + 1 /\ (x.whole <=> ~ Cut(t[x.said]))
     ELSE Cut(t[x.said]) /\ x.said >= a /\ (Named(name) => x.said = a)

After(r, k, j) == IF k = 0 THEN j ELSE r[k].said
Prints(r, j, name, t) == \A k \in 1 .. Len(r) : Right(r[k], After(r, k - 1, j), j, name, t)

\* What has been printed goes up to a, and what has been received to b.
Reached(a, b, name) == a <= b /\ (Named(name) => a = b)

Answers(s) == \A i \in 1 .. Len(s) : s[i].said = 0 /\ s[i].tag \notin Deliveries

Before == {"none", "login", "join"}

Follows(p) ==
  /\ Prints(printed[p], joined[p], room_name[p], said)
  /\ room_name[p] = "colon" => printed[p] = << >>
  /\ worker[p] \in Before => printed[p] = << >> /\ mqueue[p] = << >> /\ Answers(down[p])
  /\ client[p] \notin Over =>
       \E c : /\ Chain(c, down[p], joined[p], said)
              /\ Reached(After(printed[p], Len(printed[p]), joined[p]), c[0], room_name[p])
              /\ server # "ended" /\ worker[p] = "receiver" =>
                   Waits(mqueue[p], c[Len(down[p])], said)

Names == {"plain", "colon", "tab"}
HistoryTypes == /\ joined \in [Receivers -> Nat]
                /\ printed \in [Receivers -> Seq(PieceType)]
                /\ room_name \in [Receivers -> Names]

PrintInv == HistoryTypes /\ \A p \in Receivers : Follows(p)

\* What is printed last belongs to something that was said after the join.
LEMMA LastPrinted ==
  ASSUME NEW r \in Seq(PieceType), NEW j \in Nat, NEW name, NEW t \in Seq(Sayings),
         Prints(r, j, name, t)
  PROVE  After(r, Len(r), j) \in From(j)
<1>1. Len(r) \in Nat /\ Len(t) \in Nat
  OBVIOUS
<1>2. CASE Len(r) = 0
  BY <1>2 DEF After, From
<1>3. CASE Len(r) # 0
  <2>1. Len(r) \in 1 .. Len(r)
    BY <1>1, <1>3
  <2>2. r[Len(r)].said \in j + 1 .. Len(t)
    BY <2>1 DEF Prints, Right
  <2> QED BY <1>1, <1>3, <2>2 DEF After, From
<1> QED BY <1>2, <1>3

\* The piece is shown in a room of this name.
Visible(name, x) == \/ name = "plain" /\ x.tag = "delivery" /\ (x.at = 1 => ROOM < MAX_LEN)
                    \/ name = "tab" /\ x.tag = "delivery_tab"

\* A piece that is shown is right; if it is not, nothing is left out.
LEMMA LinkShown ==
  ASSUME NEW x, NEW a \in Nat, NEW b \in Nat, NEW d \in Nat, NEW j \in Nat, NEW t,
         NEW name \in Names, Reached(a, b, name), Link(x, b, d, j, t)
  PROVE  /\ Visible(name, x) => Right(x, a, j, name, t) /\ x.said = d
         /\ ~ Visible(name, x) => Reached(a, d, name)
         /\ d = b => Reached(a, d, name)
<1>1. CASE x.said = 0 /\ x.tag \notin Deliveries /\ d = b
  BY <1>1 DEF Visible, Deliveries
<1>2. CASE /\ x.said = d /\ d \in j + 1 .. Len(t) /\ Fits(x, t[d])
           /\ IF x.at = 1 THEN d = b + 1 ELSE d = b
  <2>1. CASE x.at = 1
    <3>1. d = b + 1 /\ x.tag = "delivery" /\ (x.whole <=> ~ Cut(t[x.said]))
      BY <1>2, <2>1 DEF Fits
    <3>2. Visible(name, x) = Named(name)
      BY <2>1, <3>1 DEF Visible, Named
    <3>3. Named(name) => a = b
      BY DEF Reached
    <3>4. a <= d /\ d # b
      BY <3>1 DEF Reached
    <3>5. CASE Named(name)
      BY <1>2, <2>1, <3>1, <3>2, <3>3, <3>4, <3>5 DEF Right
    <3>6. CASE ~ Named(name)
      BY <3>2, <3>4, <3>6 DEF Reached
    <3> QED BY <3>5, <3>6
  <2>2. CASE x.at # 1
    <3>1. d = b /\ Cut(t[x.said])
      BY <1>2, <2>2 DEF Fits
    <3>2. x.said >= a /\ (Named(name) => x.said = a)
      BY <1>2, <3>1 DEF Reached
    <3> QED BY <1>2, <2>2, <3>1, <3>2 DEF Right
  <2> QED BY <2>1, <2>2
<1> QED BY <1>1, <1>2 DEF Link

\* What the first of the pieces is, and that the others go on from there.
Advances(c, s, j, t) ==
  /\ \E d : Chain(d, Tail(s), j, t) /\ d[0] = c[1] /\ d[Len(Tail(s))] = c[Len(s)]
  /\ c[0] \in From(j) /\ c[1] \in From(j) /\ Link(s[1], c[0], c[1], j, t)

LEMMA ChainTail ==
  ASSUME NEW s \in Seq(PieceType), s # << >>, NEW j \in Nat, NEW t, NEW c, Chain(c, s, j, t)
  PROVE  Advances(c, s, j, t)
<1> DEFINE d == [i \in 0 .. Len(s) - 1 |-> c[i + 1]]
<1>1. /\ Len(s) \in Nat \ {0} /\ Tail(s) \in Seq(PieceType) /\ Len(Tail(s)) = Len(s) - 1
      /\ \A i \in 1 .. Len(Tail(s)) : Tail(s)[i] = s[i + 1]
  OBVIOUS
<1>2. c \in [0 .. Len(s) -> From(j)]
  BY DEF Chain
<1>3. d \in [0 .. Len(Tail(s)) -> From(j)] /\ d[0] = c[1] /\ d[Len(Tail(s))] = c[Len(s)]
  BY <1>1, <1>2
<1>4. \A i \in 0 .. Len(s) - 1 : d[i] = c[i + 1]
  OBVIOUS
<1> HIDE DEF d
<1>5. ASSUME NEW i \in 1 .. Len(Tail(s)) PROVE Link(Tail(s)[i], d[i - 1], d[i], j, t)
  <2>1. i + 1 \in 1 .. Len(s) /\ d[i] = c[i + 1] /\ d[i - 1] = c[(i + 1) - 1]
    BY <1>1, <1>4
  <2>2. Link(s[i + 1], c[(i + 1) - 1], c[i + 1], j, t)
    BY <2>1 DEF Chain
  <2> QED BY <1>1, <2>1, <2>2
<1>6. Chain(d, Tail(s), j, t)
  BY <1>3, <1>5 DEF Chain
<1>7. 1 \in 1 .. Len(s) /\ 1 - 1 = 0 /\ 0 \in 0 .. Len(s) /\ 1 \in 0 .. Len(s)
  BY <1>1
<1>8. Link(s[1], c[0], c[1], j, t) /\ c[0] \in From(j) /\ c[1] \in From(j)
  <2>1. Link(s[1], c[1 - 1], c[1], j, t)
    BY <1>7 DEF Chain
  <2> QED BY <1>2, <1>7, <2>1
<1> QED BY <1>3, <1>6, <1>8 DEF Advances

LEMMA ChainEnds ==
  ASSUME NEW s \in Seq(PieceType), NEW j \in Nat, NEW t, NEW c, Chain(c, s, j, t)
  PROVE  c[Len(s)] \in From(j) /\ c[0] \in From(j)
<1>1. Len(s) \in Nat
  OBVIOUS
<1>2. c \in [0 .. Len(s) -> From(j)] /\ Len(s) \in 0 .. Len(s) /\ 0 \in 0 .. Len(s)
  BY <1>1 DEF Chain
<1> QED BY <1>2

\* Pieces that are sent of what was said after the first k.
Brings(more, k, j, t) ==
  /\ more \in Seq(PieceType) /\ more # << >>
  /\ Link(more[1], k, k + 1, j, t)
  /\ \A i \in 2 .. Len(more) : Link(more[i], k + 1, k + 1, j, t)

Reaches(s, b, j, t, k) == \E c : Chain(c, s, j, t) /\ c[0] = b /\ c[Len(s)] = k

LEMMA ChainAppend ==
  ASSUME NEW s \in Seq(PieceType), NEW j \in Nat, NEW t,
         NEW c, Chain(c, s, j, t), NEW more, Brings(more, c[Len(s)], j, t)
  PROVE  Reaches(s \o more, c[0], j, t, c[Len(s)] + 1)
<1> DEFINE u == s \o more
           l == Len(s)
           m == Len(more)
           k == c[Len(s)]
           d == [i \in 0 .. l + m |-> IF i <= l THEN c[i] ELSE k + 1]
<1>1. /\ l \in Nat /\ m \in Nat \ {0} /\ Len(u) = l + m
      /\ \A i \in 1 .. l : u[i] = s[i]
      /\ \A i \in 1 .. m : u[l + i] = more[i]
  BY DEF Brings
<1>2. c \in [0 .. l -> From(j)] /\ k \in From(j) /\ k + 1 \in From(j)
  <2>1. c \in [0 .. l -> From(j)] /\ k \in From(j)
    BY ChainEnds DEF Chain
  <2>2. k + 1 \in From(j)
    BY <2>1 DEF From
  <2> QED BY <2>1, <2>2
<1>3. k = c[l]
  OBVIOUS
<1>4. d = [i \in 0 .. l + m |-> IF i <= l THEN c[i] ELSE k + 1]
  OBVIOUS
<1> HIDE DEF u, l, m, k, d
<1>5. \A i \in 0 .. l : d[i] = c[i]
  BY <1>1, <1>4
<1>6. \A i \in l + 1 .. l + m : d[i] = k + 1
  BY <1>1, <1>4
<1>7. d \in [0 .. Len(u) -> From(j)] /\ d[0] = c[0] /\ d[Len(u)] = k + 1
  <2>1. ASSUME NEW i \in 0 .. l + m PROVE d[i] \in From(j)
    <3>1. i \in 0 .. l \/ i \in l + 1 .. l + m
      BY <1>1
    <3> QED BY <1>2, <1>5, <1>6, <3>1
  <2>2. d \in [0 .. l + m -> From(j)]
    BY <1>4, <2>1
  <2>3. 0 \in 0 .. l /\ l + m \in l + 1 .. l + m
    BY <1>1
  <2> QED BY <1>1, <1>5, <1>6, <2>2, <2>3
<1>8. ASSUME NEW i \in 1 .. Len(u) PROVE Link(u[i], d[i - 1], d[i], j, t)
  <2>1. CASE i \in 1 .. l
    <3>1. i \in 0 .. l /\ i - 1 \in 0 .. l
      BY <1>1, <2>1
    <3>2. Link(s[i], c[i - 1], c[i], j, t)
      BY <2>1 DEF Chain, l
    <3> QED BY <1>1, <1>5, <2>1, <3>1, <3>2
  <2>2. CASE i = l + 1
    <3>1. i \in l + 1 .. l + m /\ i - 1 \in 0 .. l /\ i - 1 = l /\ 1 \in 1 .. m
      BY <1>1, <2>2
    <3>2. u[i] = more[1] /\ d[i] = k + 1 /\ d[i - 1] = k
      BY <1>1, <1>3, <1>5, <1>6, <2>2, <3>1
    <3> QED BY <3>2 DEF Brings, k
  <2>3. CASE i \in l + 2 .. l + m
    <3>1. i \in l + 1 .. l + m /\ i - 1 \in l + 1 .. l + m
      BY <1>1, <2>3
    <3>2. PICK n \in 2 .. m : i = l + n
      <4>1. i - l \in 2 .. m /\ i = l + (i - l)
        BY <1>1, <2>3
      <4> QED BY <4>1
    <3>3. n \in 1 .. m /\ u[i] = more[n]
      BY <1>1, <3>2
    <3>4. Link(more[n], k + 1, k + 1, j, t)
      BY <3>2 DEF Brings, k, m
    <3> QED BY <1>6, <3>1, <3>3, <3>4
  <2>4. i \in 1 .. l \/ i = l + 1 \/ i \in l + 2 .. l + m
    BY <1>1
  <2> QED BY <2>1, <2>2, <2>3, <2>4
<1>9. Chain(d, u, j, t)
  BY <1>7, <1>8 DEF Chain
<1> QED BY <1>7, <1>9 DEF u, k, Reaches

\* Everything on its way is an answer.
LEMMA ChainOfAnswers ==
  ASSUME NEW s \in Seq(PieceType), Answers(s), NEW j \in Nat, NEW b \in From(j), NEW t
  PROVE  Reaches(s, b, j, t, b)
<1> DEFINE d == [i \in 0 .. Len(s) |-> b]
<1>1. Len(s) \in Nat
  OBVIOUS
<1>2. d \in [0 .. Len(s) -> From(j)] /\ d[0] = b /\ d[Len(s)] = b
  BY <1>1
<1>3. ASSUME NEW i \in 1 .. Len(s) PROVE Link(s[i], d[i - 1], d[i], j, t)
  <2>1. d[i] = b /\ d[i - 1] = b
    BY <1>1
  <2> QED BY <2>1 DEF Answers, Link
<1> QED BY <1>2, <1>3 DEF Chain, Reaches

\* Something is said.
LEMMA ChainGrows ==
  ASSUME NEW s \in Seq(PieceType), NEW j \in Nat, NEW t \in Seq(Sayings), NEW y \in Sayings,
         NEW c, Chain(c, s, j, t)
  PROVE  Chain(c, s, j, Append(t, y))
<1>1. /\ Len(Append(t, y)) = Len(t) + 1 /\ Len(t) \in Nat
      /\ \A i \in 1 .. Len(t) : Append(t, y)[i] = t[i]
  OBVIOUS
<1>2. \A b \in j + 1 .. Len(t) : b \in 1 .. Len(t) /\ b \in j + 1 .. Len(Append(t, y))
  BY <1>1
<1>3. ASSUME NEW i \in 1 .. Len(s) PROVE Link(s[i], c[i - 1], c[i], j, Append(t, y))
  <2>1. Link(s[i], c[i - 1], c[i], j, t)
    BY DEF Chain
  <2> QED BY <1>1, <1>2, <2>1, Zenon DEF Link
<1> QED BY <1>3 DEF Chain

LEMMA PrintsGrows ==
  ASSUME NEW r \in Seq(PieceType), NEW j \in Nat, NEW t \in Seq(Sayings), NEW y \in Sayings,
         NEW name, Prints(r, j, name, t)
  PROVE  Prints(r, j, name, Append(t, y))
<1>1. /\ Len(Append(t, y)) = Len(t) + 1 /\ Len(t) \in Nat
      /\ \A i \in 1 .. Len(t) : Append(t, y)[i] = t[i]
  OBVIOUS
<1>2. \A b \in j + 1 .. Len(t) : b \in 1 .. Len(t) /\ b \in j + 1 .. Len(Append(t, y))
  BY <1>1
<1>3. ASSUME NEW k \in 1 .. Len(r)
      PROVE  Right(r[k], After(r, k - 1, j), j, name, Append(t, y))
  <2>1. Right(r[k], After(r, k - 1, j), j, name, t)
    BY DEF Prints
  <2>2. Append(t, y)[r[k].said] = t[r[k].said]
    BY <1>1, <1>2, <2>1 DEF Right
  <2> QED BY <1>2, <2>1, <2>2, Zenon DEF Right
<1> QED BY <1>3 DEF Prints

LEMMA PrintsNext ==
  ASSUME NEW r \in Seq(PieceType), NEW j \in Nat, NEW t, NEW name, NEW x \in PieceType,
         Prints(r, j, name, t), Right(x, After(r, Len(r), j), j, name, t)
  PROVE  /\ Prints(Append(r, x), j, name, t)
         /\ After(Append(r, x), Len(Append(r, x)), j) = x.said
<1>1. /\ Len(Append(r, x)) = Len(r) + 1 /\ Len(r) \in Nat
      /\ \A i \in 1 .. Len(r) : Append(r, x)[i] = r[i]
      /\ Append(r, x)[Len(r) + 1] = x
  OBVIOUS
<1>2. ASSUME NEW k \in 1 .. Len(r) + 1
      PROVE  Right(Append(r, x)[k], After(Append(r, x), k - 1, j), j, name, t)
  <2>1. After(Append(r, x), k - 1, j) = After(r, k - 1, j)
    <3>1. k - 1 = 0 \/ k - 1 \in 1 .. Len(r)
      BY <1>1
    <3> QED BY <1>1, <3>1 DEF After
  <2>2. CASE k = Len(r) + 1
    <3>1. k - 1 = Len(r)
      BY <1>1, <2>2
    <3> QED BY <1>1, <2>1, <2>2, <3>1
  <2>3. CASE k # Len(r) + 1
    <3>1. k \in 1 .. Len(r)
      BY <1>1, <2>3
    <3> QED BY <1>1, <2>1, <3>1 DEF Prints
  <2> QED BY <2>2, <2>3
<1> QED BY <1>1, <1>2 DEF Prints, After

LEMMA WaitsMore ==
  ASSUME NEW m, NEW k \in Nat, NEW t \in Seq(Sayings), NEW y \in Sayings,
         m \in Seq(1 .. Len(t)), Waits(m, k, t)
  PROVE  Waits(Append(m, Len(t) + 1), k, Append(t, y))
<1>1. Len(Append(t, y)) = Len(t) + 1 /\ Len(t) \in Nat
  OBVIOUS
<1> DEFINE n == Len(t) + 1
<1>2. /\ Len(Append(m, n)) = Len(m) + 1 /\ Len(m) \in Nat
      /\ \A i \in 1 .. Len(m) : Append(m, n)[i] = m[i]
      /\ Append(m, n)[Len(m) + 1] = n
  OBVIOUS
<1>3. k + Len(m) = Len(t)
  BY DEF Waits
<1> HIDE DEF n
<1>4. ASSUME NEW i \in 1 .. Len(m) + 1 PROVE Append(m, n)[i] = k + i
  <2>1. CASE i = Len(m) + 1
    <3>1. k + (Len(m) + 1) = n
      BY <1>1, <1>2, <1>3 DEF n
    <3> QED BY <1>2, <2>1, <3>1
  <2>2. CASE i # Len(m) + 1
    <3>1. i \in 1 .. Len(m)
      BY <1>2, <2>2
    <3> QED BY <1>2, <3>1 DEF Waits
  <2> QED BY <2>1, <2>2
<1>5. k + (Len(m) + 1) = Len(t) + 1
  BY <1>1, <1>2, <1>3
<1> QED BY <1>1, <1>2, <1>4, <1>5 DEF Waits, n

LEMMA WaitsLess ==
  ASSUME NEW m, m # << >>, NEW k \in Nat, NEW t \in Seq(Sayings), m \in Seq(1 .. Len(t)),
         Waits(m, k, t)
  PROVE  /\ Waits(Tail(m), k + 1, t)
         /\ k + 1 <= Len(t) /\ Head(m) = k + 1
<1>1. /\ Len(Tail(m)) = Len(m) - 1 /\ Len(m) \in Nat \ {0} /\ Head(m) = m[1]
      /\ \A i \in 1 .. Len(m) - 1 : Tail(m)[i] = m[i + 1]
      /\ Len(t) \in Nat
  OBVIOUS
<1>2. k + Len(m) = Len(t)
  BY DEF Waits
<1>3. ASSUME NEW i \in 1 .. Len(Tail(m)) PROVE Tail(m)[i] = (k + 1) + i
  <2>1. i + 1 \in 1 .. Len(m) /\ k + (i + 1) = (k + 1) + i
    BY <1>1
  <2>2. m[i + 1] = k + (i + 1)
    BY <2>1 DEF Waits
  <2> QED BY <1>1, <2>1, <2>2
<1>4. (k + 1) + Len(Tail(m)) = Len(t) /\ k + 1 <= Len(t)
  BY <1>1, <1>2
<1>5. 1 \in 1 .. Len(m)
  BY <1>1
<1> QED BY <1>1, <1>3, <1>4, <1>5 DEF Waits

(***************************************************************************)
(* The steps, for one receiver p.                                          *)
(***************************************************************************)
\* Nothing happens to it but that it, its connection or the server may end, or
\* that its worker comes nearer to a join.
LEMMA FollowsWhenLeft ==
  ASSUME NEW p \in Receivers, HistoryTypes, said \in Seq(Sayings), Follows(p),
         UNCHANGED <<said, joined, room_name>>,
         printed'[p] = printed[p], mqueue'[p] = mqueue[p],
         client[p] \in Over => client'[p] \in Over,
         server = "ended" => server' = "ended",
         worker'[p] = "receiver" => worker[p] = "receiver",
         worker'[p] \in Before => worker[p] \in Before,
         \/ down'[p] = down[p]
         \/ down'[p] = << >> /\ (server' = "ended" \/ client'[p] \in Over)
  PROVE  Follows(p)'
<1> DEFINE a == After(printed[p], Len(printed[p]), joined[p])
<1>1. /\ Prints(printed[p], joined[p], room_name[p], said)'
      /\ (room_name[p] = "colon" => printed[p] = << >>)'
  BY DEF Follows
<1>2. (worker[p] \in Before => printed[p] = << >> /\ mqueue[p] = << >> /\ Answers(down[p]))'
  BY DEF Follows, Answers
<1>3. ASSUME client'[p] \notin Over
      PROVE  \E c : /\ Chain(c, down'[p], joined[p], said)
                    /\ Reached(a, c[0], room_name[p])
                    /\ server' # "ended" /\ worker'[p] = "receiver" =>
                         Waits(mqueue[p], c[Len(down'[p])], said)
  <2>1. CASE down'[p] = down[p]
    BY <1>3, <2>1 DEF Follows
  <2>2. CASE down'[p] = << >> /\ server' = "ended"
    <3>1. a \in From(joined[p]) /\ joined[p] \in Nat
      BY LastPrinted DEF HistoryTypes, Follows
    <3> HIDE DEF a
    <3>2. down'[p] \in Seq(PieceType) /\ Answers(down'[p])
      BY <2>2 DEF Answers
    <3>3. PICK d : Chain(d, down'[p], joined[p], said) /\ d[0] = a
      <4>1. Reaches(down'[p], a, joined[p], said, a)
        BY <3>1, <3>2, ChainOfAnswers
      <4> QED BY <4>1 DEF Reaches
    <3>4. Reached(a, d[0], room_name[p])
      BY <3>1, <3>3 DEF Reached, From
    <3> QED BY <2>2, <3>3, <3>4
  <2> QED BY <1>3, <2>1, <2>2
<1>4. /\ After(printed[p], Len(printed[p]), joined[p])' = a
      /\ UNCHANGED <<said, joined, room_name>>
  OBVIOUS
<1> HIDE DEF a
<1> QED BY <1>1, <1>2, <1>3, <1>4 DEF Follows

\* Something is said: it goes to the mailbox if the worker has joined.
LEMMA FollowsWhenSaid ==
  ASSUME NEW p \in Receivers, HistoryTypes, said \in Seq(Sayings), NEW y \in Sayings,
         mqueue[p] \in Seq(1 .. Len(said)), down[p] \in Seq(PieceType),
         Follows(p), said' = Append(said, y),
         mqueue'[p] = IF worker[p] = "receiver" THEN Append(mqueue[p], Len(said) + 1)
                      ELSE mqueue[p],
         UNCHANGED <<joined, room_name, printed, client, server>>,
         down'[p] = down[p], worker'[p] = worker[p]
  PROVE  Follows(p)'
<1> DEFINE a == After(printed[p], Len(printed[p]), joined[p])
<1>0. joined[p] \in Nat /\ printed[p] \in Seq(PieceType)
  BY DEF HistoryTypes
<1>1. /\ Prints(printed[p], joined[p], room_name[p], said)'
      /\ (room_name[p] = "colon" => printed[p] = << >>)'
  BY <1>0, PrintsGrows DEF Follows
<1>2. (worker[p] \in Before => printed[p] = << >> /\ mqueue[p] = << >> /\ Answers(down[p]))'
  BY DEF Follows, Answers, Before
<1>3. ASSUME client[p] \notin Over
      PROVE  \E c : /\ Chain(c, down[p], joined[p], said')
                    /\ Reached(a, c[0], room_name[p])
                    /\ server # "ended" /\ worker[p] = "receiver" =>
                         Waits(mqueue'[p], c[Len(down[p])], said')
  <2>1. PICK c : /\ Chain(c, down[p], joined[p], said)
                 /\ Reached(a, c[0], room_name[p])
                 /\ server # "ended" /\ worker[p] = "receiver" =>
                      Waits(mqueue[p], c[Len(down[p])], said)
    BY <1>3 DEF Follows
  <2>2. Chain(c, down[p], joined[p], said')
    BY <1>0, <2>1, ChainGrows
  <2>3. c[Len(down[p])] \in Nat
    BY <1>0, <2>1, ChainEnds DEF From
  <2>4. ASSUME server # "ended", worker[p] = "receiver"
        PROVE  Waits(mqueue'[p], c[Len(down[p])], said')
    BY <1>0, <2>1, <2>3, <2>4, WaitsMore
  <2> QED BY <2>1, <2>2, <2>4
<1>4. After(printed[p], Len(printed[p]), joined[p])' = a
  OBVIOUS
<1> HIDE DEF a
<1> QED BY <1>1, <1>2, <1>3, <1>4 DEF Follows

\* A piece is received, and printed if the program listens and the piece is shown
\* in its room; otherwise the program is over, or nothing new has been reached.
LEMMA FollowsWhenReceived ==
  ASSUME NEW p \in Receivers, HistoryTypes, said \in Seq(Sayings),
         down[p] \in Seq(PieceType), Follows(p),
         down[p] # << >>, down' = [down EXCEPT ![p] = Tail(@)],
         down \in [Clients -> Seq(PieceType)],
         UNCHANGED <<said, joined, room_name, mqueue, worker, server>>,
         client[p] \notin Over,
         \/ /\ Visible(room_name[p], Head(down[p]))
            /\ printed'[p] = Append(printed[p], Head(down[p]))
         \/ /\ printed'[p] = printed[p]
            /\ \/ ~ Visible(room_name[p], Head(down[p])) \/ client'[p] \in Over
               \/ Head(down[p]).tag \notin Deliveries
  PROVE  Follows(p)'
<1> DEFINE r == printed[p]
           x == Head(down[p])
           j == joined[p]
           name == room_name[p]
           a == After(r, Len(r), j)
<1>0. /\ j \in Nat /\ r \in Seq(PieceType) /\ x \in PieceType /\ p \in Clients
      /\ down'[p] = Tail(down[p]) /\ x = down[p][1] /\ name \in Names
  BY DEF HistoryTypes, Clients
<1>1. Answers(down[p]) => Answers(down'[p]) /\ x.said = 0 /\ x.tag \notin Deliveries
  <2>1. /\ \A i \in 1 .. Len(Tail(down[p])) : /\ Tail(down[p])[i] = down[p][i + 1]
                                              /\ i + 1 \in 1 .. Len(down[p])
        /\ 1 \in 1 .. Len(down[p])
    OBVIOUS
  <2> QED BY <1>0, <2>1 DEF Answers
<1>2. a \in Nat /\ Prints(r, j, name, said)
  BY <1>0, LastPrinted DEF Follows, From
<1>3. PICK c : /\ Chain(c, down[p], j, said) /\ Reached(a, c[0], name)
               /\ server # "ended" /\ worker[p] = "receiver" =>
                    Waits(mqueue[p], c[Len(down[p])], said)
  BY DEF Follows
<1>4. /\ \E d : Chain(d, down'[p], j, said) /\ d[0] = c[1] /\ d[Len(down'[p])] = c[Len(down[p])]
      /\ c[0] \in Nat /\ c[1] \in Nat /\ Link(x, c[0], c[1], j, said)
  <2>1. Advances(c, down[p], j, said)
    BY <1>0, <1>3, ChainTail
  <2> QED BY <1>0, <2>1 DEF Advances, From
<1>5. PICK d : Chain(d, down'[p], j, said) /\ d[0] = c[1] /\ d[Len(down'[p])] = c[Len(down[p])]
  BY <1>4
<1>7. server # "ended" /\ worker[p] = "receiver" => Waits(mqueue[p], d[Len(down'[p])], said)
  BY <1>3, <1>5
<1>8. r = printed[p] /\ j = joined[p] /\ name = room_name[p] /\ a = After(r, Len(r), j)
      /\ x = Head(down[p])
  OBVIOUS
<1> HIDE DEF r, x, j, name, a
<1>6. /\ Visible(name, x) => Right(x, a, j, name, said) /\ x.said = c[1]
      /\ ~ Visible(name, x) => Reached(a, c[1], name)
  <2> DEFINE b == c[0]
             e == c[1]
  <2>1. /\ a \in Nat /\ b \in Nat /\ e \in Nat /\ j \in Nat /\ name \in Names
        /\ Reached(a, b, name) /\ Link(x, b, e, j, said)
    BY <1>0, <1>2, <1>3, <1>4
  <2> HIDE DEF b, e
  <2>2. /\ Visible(name, x) => Right(x, a, j, name, said) /\ x.said = e
        /\ ~ Visible(name, x) => Reached(a, e, name)
    BY <2>1, LinkShown
  <2> QED BY <2>2 DEF e
<1>9. CASE Visible(name, x) /\ printed'[p] = Append(r, x)
  <2>1. Prints(printed'[p], j, name, said) /\ After(printed'[p], Len(printed'[p]), j) = c[1]
    BY <1>0, <1>2, <1>6, <1>8, <1>9, PrintsNext
  <2>2. Reached(c[1], d[0], name)
    BY <1>4, <1>5 DEF Reached
  <2>3. worker[p] \notin Before
    <3>1. x.tag \in Deliveries
      BY <1>9 DEF Visible, Deliveries
    <3> QED BY <1>1, <3>1 DEF Follows
  <2>4. name # "colon"
    BY <1>9 DEF Visible
  <2> QED BY <1>5, <1>7, <1>8, <2>1, <2>2, <2>3, <2>4 DEF Follows
<1>10. CASE printed'[p] = printed[p] /\ client'[p] \in Over
  BY <1>1, <1>10 DEF Follows
<1>11. CASE printed'[p] = printed[p] /\ ~ Visible(name, x)
  <2>1. Reached(a, d[0], name)
    BY <1>5, <1>6, <1>11
  <2>2. /\ Prints(printed'[p], joined[p], room_name[p], said)
        /\ room_name[p] = "colon" => printed'[p] = << >>
        /\ worker[p] \in Before => printed'[p] = << >> /\ mqueue[p] = << >> /\ Answers(down'[p])
    BY <1>1, <1>11 DEF Follows
  <2>3. After(printed'[p], Len(printed'[p]), joined[p]) = a
    BY <1>8, <1>11
  <2> QED BY <1>5, <1>7, <1>8, <2>1, <2>2, <2>3 DEF Follows
<1>12. x.tag \notin Deliveries => ~ Visible(name, x)
  BY DEF Visible, Deliveries
<1> QED BY <1>8, <1>9, <1>10, <1>11, <1>12

LEMMA AnswerMore ==
  ASSUME NEW s \in Seq(PieceType), Answers(s), NEW tag \in Tags \ Deliveries
  PROVE  s \o Short(tag) \in Seq(PieceType) /\ Answers(s \o Short(tag))
<1> DEFINE more == Short(tag)
<1>1. /\ more \in Seq(PieceType) /\ Len(more) = 1
      /\ more[1].said = 0 /\ more[1].tag \notin Deliveries
  BY ShortIsSeq DEF Piece
<1> HIDE DEF more
<1>2. /\ s \o more \in Seq(PieceType) /\ Len(s \o more) = Len(s) + Len(more)
      /\ \A i \in 1 .. Len(s) : (s \o more)[i] = s[i]
      /\ \A i \in 1 .. Len(more) : (s \o more)[Len(s) + i] = more[i]
  <2>1. more \in Seq(PieceType)
    BY <1>1
  <2> QED BY <2>1
<1>3. Len(s) \in Nat /\ 1 \in 1 .. Len(more)
  BY <1>1
<1>4. ASSUME NEW i \in 1 .. Len(s \o more)
      PROVE  (s \o more)[i].said = 0 /\ (s \o more)[i].tag \notin Deliveries
  <2>1. i \in 1 .. Len(s) \/ i = Len(s) + 1
    BY <1>1, <1>2, <1>3
  <2> QED BY <1>1, <1>2, <1>3, <2>1 DEF Answers
<1> QED BY <1>2, <1>4 DEF Answers, more

\* What is next, as Deliver sends it: the client's first piece is all of it exactly
\* if it is shorter than MAX_LEN.
LEMMA DeliveryBrings ==
  ASSUME NEW j \in Nat, NEW k \in From(j), NEW t \in Seq(Sayings), k + 1 <= Len(t),
         NEW number, number = k + 1, NEW y, y = t[number]
  PROVE  Brings(Pieces("delivery", y.length, y.tails, number), k, j, t)
<1> DEFINE n == Count(y.length)
           more == Pieces("delivery", y.length, y.tails, number)
<1>1. number \in 1 .. Len(t) /\ number \in j + 1 .. Len(t) /\ number \in Nat
  BY DEF From
<1>2. y \in Sayings
  BY <1>1
<1>3. y.length \in Nat \ {0} /\ \A i \in 2 .. n : y.tails[i] \in Tags
  BY <1>2, SayingHas
<1>4. n \in Nat /\ n >= 1 /\ (n = 1 <=> y.length < MAX_LEN)
  BY <1>3, Counts
<1>5. more \in Seq(PieceType) /\ Len(more) = n
  <2> DEFINE tails == y.tails
             length == y.length
             tag == "delivery"
  <2>1. /\ tag \in Tags /\ length \in Nat \ {0} /\ number \in Nat
        /\ \A i \in 2 .. Count(length) : tails[i] \in Tags
    BY <1>1, <1>3
  <2> HIDE DEF tails, length, tag
  <2>2. /\ Pieces(tag, length, tails, number) \in Seq(PieceType)
        /\ Len(Pieces(tag, length, tails, number)) = Count(length)
    BY <2>1, PiecesAreSeq
  <2> QED BY <2>2 DEF tails, length, tag
<1>6. ASSUME NEW i \in 1 .. n
      PROVE  /\ more[i].said = number /\ more[i].at = i
             /\ i = 1 => more[i].tag = "delivery"
             /\ more[i].whole = (i = n)
  <2>1. more[i] = [tag   |-> IF i = 1 THEN "delivery" ELSE y.tails[i],
                   size  |-> Size(y.length, i), whole |-> i = n, at |-> i, said |-> number]
    BY DEF Pieces, Piece
  <2> QED BY <2>1
<1> HIDE DEF n, more
<1>7. Cut(y) <=> ~ y.length < MAX_LEN
  <2>1. MAX_LEN \in Nat /\ y.length \in Nat
    BY <1>3, ClientsAssumption
  <2> QED BY <2>1 DEF Cut
<1>8. Link(more[1], k, k + 1, j, t)
  <2>1. 1 \in 1 .. n
    BY <1>4
  <2>3. /\ more[1].said = number /\ more[1].at = 1 /\ more[1].tag = "delivery"
        /\ more[1].whole = (1 = n)
    BY <1>6, <2>1
  <2>4. Fits(more[1], t[number])
    BY <1>4, <1>7, <2>3 DEF Fits
  <2> QED BY <1>1, <2>3, <2>4 DEF Link
<1>9. ASSUME NEW i \in 2 .. n PROVE Link(more[i], k + 1, k + 1, j, t)
  <2>1. i \in 1 .. n /\ i # 1 /\ n # 1
    BY <1>4
  <2>2. more[i].said = number /\ more[i].at = i
    BY <1>6, <2>1
  <2>3. Fits(more[i], t[number])
    BY <1>4, <1>7, <2>1, <2>2 DEF Fits
  <2> QED BY <1>1, <2>1, <2>2, <2>3 DEF Link
<1>10. more # << >>
  BY <1>4, <1>5
<1> QED BY <1>5, <1>8, <1>9, <1>10 DEF Brings, more

\* A worker that has not joined answers, and does not join.
LEMMA FollowsWhenAnswered ==
  ASSUME NEW p \in Receivers, HistoryTypes, down \in [Clients -> Seq(PieceType)],
         worker \in [Clients -> Points], Follows(p),
         worker[p] \in Before, NEW tag \in Tags \ Deliveries, NEW next \in Before \cup {"ended"},
         Reply(p, tag, next),
         UNCHANGED <<said, joined, room_name, mqueue, printed, client, server>>
  PROVE  Follows(p)'
<1> DEFINE more == Short(tag)
<1>0. /\ p \in Clients /\ down[p] \in Seq(PieceType) /\ "receiver" \notin Before
      /\ joined[p] \in Nat /\ joined[p] \in From(joined[p])
  BY DEF Clients, Before, HistoryTypes, From
<1>1. /\ printed[p] = << >> /\ mqueue[p] = << >> /\ Answers(down[p])
      /\ Prints(printed[p], joined[p], room_name[p], said)
  BY DEF Follows
<1>2. Write(p, more, next)
  BY DEF Reply
<1> HIDE DEF more
<1>3. /\ worker'[p] \in {next, "ended"}
      /\ down'[p] = down[p] \o more \/ down'[p] = down[p]
  BY <1>0, <1>2 DEF Write
<1>4. down'[p] \in Seq(PieceType) /\ Answers(down'[p])
  <2>1. CASE down'[p] = down[p]
    BY <1>0, <1>1, <2>1
  <2>2. CASE down'[p] = down[p] \o more
    BY <1>0, <1>1, <2>2, AnswerMore DEF more
  <2> QED BY <1>3, <2>1, <2>2
<1>5. PICK d : Chain(d, down'[p], joined[p], said) /\ d[0] = joined[p]
  <2>1. Reaches(down'[p], joined[p], joined[p], said, joined[p])
    BY <1>0, <1>4, ChainOfAnswers
  <2> QED BY <2>1 DEF Reaches
<1>6. Reached(After(printed[p], Len(printed[p]), joined[p]), d[0], room_name[p])
  BY <1>0, <1>1, <1>5 DEF After, Reached
<1>7. worker'[p] # "receiver"
  BY <1>0, <1>3
<1> QED BY <1>1, <1>4, <1>5, <1>6, <1>7 DEF Follows

\* A worker joins, and remembers how much had been said.
LEMMA FollowsWhenJoined ==
  ASSUME NEW p \in Receivers, HistoryTypes, said \in Seq(Sayings),
         down \in [Clients -> Seq(PieceType)],
         worker \in [Clients -> Points], Follows(p),
         worker[p] = "join", Reply(p, "ok", "receiver"), joined'[p] = Len(said),
         UNCHANGED <<said, room_name, mqueue, printed, client, server>>
  PROVE  Follows(p)'
<1> DEFINE more == Short("ok")
<1>0. /\ p \in Clients /\ down[p] \in Seq(PieceType) /\ "receiver" \notin Before
      /\ "ended" \notin Before /\ Len(said) \in Nat /\ Len(said) \in From(Len(said))
  BY DEF Clients, Before, HistoryTypes, From
<1>1. Write(p, more, "receiver")
  BY DEF Reply
<1>2. printed[p] = << >> /\ mqueue[p] = << >> /\ Answers(down[p])
  BY DEF Follows, Before
<1> HIDE DEF more
<1>3. /\ worker'[p] \in {"receiver", "ended"}
      /\ down'[p] = down[p] \o more \/ down'[p] = down[p]
  BY <1>0, <1>1 DEF Write
<1>4. down'[p] \in Seq(PieceType) /\ Answers(down'[p])
  <2>1. CASE down'[p] = down[p]
    BY <1>0, <1>2, <2>1
  <2>2. CASE down'[p] = down[p] \o more
    <3>1. "ok" \in Tags \ Deliveries
      BY DEF Deliveries
    <3> QED BY <1>0, <1>2, <2>2, <3>1, AnswerMore DEF more
  <2> QED BY <1>3, <2>1, <2>2
<1>5. PICK d : /\ Chain(d, down'[p], Len(said), said)
               /\ d[0] = Len(said) /\ d[Len(down'[p])] = Len(said)
  <2>1. Reaches(down'[p], Len(said), Len(said), said, Len(said))
    BY <1>0, <1>4, ChainOfAnswers
  <2> QED BY <2>1 DEF Reaches
<1>6. /\ Waits(mqueue[p], d[Len(down'[p])], said)
      /\ Prints(printed[p], Len(said), room_name[p], said)
      /\ Reached(After(printed[p], Len(printed[p]), Len(said)), d[0], room_name[p])
  BY <1>0, <1>2, <1>5 DEF Waits, Prints, After, Reached
<1> QED BY <1>0, <1>2, <1>3, <1>5, <1>6 DEF Follows

\* What is next is delivered.
LEMMA FollowsWhenDelivered ==
  ASSUME NEW p \in Receivers, HistoryTypes, said \in Seq(Sayings),
         down \in [Clients -> Seq(PieceType)],
         worker \in [Clients -> Points], mqueue \in [Receivers -> Seq(1 .. Len(said))],
         Follows(p), Deliver(p)
  PROVE  Follows(p)'
<1> DEFINE n == Head(mqueue[p])
           more == Pieces("delivery", said[n].length, said[n].tails, n)
           a == After(printed[p], Len(printed[p]), joined[p])
<1>0. /\ p \in Clients /\ down[p] \in Seq(PieceType) /\ mqueue[p] \in Seq(1 .. Len(said))
      /\ joined[p] \in Nat
  BY DEF Clients, HistoryTypes
<1>1. /\ server = "serving" /\ worker[p] = "receiver" /\ mqueue[p] # << >>
      /\ Write(p, more, "receiver")
      /\ mqueue' = [mqueue EXCEPT ![p] = IF worker'[p] = "ended" THEN << >> ELSE Tail(@)]
      /\ UNCHANGED <<server, client, room_name, printed, said, joined>>
  BY DEF Deliver, unserved
<1> HIDE DEF n, more
<1>2. worker'[p] \in {"receiver", "ended"}
  BY <1>0, <1>1 DEF Write
<1>3. ASSUME client[p] \notin Over
      PROVE  \E c : /\ Chain(c, down'[p], joined[p], said)
                    /\ Reached(a, c[0], room_name[p])
                    /\ worker'[p] = "receiver" => Waits(mqueue'[p], c[Len(down'[p])], said)
  <2>1. PICK c : /\ Chain(c, down[p], joined[p], said)
                 /\ Reached(a, c[0], room_name[p])
                 /\ Waits(mqueue[p], c[Len(down[p])], said)
    BY <1>1, <1>3 DEF Follows
  <2>2. down'[p] = down[p] \o more /\ mqueue'[p] = Tail(mqueue[p])
    BY <1>0, <1>1, <1>3 DEF Write
  <2> DEFINE k == c[Len(down[p])]
  <2>3. k \in From(joined[p]) /\ k \in Nat
    BY <1>0, <2>1, ChainEnds DEF From
  <2>4. Waits(Tail(mqueue[p]), k + 1, said) /\ k + 1 <= Len(said) /\ n = k + 1
    BY <1>0, <1>1, <2>1, <2>3, WaitsLess DEF n
  <2>5. Brings(more, k, joined[p], said)
    <3> HIDE DEF k
    <3> QED BY <1>0, <2>3, <2>4, DeliveryBrings DEF more
  <2>6. Reaches(down[p] \o more, c[0], joined[p], said, k + 1)
    BY <1>0, <2>1, <2>5, ChainAppend
  <2>7. PICK d : Chain(d, down'[p], joined[p], said) /\ d[0] = c[0] /\ d[Len(down'[p])] = k + 1
    BY <2>2, <2>6 DEF Reaches
  <2> QED BY <2>1, <2>2, <2>4, <2>7
<1>4. worker'[p] \notin Before
  BY <1>2 DEF Before
<1>5. a = After(printed[p], Len(printed[p]), joined[p])
  OBVIOUS
<1> HIDE DEF a
<1> QED BY <1>1, <1>3, <1>4, <1>5 DEF Follows

-----------------------------------------------------------------------------
(***************************************************************************)
(* The steps, for all receivers.                                           *)
(***************************************************************************)
\* What a step leaves alone of receiver q, except for what FollowsWhenLeft allows.
Leaves(q) ==
  /\ printed'[q] = printed[q] /\ mqueue'[q] = mqueue[q]
  /\ client[q] \in Over => client'[q] \in Over
  /\ worker'[q] = "receiver" => worker[q] = "receiver"
  /\ worker'[q] \in Before => worker[q] \in Before
  /\ \/ down'[q] = down[q]
     \/ down'[q] = << >> /\ (server' = "ended" \/ client'[q] \in Over)

LEMMA LeavesFollows ==
  ASSUME PrintInv, said \in Seq(Sayings), UNCHANGED <<said, joined, room_name>>,
         server = "ended" => server' = "ended",
         NEW q \in Receivers, Leaves(q)
  PROVE  Follows(q)'
<1>1. HistoryTypes /\ Follows(q)
  BY DEF PrintInv
<1> QED BY <1>1, FollowsWhenLeft DEF Leaves

LEMMA AllLeft ==
  ASSUME Inv, PrintInv, UNCHANGED <<said, joined, room_name, printed>>,
         server = "ended" => server' = "ended", \A q \in Receivers : Leaves(q)
  PROVE  PrintInv'
<1>1. \A q \in Receivers : Follows(q)'
  BY LeavesFollows DEF Inv, Types
<1>2. HistoryTypes'
  BY DEF PrintInv, HistoryTypes
<1> QED BY <1>1, <1>2 DEF PrintInv

LEMMA InitPrints == Init => PrintInv
<1> SUFFICES ASSUME Init PROVE PrintInv
  OBVIOUS
<1>1. HistoryTypes
  <2>1. << >> \in Seq(PieceType) /\ 0 \in Nat
    OBVIOUS
  <2>2. printed = [p \in Receivers |-> << >>] /\ joined = [p \in Receivers |-> 0]
    BY DEF Init
  <2>3. room_name \in [Receivers -> Names]
    BY ClientsAssumption DEF Init, Names
  <2> QED BY <2>1, <2>2, <2>3 DEF HistoryTypes
<1>2. ASSUME NEW p \in Receivers PROVE Follows(p)
  <2>1. /\ printed[p] = << >> /\ mqueue[p] = << >> /\ down[p] = << >> /\ joined[p] = 0
        /\ said = << >> /\ worker[p] = "none"
    BY DEF Init, Clients
  <2>2. /\ Answers(<< >>) /\ Prints(<< >>, 0, room_name[p], << >>) /\ << >> \in Seq(PieceType)
        /\ 0 \in Nat /\ 0 \in From(0) /\ Reached(After(<< >>, Len(<< >>), 0), 0, room_name[p])
    BY DEF Answers, Prints, From, Reached, After
  <2>3. PICK d : Chain(d, << >>, 0, << >>) /\ d[0] = 0
    <3>1. Reaches(<< >>, 0, 0, << >>, 0)
      BY <2>2, ChainOfAnswers
    <3> QED BY <3>1 DEF Reaches
  <2> QED BY <2>1, <2>2, <2>3 DEF Follows, Before
<1> QED BY <1>1, <1>2 DEF PrintInv

\* Steps of the network, the server's main thread, and the ends of things.
LEMMA QuietPrints ==
  ASSUME Inv, PrintInv,
         \/ Main \/ AcceptOther \/ (Exit /\ server = "serving")
         \/ \E p \in Clients : \/ Answer(p) \/ AcceptServed(p) \/ ClientGone(p)
                               \/ Connect(p) \/ Interrupted(p)
         \/ \E p \in Senders : InputEnds(p)
  PROVE  PrintInv'
<1>0. Types
  BY DEF Inv
<1>1. /\ UNCHANGED <<said, joined, room_name, printed, mqueue>>
      /\ server = "ended" => server' = "ended"
  BY DEF Main, AcceptOther, Answer, AcceptServed, ClientGone, InputEnds, Connect, Interrupted,
         Exit, local, history, elsewhere, unserved
<1>2. ASSUME NEW q \in Receivers PROVE Leaves(q)
  <2>0. q \in Clients
    BY DEF Clients
  <2>1. CASE Main \/ AcceptOther \/ \E p \in Senders : InputEnds(p)
    BY <1>1, <2>1 DEF Main, AcceptOther, InputEnds, elsewhere, local, Leaves
  <2>2. CASE \E p \in Clients : Answer(p)
    BY <1>1, <2>2 DEF Answer, Leaves
  <2>3. CASE \E p \in Clients : AcceptServed(p) \/ ClientGone(p)
    BY <1>0, <1>1, <2>0, <2>3 DEF Types, AcceptServed, ClientGone, Waiting, unserved, local,
                                  Before, Leaves
  <2>4. CASE \E p \in Clients : Connect(p)
    BY <1>0, <1>1, <2>0, <2>4 DEF Types, Connect, elsewhere, Over, Leaves
  <2>5. CASE \E p \in Clients : Interrupted(p)
    BY <1>0, <1>1, <2>0, <2>5 DEF Types, Interrupted, elsewhere, Over, Leaves
  <2>6. CASE Exit
    <3>1. down'[q] \in {down[q], << >>}
      BY <2>0, <2>6 DEF Exit
    <3>2. server' = "ended" /\ UNCHANGED <<worker, client>>
      BY <2>6 DEF Exit, local
    <3> QED BY <1>1, <3>1, <3>2 DEF Leaves
  <2> QED BY <2>1, <2>2, <2>3, <2>4, <2>5, <2>6
<1> QED BY <1>1, <1>2, AllLeft

\* A client sends something.
LEMMA SendPrints ==
  ASSUME Inv, PrintInv, NEW p \in Clients,
         SendLogin(p) \/ SendJoin(p) \/ \E pieces : SendLine(p, pieces)
  PROVE  PrintInv'
<1>0. Types
  BY DEF Inv
<1>1. UNCHANGED <<server, said, joined, room_name, printed, mqueue, worker, down>>
  BY DEF SendLogin, SendJoin, SendLine, elsewhere
<1>2. client[p] \notin Over
  BY DEF SendLogin, SendJoin, SendLine, Over
<1>3. \A q \in Clients : q # p => client'[q] = client[q]
  BY <1>0 DEF Types, SendLogin, SendJoin, SendLine, Send, SigPipe
<1>4. ASSUME NEW q \in Receivers PROVE Leaves(q)
  BY <1>1, <1>2, <1>3 DEF Clients, Leaves
<1> QED BY <1>1, <1>4, AllLeft

\* A sender receives, or its worker answers without saying anything.
LEMMA SenderPrints ==
  ASSUME Inv, PrintInv, NEW p \in Senders,
         \/ LoggedIn(p) \/ GetReply(p)
         \/ WorkerLogin(p) \/ Invalid(p) \/ Join(p) \/ Leave(p) \/ Quit(p)
  PROVE  PrintInv'
<1>0. Types /\ p \in Clients
  BY DEF Inv, Clients
<1>1. UNCHANGED <<server, said, joined, room_name, printed, mqueue>>
  BY DEF LoggedIn, GetReply, WorkerLogin, Invalid, Join, Leave, Quit, elsewhere, unserved
<1>2. \A q \in Receivers : q # p /\ q \in Clients
  BY ClientsAssumption DEF Clients
<1>3. \A q \in Clients : q # p => /\ client'[q] = client[q] /\ worker'[q] = worker[q]
                                  /\ down'[q] = down[q]
  <2>1. CASE LoggedIn(p) \/ GetReply(p)
    BY <1>0, <2>1 DEF Types, LoggedIn, GetReply, ReceiveGives, ReceiveFails, elsewhere
  <2>2. CASE WorkerLogin(p) \/ Invalid(p) \/ Join(p) \/ Leave(p) \/ Quit(p)
    <3>1. client' = client /\ \E tag, next : Reply(p, tag, next)
      BY <2>2 DEF WorkerLogin, Invalid, Join, Leave, Quit, unserved
    <3>2. PICK tag, next : Reply(p, tag, next)
      BY <3>1
    <3> QED BY <1>0, <3>1, <3>2 DEF Types, Reply, Write
  <2> QED BY <2>1, <2>2
<1>4. ASSUME NEW q \in Receivers PROVE Leaves(q)
  BY <1>1, <1>2, <1>3 DEF Leaves
<1> QED BY <1>1, <1>4, AllLeft

LEMMA SendAllPrints == ASSUME Inv, PrintInv, NEW p \in Senders, SendAll(p) PROVE PrintInv'
<1>0. Types /\ HistoryTypes /\ p \in Clients
  BY DEF Inv, PrintInv, Clients
<1>1. UNCHANGED <<server, client, joined, room_name, printed>>
  BY DEF SendAll, unserved
<1>2. \A q \in Receivers : q # p /\ q \in Clients
  BY ClientsAssumption DEF Clients
<1>3. \A q \in Clients : q # p => worker'[q] = worker[q] /\ down'[q] = down[q]
  <2>1. PICK tag, next : Reply(p, tag, next)
    BY DEF SendAll
  <2> QED BY <1>0, <2>1 DEF Types, Reply, Write
<1>4. CASE UNCHANGED <<said, mqueue>>
  <2>1. ASSUME NEW q \in Receivers PROVE Leaves(q)
    BY <1>1, <1>2, <1>3, <1>4 DEF Leaves
  <2> QED BY <1>1, <1>4, <2>1, AllLeft
<1>5. CASE Broadcast(DELIVERY[p] + Head(up[p]).size - 1)
  <2>1. PICK y \in Sayings : said' = Append(said, y)
    BY <1>5, BroadcastTypes DEF SendAll, Takes
  <2>2. \A q \in Receivers : mqueue'[q] = IF worker[q] = "receiver"
                                         THEN Append(mqueue[q], Len(said) + 1) ELSE mqueue[q]
    BY <1>5 DEF Broadcast, Members
  <2>3. ASSUME NEW q \in Receivers PROVE Follows(q)'
    <3>1. /\ said \in Seq(Sayings) /\ mqueue[q] \in Seq(1 .. Len(said))
          /\ down[q] \in Seq(PieceType) /\ Follows(q)
      BY <1>0, <1>2 DEF Types, PrintInv
    <3>2. down'[q] = down[q] /\ worker'[q] = worker[q]
      BY <1>2, <1>3
    <3> QED BY <1>0, <1>1, <2>1, <2>2, <3>1, <3>2, FollowsWhenSaid
  <2>4. HistoryTypes'
    BY <1>0, <1>1 DEF HistoryTypes
  <2> QED BY <2>3, <2>4 DEF PrintInv
<1> QED BY <1>4, <1>5 DEF SendAll

\* A receiver receives.
LEMMA ReceiverReceives ==
  ASSUME Inv, PrintInv, NEW p \in Receivers, LoggedIn(p) \/ Listen(p)
  PROVE  PrintInv'
<1>0. /\ Types /\ HistoryTypes /\ p \in Clients /\ p \notin Senders /\ Follows(p)
      /\ down \in [Clients -> Seq(PieceType)] /\ down[p] \in Seq(PieceType)
      /\ said \in Seq(Sayings)
  BY ClientsAssumption DEF Inv, PrintInv, Clients, Types
<1>1. /\ UNCHANGED <<server, said, joined, room_name, mqueue, worker>> /\ client[p] \notin Over
      /\ ReceiveGives(p) \/ ReceiveFails(p)
  BY DEF LoggedIn, Listen, elsewhere, Over
<1>2. /\ \A q \in Receivers : q # p => /\ client'[q] = client[q] /\ printed'[q] = printed[q]
                                       /\ down'[q] = down[q]
      /\ printed' \in [Receivers -> Seq(PieceType)]
      /\ printed'[p] = printed[p] \/ ReceiveGives(p)
  <2>0. \A q \in Receivers : q \in Clients
    BY DEF Clients
  <2>1. \A q \in Receivers : q # p => down'[q] = down[q]
    BY <1>0, <1>1, <2>0 DEF Types, ReceiveGives, ReceiveFails
  <2>2. \A q \in Receivers : q # p => client'[q] = client[q]
    BY <1>0, <2>0 DEF Types, LoggedIn, Listen
  <2>3. CASE printed' = printed
    BY <1>0, <2>1, <2>2, <2>3 DEF HistoryTypes
  <2>4. CASE printed' = [printed EXCEPT ![p] = Append(@, Head(down[p]))] /\ ReceiveGives(p)
    <3>1. Head(down[p]) \in PieceType
      BY <1>0, <2>4 DEF ReceiveGives
    <3>2. printed[p] \in Seq(PieceType) /\ printed \in [Receivers -> Seq(PieceType)]
      BY <1>0 DEF HistoryTypes
    <3>3. Append(printed[p], Head(down[p])) \in Seq(PieceType)
      BY <3>1, <3>2
    <3> QED BY <2>1, <2>2, <2>4, <3>2, <3>3
  <2> QED BY <2>3, <2>4 DEF LoggedIn, Listen
<1>3. Follows(p)'
  <2>1. CASE ReceiveFails(p)
    <3>1. printed' = printed /\ down' = down
      <4>1. ~ ReceiveGives(p) /\ down' = down
        BY <2>1 DEF ReceiveGives, ReceiveFails
      <4> QED BY <4>1 DEF LoggedIn, Listen
    <3> QED BY <1>0, <1>1, <3>1, FollowsWhenLeft
  <2>2. CASE ReceiveGives(p)
    <3>1. down[p] # << >> /\ down' = [down EXCEPT ![p] = Tail(@)]
      BY <2>2 DEF ReceiveGives
    <3>2. ~ ReceiveFails(p)
      BY <3>1 DEF ReceiveFails
    <3>3. \/ /\ Visible(room_name[p], Head(down[p]))
             /\ printed'[p] = Append(printed[p], Head(down[p]))
          \/ /\ printed'[p] = printed[p]
             /\ \/ ~ Visible(room_name[p], Head(down[p])) \/ client'[p] \in Over
                \/ Head(down[p]).tag \notin Deliveries
      <4>1. printed \in [Receivers -> Seq(PieceType)] /\ client \in [Clients -> Places]
        BY <1>0 DEF HistoryTypes, Types
      <4>2. CASE LoggedIn(p)
        <5>1. printed' = printed
          BY <4>2 DEF LoggedIn
        <5>2. Head(down[p]).tag \in Deliveries => client'[p] = "failed"
          BY <1>0, <3>2, <4>1, <4>2 DEF LoggedIn, Deliveries
        <5> QED BY <5>1, <5>2 DEF Over
      <4>3. CASE Listen(p)
        <5>1. Shows(p, Head(down[p])) <=> Visible(room_name[p], Head(down[p]))
          BY DEF Shows, Visible
        <5>2. printed' = IF Shows(p, Head(down[p]))
                         THEN [printed EXCEPT ![p] = Append(@, Head(down[p]))] ELSE printed
          BY <3>2, <4>3 DEF Listen
        <5> QED BY <4>1, <5>1, <5>2
      <4> QED BY <4>2, <4>3
    <3> QED BY <1>0, <1>1, <3>1, <3>3, FollowsWhenReceived
  <2> QED BY <1>1, <2>1, <2>2
<1>4. ASSUME NEW q \in Receivers, q # p PROVE Follows(q)'
  <2>1. Leaves(q)
    BY <1>1, <1>2, <1>4 DEF Leaves
  <2> QED BY <1>0, <1>1, <2>1, LeavesFollows
<1>5. HistoryTypes'
  BY <1>0, <1>1, <1>2 DEF HistoryTypes
<1> QED BY <1>3, <1>4, <1>5 DEF PrintInv

\* The worker of a receiver takes a message, or delivers.
LEMMA ReceiverServedPrints ==
  ASSUME Inv, PrintInv, NEW p \in Receivers, WorkerLogin(p) \/ WorkerJoin(p) \/ Deliver(p)
  PROVE  PrintInv'
<1>0. /\ Types /\ HistoryTypes /\ p \in Clients /\ p \notin Senders /\ Follows(p)
      /\ down \in [Clients -> Seq(PieceType)] /\ worker \in [Clients -> Points]
      /\ mqueue \in [Receivers -> Seq(1 .. Len(said))] /\ said \in Seq(Sayings)
      /\ joined \in [Receivers -> Nat]
  BY ClientsAssumption DEF Inv, PrintInv, Clients, Types, HistoryTypes
<1>1. UNCHANGED <<server, client, said, room_name, printed>>
  BY DEF WorkerLogin, WorkerJoin, Deliver, unserved
<1>2. Follows(p)'
  <2>1. CASE WorkerLogin(p)
    <3>1. worker[p] \in Before /\ UNCHANGED <<joined, mqueue>>
      BY <2>1 DEF WorkerLogin, Takes, Before
    <3>2. Reply(p, "err", "ended") \/ Reply(p, "ok", "join")
      BY <1>0, <2>1 DEF WorkerLogin
    <3>3. /\ {"err", "ok"} \subseteq Tags \ Deliveries
          /\ {"ended", "join"} \subseteq Before \cup {"ended"}
      BY DEF Before, Deliveries
    <3>4. CASE Reply(p, "err", "ended")
      BY <1>0, <1>1, <3>1, <3>3, <3>4, FollowsWhenAnswered
    <3>5. CASE Reply(p, "ok", "join")
      BY <1>0, <1>1, <3>1, <3>3, <3>5, FollowsWhenAnswered
    <3> QED BY <3>2, <3>4, <3>5
  <2>2. CASE WorkerJoin(p)
    <3>1. worker[p] = "join" /\ worker[p] \in Before /\ UNCHANGED mqueue
      BY <2>2 DEF WorkerJoin, Takes, Before
    <3>2. \/ Reply(p, "err", "ended") /\ UNCHANGED joined
          \/ Reply(p, "ok", "receiver") /\ joined'[p] = Len(said)
      BY <1>0, <2>2 DEF WorkerJoin
    <3>3. "err" \in Tags \ Deliveries /\ "ended" \in Before \cup {"ended"}
      BY DEF Deliveries
    <3>4. CASE Reply(p, "err", "ended") /\ UNCHANGED joined
      BY <1>0, <1>1, <3>1, <3>3, <3>4, FollowsWhenAnswered
    <3>5. CASE Reply(p, "ok", "receiver") /\ joined'[p] = Len(said)
      BY <1>0, <1>1, <3>1, <3>5, FollowsWhenJoined
    <3> QED BY <3>2, <3>4, <3>5
  <2>3. CASE Deliver(p)
    BY <1>0, <2>3, FollowsWhenDelivered
  <2> QED BY <2>1, <2>2, <2>3
<1>3. ASSUME NEW q \in Receivers, q # p PROVE Follows(q)'
  <2>1. q \in Clients
    BY DEF Clients
  <2>2. worker'[q] = worker[q] /\ down'[q] = down[q]
    <3>1. \/ \E tag, next : Reply(p, tag, next)
          \/ \E pieces : Write(p, pieces, "receiver")
      BY DEF WorkerLogin, WorkerJoin, Deliver
    <3> QED BY <1>0, <1>3, <2>1, <3>1 DEF Reply, Write
  <2>3. mqueue'[q] = mqueue[q] /\ joined'[q] = joined[q]
    BY <1>0, <1>3 DEF WorkerLogin, WorkerJoin, Deliver
  <2>4. Follows(q) /\ HistoryTypes
    BY DEF PrintInv
  <2> QED BY <1>1, <2>2, <2>3, <2>4 DEF Follows
<1>4. HistoryTypes'
  <2>1. joined' \in [Receivers -> Nat]
    <3>1. Len(said) \in Nat
      BY <1>0
    <3>2. joined' = joined \/ joined' = [joined EXCEPT ![p] = Len(said)]
      BY DEF WorkerLogin, WorkerJoin, Deliver
    <3> QED BY <1>0, <3>1, <3>2
  <2> QED BY <1>0, <1>1, <2>1 DEF HistoryTypes
<1> QED BY <1>2, <1>3, <1>4 DEF PrintInv

LEMMA NextPrints == Inv /\ PrintInv /\ [Next]_vars => PrintInv'
<1> SUFFICES ASSUME Inv, PrintInv, [Next]_vars PROVE PrintInv'
  OBVIOUS
<1>1. Senders \subseteq Clients /\ Receivers \subseteq Clients
  BY DEF Clients
<1>2. CASE UNCHANGED vars
  <2>1. /\ UNCHANGED <<said, joined, room_name, printed, server>>
        /\ \A q \in Receivers : Leaves(q)
    BY <1>2 DEF vars, history, Leaves
  <2> QED BY <2>1, AllLeft
<1>3. CASE Main \/ ServerEnds \/ AcceptOther \/ Accept
  <2>1. CASE Main \/ AcceptOther
    BY <2>1, QuietPrints
  <2>2. ASSUME NEW p \in Clients, AcceptServed(p) PROVE PrintInv'
    BY <2>2, QuietPrints
  <2>3. CASE ServerEnds \/ AcceptFails
    <3>1. Exit /\ server = "serving"
      BY <2>3 DEF ServerEnds, AcceptFails, Waiting
    <3> QED BY <3>1, QuietPrints
  <2> QED BY <1>3, <2>1, <2>2, <2>3 DEF Accept
<1>4. ASSUME NEW p \in Clients, Connect(p) \/ Answer(p) \/ Interrupted(p) \/ ClientGone(p)
      PROVE  PrintInv'
  BY <1>4, QuietPrints
<1>5. ASSUME NEW p \in Senders, UserTypes(p) \/ InputEnds(p) \/ SenderRuns(p) \/ SenderServed(p)
      PROVE  PrintInv'
  <2>1. CASE InputEnds(p)
    BY <2>1, QuietPrints
  <2>2. CASE UserTypes(p) \/ InputHasEnded(p) \/ SendLogin(p)
    BY <1>1, <2>2, SendPrints DEF UserTypes, InputHasEnded
  <2>3. CASE \/ LoggedIn(p) \/ GetReply(p)
             \/ WorkerLogin(p) \/ Invalid(p) \/ Join(p) \/ Leave(p) \/ Quit(p)
    BY <2>3, SenderPrints
  <2>4. CASE SendAll(p)
    BY <2>4, SendAllPrints
  <2>5. CASE ClientGone(p)
    BY <1>1, <1>4, <2>5
  <2> QED BY <1>5, <2>1, <2>2, <2>3, <2>4, <2>5 DEF SenderRuns, Login, SenderServed
<1>6. ASSUME NEW p \in Receivers, ReceiverRuns(p) \/ ReceiverServed(p) PROVE PrintInv'
  <2>1. CASE SendLogin(p) \/ SendJoin(p)
    BY <1>1, <2>1, SendPrints
  <2>2. CASE LoggedIn(p) \/ Listen(p)
    BY <2>2, ReceiverReceives
  <2>3. CASE WorkerLogin(p) \/ WorkerJoin(p) \/ Deliver(p)
    BY <2>3, ReceiverServedPrints
  <2>4. CASE ClientGone(p)
    BY <1>1, <1>4, <2>4
  <2> QED BY <1>6, <2>1, <2>2, <2>3, <2>4 DEF ReceiverRuns, Login, ReceiverServed
<1> QED BY <1>2, <1>3, <1>4, <1>5, <1>6 DEF Next

\* For any number of senders and receivers, and names and texts of any length, a
\* receiver prints the beginning of each delivery that was broadcast since it joined,
\* in that order and leaving none out, whole exactly if it is shorter than MAX_LEN,
\* and besides only rests of longer ones, each in its place.
THEOREM PrintedAsSaid == Spec => []PrintedInOrder
<1>1. PrintInv => PrintedInOrder
  <2> SUFFICES ASSUME PrintInv, NEW p \in Receivers
               PROVE  /\ room_name[p] = "colon" => printed[p] = << >>
                      /\ \A k \in DOMAIN printed[p] :
                           LET x      == printed[p][k]
                               before == IF k = 1 THEN joined[p] ELSE printed[p][k - 1].said
                               cut    == said[x.said].length >= MAX_LEN
                               named  == room_name[p] = "plain" /\ ROOM < MAX_LEN
                           IN /\ x.said \in joined[p] + 1 .. Len(said)
                              /\ IF x.at = 1
                                 THEN named /\ x.said = before + 1 /\ (x.whole <=> ~ cut)
                                 ELSE cut /\ x.said >= before /\ (named => x.said = before)
    BY DEF PrintedInOrder
  <2>1. /\ Prints(printed[p], joined[p], room_name[p], said)
        /\ room_name[p] = "colon" => printed[p] = << >>
    BY DEF PrintInv, Follows
  <2>2. Len(printed[p]) \in Nat /\ DOMAIN printed[p] = 1 .. Len(printed[p])
    BY DEF PrintInv, HistoryTypes
  <2>3. ASSUME NEW k \in 1 .. Len(printed[p])
        PROVE  After(printed[p], k - 1, joined[p])
                 = IF k = 1 THEN joined[p] ELSE printed[p][k - 1].said
    <3>1. k - 1 = 0 <=> k = 1
      BY <2>2
    <3> QED BY <3>1 DEF After
  <2> QED BY <2>1, <2>2, <2>3 DEF Prints, Right, Cut, Named
<1>2. Init => Inv /\ PrintInv
  BY InitInv, InitPrints
<1>3. (Inv /\ PrintInv) /\ [Next]_vars => (Inv /\ PrintInv)'
  BY NextKeeps, NextPrints
<1> QED BY <1>1, <1>2, <1>3, PTL DEF Spec
=============================================================================
