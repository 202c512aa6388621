------------------------- MODULE MessageQueueProof -------------------------
(***************************************************************************)
(* What MessageQueue guarantees for any set of producers and any number of *)
(* messages.                                                               *)
(***************************************************************************)
EXTENDS MessageQueue, SequenceTheorems, TLAPS

USE DEF Threads, NullPtr, EnqueuePoints, DequeuePoints

\* Once the consumer has run the destructor no thread is inside the queue,
\* and until then the destructor has deleted nothing.
Lifecycle ==
  /\ alive <=> pc[Consumer] # "gone"
  /\ ~alive => \A p \in Producers : pc[p] = "idle"
  /\ alive => deleted = << >>

Inv == /\ TypeOK
       /\ LockProtectsQueue
       /\ SemaphoreCountsMessages
       /\ NothingLostOrReordered
       /\ Lifecycle

LEMMA InvInit == Init => Inv
<1> SUFFICES ASSUME Init PROVE Inv
  OBVIOUS
<1> USE ThreadsAssumption DEF Init
<1>1. TypeOK
  BY DEF TypeOK
<1>2. LockProtectsQueue
  BY DEF LockProtectsQueue, Critical
<1>3. SemaphoreCountsMessages
  BY DEF SemaphoreCountsMessages, Claimed, Unposted
<1>4. << >> \o << >> \o << >> \o << >> = << >>
  BY ConcatEmptySeq, EmptySeq
<1>5. NothingLostOrReordered
  BY <1>4 DEF NothingLostOrReordered, InHand
<1>6. Lifecycle
  BY DEF Lifecycle
<1> QED BY <1>1, <1>2, <1>3, <1>5, <1>6 DEF Inv

(***************************************************************************)
(* One lemma for each part of Inv: a step preserves it.                    *)
(***************************************************************************)

\* The deque is not empty when the consumer pops it.
LEMMA PopFindsMessage == Inv /\ pc[Consumer] = "d_pop" => m_messages # << >>
  BY EmptySeq DEF Inv, TypeOK, Lifecycle, SemaphoreCountsMessages, Claimed, Unposted

LEMMA TypeStep == Inv /\ [Next]_vars => TypeOK'
<1> SUFFICES ASSUME Inv, [Next]_vars PROVE TypeOK'
  OBVIOUS
<1> USE ThreadsAssumption DEF TypeOK
<1>0. TypeOK
  BY DEF Inv
<1>1. ASSUME NEW p \in Producers, Enqueue(p) PROVE TypeOK'
  <2>1. CASE EnqueueCall(p)
    BY <1>0, <2>1 DEF EnqueueCall, Goto, MessageId
  <2>2. CASE EnqueueLock(p)
    BY <1>0, <2>2 DEF EnqueueLock, Goto, GuardEnter
  <2>3. CASE EnqueuePush(p)
    BY <1>0, <2>3 DEF EnqueuePush, Goto
  <2>4. CASE EnqueuePost(p)
    BY <1>0, <2>4 DEF EnqueuePost, Goto
  <2>5. CASE EnqueueReturn(p)
    BY <1>0, <2>5 DEF EnqueueReturn, Goto, GuardExit
  <2> QED BY <1>1, <2>1, <2>2, <2>3, <2>4, <2>5 DEF Enqueue
<1>2. ASSUME Dequeue PROVE TypeOK'
  <2>1. CASE DequeueCall
    BY <1>0, <2>1 DEF DequeueCall, Goto
  <2>2. CASE DequeueWait
    BY <1>0, <2>2 DEF DequeueWait, Goto
  <2>3. CASE DequeueTimeout
    BY <1>0, <2>3 DEF DequeueTimeout, Goto
  <2>4. CASE DequeueLock
    BY <1>0, <2>4 DEF DequeueLock, Goto, GuardEnter
  <2>5. CASE DequeuePop
    <3>1. Head(m_messages) \in MessageId /\ Tail(m_messages) \in Seq(MessageId)
      BY <1>0, <2>5, PopFindsMessage, HeadTailProperties DEF DequeuePop, Goto
    <3> QED BY <1>0, <2>5, <3>1 DEF DequeuePop, Goto
  <2>6. CASE DequeueReturn
    BY <1>0, <2>6 DEF DequeueReturn, Goto, GuardExit
  <2> QED BY <1>2, <2>1, <2>2, <2>3, <2>4, <2>5, <2>6 DEF Dequeue
<1>3. CASE Destructor
  <2>1. m_messages' \in Seq(MessageId) /\ deleted' \in Seq(MessageId)
    BY <1>0, <1>3, EmptySeq DEF Destructor
  <2> QED BY <1>0, <1>3, <2>1 DEF Destructor, Goto
<1>4. CASE UNCHANGED vars
  BY <1>0, <1>4 DEF vars
<1> QED BY <1>1, <1>2, <1>3, <1>4 DEF Next, Finished

LEMMA LockStep == Inv /\ [Next]_vars => LockProtectsQueue'
<1> SUFFICES ASSUME Inv, [Next]_vars PROVE LockProtectsQueue'
  OBVIOUS
<1>0. TypeOK /\ LockProtectsQueue
  BY DEF Inv
<1> USE <1>0, ThreadsAssumption DEF TypeOK, LockProtectsQueue, Critical
<1>1. ASSUME NEW p \in Producers, Enqueue(p) PROVE LockProtectsQueue'
  <2>1. CASE EnqueueCall(p)
    BY <2>1 DEF EnqueueCall, Goto
  <2>2. CASE EnqueueLock(p)
    BY <2>2 DEF EnqueueLock, Goto, GuardEnter
  <2>3. CASE EnqueuePush(p)
    BY <2>3 DEF EnqueuePush, Goto
  <2>4. CASE EnqueuePost(p)
    BY <2>4 DEF EnqueuePost, Goto
  <2>5. CASE EnqueueReturn(p)
    BY <2>5 DEF EnqueueReturn, Goto, GuardExit
  <2> QED BY <1>1, <2>1, <2>2, <2>3, <2>4, <2>5 DEF Enqueue
<1>2. ASSUME Dequeue PROVE LockProtectsQueue'
  <2>1. CASE DequeueCall
    BY <2>1 DEF DequeueCall, Goto
  <2>2. CASE DequeueWait
    BY <2>2 DEF DequeueWait, Goto
  <2>3. CASE DequeueTimeout
    BY <2>3 DEF DequeueTimeout, Goto
  <2>4. CASE DequeueLock
    BY <2>4 DEF DequeueLock, Goto, GuardEnter
  <2>5. CASE DequeuePop
    BY <2>5 DEF DequeuePop, Goto
  <2>6. CASE DequeueReturn
    BY <2>6 DEF DequeueReturn, Goto, GuardExit
  <2> QED BY <1>2, <2>1, <2>2, <2>3, <2>4, <2>5, <2>6 DEF Dequeue
<1>3. CASE Destructor
  BY <1>3 DEF Destructor, Goto
<1>4. CASE UNCHANGED vars
  BY <1>4 DEF vars
<1> QED BY <1>1, <1>2, <1>3, <1>4 DEF Next, Finished

LEMMA SemaphoreStep == Inv /\ [Next]_vars => SemaphoreCountsMessages'
<1> SUFFICES ASSUME Inv, [Next]_vars PROVE SemaphoreCountsMessages'
  OBVIOUS
<1>0. TypeOK /\ LockProtectsQueue /\ SemaphoreCountsMessages
  BY DEF Inv
<1>l. Len(m_messages) \in Nat
  BY <1>0 DEF TypeOK
<1> USE <1>0, <1>l, ThreadsAssumption
    DEF TypeOK, LockProtectsQueue, Critical, SemaphoreCountsMessages, Claimed, Unposted
<1>1. ASSUME NEW p \in Producers, Enqueue(p) PROVE SemaphoreCountsMessages'
  <2>1. CASE EnqueueCall(p)
    BY <2>1 DEF EnqueueCall, Goto
  <2>2. CASE EnqueueLock(p)
    BY <2>2 DEF EnqueueLock, Goto, GuardEnter
  <2>3. CASE EnqueuePush(p)
    <3>1. Len(m_messages') = Len(m_messages) + 1
      BY <2>3 DEF EnqueuePush, Goto
    <3>2. ~ \E q \in Producers : pc[q] = "e_post"
      BY <2>3 DEF EnqueuePush, Goto
    <3>3. pc'[p] = "e_post" /\ pc'[Consumer] = pc[Consumer]
      BY <2>3 DEF EnqueuePush, Goto
    <3> QED BY <2>3, <3>1, <3>2, <3>3 DEF EnqueuePush
  <2>4. CASE EnqueuePost(p)
    <3>1. ~ \E q \in Producers : pc'[q] = "e_post"
      BY <2>4 DEF EnqueuePost, Goto
    <3>2. pc[p] = "e_post" /\ pc'[Consumer] = pc[Consumer]
      BY <2>4 DEF EnqueuePost, Goto
    <3> QED BY <2>4, <3>1, <3>2 DEF EnqueuePost
  <2>5. CASE EnqueueReturn(p)
    BY <2>5 DEF EnqueueReturn, Goto, GuardExit
  <2> QED BY <1>1, <2>1, <2>2, <2>3, <2>4, <2>5 DEF Enqueue
<1>2. ASSUME Dequeue PROVE SemaphoreCountsMessages'
  <2>0. \A q \in Producers : pc'[q] = pc[q]
    BY <1>2 DEF Dequeue, DequeueCall, DequeueWait, DequeueTimeout, DequeueLock,
                DequeuePop, DequeueReturn, Goto
  <2>1. CASE DequeueCall
    BY <2>0, <2>1 DEF DequeueCall, Goto
  <2>2. CASE DequeueWait
    BY <2>0, <2>2 DEF DequeueWait, Goto
  <2>3. CASE DequeueTimeout
    BY <2>0, <2>3 DEF DequeueTimeout, Goto
  <2>4. CASE DequeueLock
    BY <2>0, <2>4 DEF DequeueLock, Goto, GuardEnter
  <2>5. CASE DequeuePop
    <3>0. m_messages \in Seq(MessageId) /\ m_messages # << >>
      BY <2>5, PopFindsMessage DEF DequeuePop, Goto
    <3>1. Len(m_messages') = Len(m_messages) - 1
      BY <2>5, <3>0, HeadTailProperties DEF DequeuePop
    <3>2. pc[Consumer] = "d_pop" /\ pc'[Consumer] = "d_unlock"
      BY <2>5 DEF DequeuePop, Goto
    <3>3. m_avail' = m_avail /\ alive' = alive
      BY <2>5 DEF DequeuePop
    <3> QED BY <2>0, <3>1, <3>2, <3>3
  <2>6. CASE DequeueReturn
    BY <2>0, <2>6 DEF DequeueReturn, Goto, GuardExit
  <2> QED BY <1>2, <2>1, <2>2, <2>3, <2>4, <2>5, <2>6 DEF Dequeue
<1>3. CASE Destructor
  BY <1>3 DEF Destructor, Goto
<1>4. CASE UNCHANGED vars
  BY <1>4 DEF vars
<1> QED BY <1>1, <1>2, <1>3, <1>4 DEF Next, Finished

(***************************************************************************)
(* How the four places of NothingLostOrReordered line up when a message    *)
(* goes from one to the next.                                              *)
(***************************************************************************)
LEMMA PushLast ==
  ASSUME NEW S, NEW a \in Seq(S), NEW c \in Seq(S), NEW e \in S
  PROVE  a \o Append(c, e) \o << >> = Append(a \o c \o << >>, e)
<1>1. /\ a \o c \in Seq(S)
      /\ <<e>> \in Seq(S)
      /\ Append(c, e) \in Seq(S)
      /\ a \o Append(c, e) \in Seq(S)
  BY ConcatProperties, AppendProperties
<1>2. Append(c, e) = c \o <<e>>
  BY AppendIsConcat
<1>3. Append(a \o c, e) = (a \o c) \o <<e>>
  BY <1>1, AppendIsConcat
<1>4. \A t \in Seq(S) : a \o (c \o t) = (a \o c) \o t
  BY SMTT(30), ConcatAssociative
<1>5. a \o (c \o <<e>>) = (a \o c) \o <<e>>
  BY <1>1, <1>4
<1>6. a \o c \o << >> = a \o c
  BY <1>1, ConcatEmptySeq
<1>7. a \o Append(c, e) \o << >> = a \o Append(c, e)
  BY <1>1, ConcatEmptySeq
<1> QED BY <1>2, <1>3, <1>5, <1>6, <1>7

LEMMA PopFirst ==
  ASSUME NEW S, NEW a \in Seq(S), NEW c \in Seq(S), c # << >>
  PROVE  a \o << >> \o c \o << >> = a \o <<Head(c)>> \o Tail(c) \o << >>
<1>1. Head(c) \in S /\ Tail(c) \in Seq(S)
  BY HeadTailProperties
<1>2. <<Head(c)>> \in Seq(S)
  BY <1>1
<1>3. c = <<Head(c)>> \o Tail(c)
  <2>1. Len(c) \in Nat \ {0} /\ 1 \in 1 .. Len(c)
    BY EmptySeq
  <2>2. SubSeq(c, 1, Len(c)) = <<c[1]>> \o SubSeq(c, 1 + 1, Len(c))
    BY <2>1, SubSeqRecursiveFirst
  <2>3. SubSeq(c, 1, Len(c)) = c /\ Tail(c) = SubSeq(c, 2, Len(c))
    BY SubSeqFull, TailIsSubSeq
  <2>4. Head(c) = c[1] /\ 1 + 1 = 2
    BY <2>1
  <2> QED BY <2>2, <2>3, <2>4
<1> DEFINE h == <<Head(c)>>
           t == Tail(c)
<1>4. h \in Seq(S) /\ t \in Seq(S) /\ c = h \o t
  BY <1>1, <1>2, <1>3
<1> HIDE DEF h, t
<1>5. a \o << >> = a /\ a \o c \in Seq(S)
  BY ConcatEmptySeq, ConcatProperties
<1>6. (a \o c) \o << >> = a \o c
  BY <1>5, ConcatEmptySeq
<1>7. a \o (h \o t) = (a \o h) \o t
  BY SMTT(30), <1>4, ConcatAssociative
<1>8. ((a \o h) \o t) \o << >> = (a \o h) \o t
  BY <1>4, <1>5, <1>6, <1>7, Zenon
<1>9. a \o << >> \o c \o << >> = a \o h \o t \o << >>
  BY <1>4, <1>5, <1>6, <1>7, <1>8, Zenon
<1> QED BY <1>9 DEF h, t

LEMMA ReturnOne ==
  ASSUME NEW S, NEW a \in Seq(S), NEW e \in S
  PROVE  a \o <<e>> = Append(a, e) \o << >>
  BY AppendIsConcat, AppendProperties, ConcatEmptySeq

LEMMA DeleteAll ==
  ASSUME NEW S, NEW a \in Seq(S), NEW c \in Seq(S)
  PROVE  a \o << >> \o c \o << >> = a \o << >> \o << >> \o c
<1>1. a \o << >> = a /\ a \o c \in Seq(S)
  BY ConcatEmptySeq, ConcatProperties
<1> QED BY <1>1, ConcatEmptySeq

LEMMA OrderStep == Inv /\ [Next]_vars => NothingLostOrReordered'
<1> SUFFICES ASSUME Inv, [Next]_vars PROVE NothingLostOrReordered'
  OBVIOUS
<1>0. TypeOK /\ NothingLostOrReordered /\ Lifecycle
  BY DEF Inv
<1>t. /\ m_messages \in Seq(MessageId) /\ returned \in Seq(MessageId)
      /\ InHand \in Seq(MessageId)
  <2>1. CASE pc[Consumer] = "d_unlock"
    BY <1>0, <2>1 DEF TypeOK, InHand
  <2>2. CASE pc[Consumer] # "d_unlock"
    BY <1>0, <2>2, EmptySeq DEF TypeOK, InHand
  <2> QED BY <2>1, <2>2
<1> USE <1>0 DEF NothingLostOrReordered
<1>1. ASSUME NEW p \in Producers, Enqueue(p) PROVE NothingLostOrReordered'
  <2>0. Consumer # p
    BY ThreadsAssumption
  <2>1. CASE EnqueuePush(p)
    <3>1. msg[p] \in MessageId /\ alive /\ deleted = << >>
      BY <2>1 DEF EnqueuePush, Goto, Lifecycle, TypeOK
    <3>2. InHand' = InHand
      BY <2>0, <2>1 DEF EnqueuePush, Goto, InHand, TypeOK
    <3>3. /\ pushed' = Append(pushed, msg[p])
          /\ m_messages' = Append(m_messages, msg[p])
          /\ UNCHANGED <<returned, deleted, alive>>
      BY <2>1 DEF EnqueuePush
    <3> DEFINE before == returned \o InHand
    <3>4. before \in Seq(MessageId)
      BY <1>t, ConcatProperties
    <3> HIDE DEF before
    <3>5. before \o Append(m_messages, msg[p]) \o << >>
            = Append(before \o m_messages \o << >>, msg[p])
      BY <3>1, <3>4, <1>t, PushLast
    <3>6. before' = before
      BY <3>2, <3>3 DEF before
    <3> QED BY <3>1, <3>3, <3>5, <3>6 DEF before
  <2>2. CASE EnqueueCall(p) \/ EnqueueLock(p) \/ EnqueuePost(p) \/ EnqueueReturn(p)
    BY <2>0, <2>2 DEF EnqueueCall, EnqueueLock, EnqueuePost, EnqueueReturn, Goto,
                      InHand, TypeOK
  <2> QED BY <1>1, <2>1, <2>2 DEF Enqueue
<1>2. ASSUME Dequeue PROVE NothingLostOrReordered'
  <2>1. CASE DequeuePop
    <3>1. m_messages # << >> /\ alive /\ deleted = << >>
      BY <2>1, PopFindsMessage DEF DequeuePop, Goto, Lifecycle
    <3>2. InHand = << >> /\ InHand' = <<Head(m_messages)>>
      BY <2>1 DEF DequeuePop, Goto, InHand, TypeOK
    <3>3. /\ m_messages' = Tail(m_messages)
          /\ UNCHANGED <<pushed, returned, deleted, alive>>
      BY <2>1 DEF DequeuePop
    <3>4. returned \o << >> \o m_messages \o << >>
            = returned \o <<Head(m_messages)>> \o Tail(m_messages) \o << >>
      BY <3>1, <1>t, PopFirst
    <3> QED BY <3>1, <3>2, <3>3, <3>4
  <2>2. CASE DequeueReturn
    <3>1. message \in MessageId /\ InHand = <<message>> /\ InHand' = << >>
      BY <2>2 DEF DequeueReturn, Goto, InHand, TypeOK
    <3>2. returned \o <<message>> = Append(returned, message) \o << >>
      BY <3>1, <1>t, ReturnOne
    <3>3. /\ returned' = Append(returned, message)
          /\ UNCHANGED <<pushed, m_messages, deleted, alive>>
      BY <2>2 DEF DequeueReturn
    <3> QED BY <3>1, <3>2, <3>3
  <2>3. CASE DequeueCall \/ DequeueWait \/ DequeueTimeout \/ DequeueLock
    BY <2>3 DEF DequeueCall, DequeueWait, DequeueTimeout, DequeueLock, Goto,
                InHand, TypeOK
  <2> QED BY <1>2, <2>1, <2>2, <2>3 DEF Dequeue
<1>3. CASE Destructor
  <2>1. deleted = << >> /\ InHand = << >> /\ InHand' = << >>
    BY <1>3 DEF Destructor, Goto, Lifecycle, InHand, TypeOK
  <2>2. UNCHANGED <<pushed, returned>> /\ m_messages' = << >> /\ deleted' = m_messages
    BY <1>3 DEF Destructor
  <2>3. returned \o << >> \o m_messages \o << >> = returned \o << >> \o << >> \o m_messages
    BY <1>t, DeleteAll
  <2> QED BY <2>1, <2>2, <2>3
<1>4. CASE UNCHANGED vars
  BY <1>4 DEF vars, InHand
<1> QED BY <1>1, <1>2, <1>3, <1>4 DEF Next, Finished

LEMMA LifecycleStep == Inv /\ [Next]_vars => Lifecycle'
<1> SUFFICES ASSUME Inv, [Next]_vars PROVE Lifecycle'
  OBVIOUS
<1> USE ThreadsAssumption DEF Inv, TypeOK, Lifecycle
<1>1. ASSUME NEW p \in Producers, Enqueue(p) PROVE Lifecycle'
  BY <1>1 DEF Enqueue, EnqueueCall, EnqueueLock, EnqueuePush, EnqueuePost,
              EnqueueReturn, Goto
<1>2. ASSUME Dequeue PROVE Lifecycle'
  BY <1>2 DEF Dequeue, DequeueCall, DequeueWait, DequeueTimeout, DequeueLock,
              DequeuePop, DequeueReturn, Goto
<1>3. CASE Destructor
  BY <1>3 DEF Destructor, Goto
<1>4. CASE UNCHANGED vars
  BY <1>4 DEF vars
<1> QED BY <1>1, <1>2, <1>3, <1>4 DEF Next, Finished

LEMMA InvStep == Inv /\ [Next]_vars => Inv'
  BY TypeStep, LockStep, SemaphoreStep, OrderStep, LifecycleStep DEF Inv

LEMMA Invariance == Spec => []Inv
  BY InvInit, InvStep, PTL DEF Spec

\* enqueue, dequeue and the destructor keep every variable's type.
THEOREM TypeCorrect == Spec => []TypeOK
  BY Invariance, PTL DEF Inv

\* Guard makes the accesses to the deque mutually exclusive.
THEOREM MutualExclusion == Spec => []LockProtectsQueue
  BY Invariance, PTL DEF Inv

\* The semaphore never runs ahead of the deque: pop_front in dequeue always
\* finds a message.
THEOREM SemaphoreCorrect == Spec => []SemaphoreCountsMessages
  BY Invariance, PTL DEF Inv

\* No message pushed by enqueue is lost, duplicated, overtaken or leaked.
THEOREM NothingLost == Spec => []NothingLostOrReordered
  BY Invariance, PTL DEF Inv

(***************************************************************************)
(* The queue implements FifoQueue.  First, what each step does to the part *)
(* of the deque that can be taken.                                         *)
(***************************************************************************)
LEMMA SubSeqAfterPush ==
  ASSUME NEW S, NEW s \in Seq(S), NEW e \in S, NEW k \in 1 .. 2
  PROVE  SubSeq(s, k, Len(s)) = SubSeq(Append(s, e), k, Len(s))
<1>1. Len(s) \in Nat /\ Append(s, e) = s \o <<e>> /\ <<e>> \in Seq(S)
  BY AppendIsConcat, LenProperties
<1>2. CASE k <= Len(s)
  <2>1. k \in 1 .. Len(s) /\ Len(s) \in 1 .. Len(s)
    BY <1>1, <1>2
  <2>2. SubSeq(s \o <<e>>, k, Len(s)) = SubSeq(s, k, Len(s))
    BY <1>1, <2>1, SubSeqOfConcat1
  <2> QED BY <1>1, <2>2
<1>3. CASE Len(s) < k
  BY <1>1, <1>3, SubSeqEmpty
<1> QED BY <1>1, <1>2, <1>3

LEMMA SubSeqAfterPost ==
  ASSUME NEW S, NEW s \in Seq(S), NEW k \in 1 .. Len(s)
  PROVE  /\ SubSeq(s, k, Len(s)) = Append(SubSeq(s, k, Len(s) - 1), s[Len(s)])
         /\ s[Len(s)] \in S
<1>1. Len(s) \in k .. Len(s) /\ Len(s) \in 1 .. Len(s)
  BY LenProperties
<1>2. s[Len(s)] \in S
  BY <1>1, ElementOfSeq
<1>3. SubSeq(s, k, Len(s)) = SubSeq(s, k, Len(s) - 1) \o <<s[Len(s)]>>
  BY <1>1, SubSeqRecursiveSecond
<1>4. \A j \in k .. Len(s) - 1 : s[j] \in S
  BY <1>1, ElementOfSeq
<1>5. SubSeq(s, k, Len(s) - 1) \in Seq(S)
  BY <1>1, <1>4, SubSeqProperties
<1> QED BY <1>2, <1>3, <1>5, AppendIsConcat

LEMMA SubSeqAfterPop ==
  ASSUME NEW S, NEW s \in Seq(S), s # << >>, NEW u \in 0 .. 1
  PROVE  SubSeq(s, 2, Len(s) - u) = SubSeq(Tail(s), 1, Len(s) - 1 - u)
<1>1. Len(s) \in Nat \ {0} /\ Tail(s) = SubSeq(s, 2, Len(s))
  BY EmptySeq, TailIsSubSeq
<1>2. CASE Len(s) - 1 - u >= 1
  <2>1. /\ 2 \in 1 .. Len(s) /\ Len(s) \in 1 .. Len(s)
        /\ 1 \in 1 .. Len(s) - 2 + 1 /\ Len(s) - 1 - u \in 1 .. Len(s) - 2 + 1
        /\ 2 + 1 - 1 = 2 /\ 2 + (Len(s) - 1 - u) - 1 = Len(s) - u
    BY <1>1, <1>2
  <2>2. SubSeq(SubSeq(s, 2, Len(s)), 1, Len(s) - 1 - u)
          = SubSeq(s, 2 + 1 - 1, 2 + (Len(s) - 1 - u) - 1)
    BY <2>1, SubSeqOfSubSeq
  <2> QED BY <1>1, <2>1, <2>2
<1>3. CASE Len(s) - 1 - u < 1
  <2>1. SubSeq(s, 2, Len(s) - u) = << >>
    BY <1>1, <1>3, SubSeqEmpty
  <2>2. SubSeq(Tail(s), 1, Len(s) - 1 - u) = << >>
    BY <1>1, <1>3, SubSeqEmpty
  <2> QED BY <2>1, <2>2
<1> QED BY <1>1, <1>2, <1>3

LEMMA FifoInit == Init => Fifo!Init
<1> SUFFICES ASSUME Init PROVE Fifo!Init
  OBVIOUS
<1>1. Claimed = 0 /\ Unposted = 0 /\ m_messages = << >>
  BY DEF Init, Claimed, Unposted
<1>2. Len(m_messages) - Unposted < 1 + Claimed
  BY <1>1
<1>3. Available = << >>
  BY <1>1, <1>2, SubSeqEmpty DEF Available
<1> QED BY <1>1, <1>3 DEF Fifo!Init, Init, Outcome

LEMMA FifoStep == Inv /\ Inv' /\ [Next]_vars => [Fifo!Next]_(Fifo!vars)
<1> SUFFICES ASSUME Inv, Inv', [Next]_vars
             PROVE  [Fifo!Next]_(Fifo!vars)
  OBVIOUS
<1> USE ThreadsAssumption
<1>0. TypeOK /\ LockProtectsQueue /\ SemaphoreCountsMessages /\ Lifecycle
  BY DEF Inv
<1>l. Len(m_messages) \in Nat
  BY <1>0 DEF TypeOK
<1> DEFINE Stutter == Available' = Available /\ Outcome' = Outcome /\ alive' = alive
<1>s. Stutter => UNCHANGED Fifo!vars
  BY DEF Fifo!vars
<1>1. ASSUME NEW p \in Producers, Enqueue(p) PROVE [Fifo!Next]_(Fifo!vars)
  <2>0. p # Consumer
    OBVIOUS
  <2>1. CASE EnqueueCall(p) \/ EnqueueLock(p) \/ EnqueueReturn(p)
    <3>1. UNCHANGED <<m_messages, message, alive>>
      BY <2>1 DEF EnqueueCall, EnqueueLock, EnqueueReturn
    <3>2. Claimed' = Claimed
      BY <1>0, <2>0, <2>1 DEF EnqueueCall, EnqueueLock, EnqueueReturn, Goto, Claimed, TypeOK
    <3>3. Unposted' = Unposted
      <4>1. \A q \in Producers : pc'[q] = "e_post" <=> pc[q] = "e_post"
        BY <1>0, <2>1 DEF EnqueueCall, EnqueueLock, EnqueueReturn, Goto, TypeOK
      <4> QED BY <4>1 DEF Unposted
    <3> QED BY <1>s, <3>1, <3>2, <3>3 DEF Available, Outcome
  <2>2. CASE EnqueuePush(p)
    <3>1. /\ msg[p] \in MessageId
          /\ m_messages' = Append(m_messages, msg[p])
          /\ UNCHANGED <<message, alive>>
      BY <1>0, <2>2 DEF EnqueuePush, Goto, TypeOK
    <3>2. Claimed' = Claimed /\ Claimed \in 0 .. 1
      <4>1. pc'[Consumer] = pc[Consumer]
        BY <1>0, <2>0, <2>2 DEF EnqueuePush, Goto, TypeOK
      <4> QED BY <4>1 DEF Claimed
    <3>3. Unposted = 0 /\ Unposted' = 1
      <4>1. /\ pc[p] = "e_push"
            /\ pc' = [pc EXCEPT ![p] = "e_post"]
            /\ pc \in [Threads -> EnqueuePoints \cup DequeuePoints]
        BY <1>0, <2>2 DEF EnqueuePush, Goto, TypeOK
      <4>2. \A q \in Producers : q # p => pc[q] # "e_post" /\ pc'[q] # "e_post"
        BY <1>0, <4>1 DEF LockProtectsQueue, Critical
      <4>3. pc'[p] = "e_post"
        BY <4>1
      <4> QED BY <4>1, <4>2, <4>3 DEF Unposted
    <3>4. m_messages \in Seq(MessageId)
      BY <1>0 DEF TypeOK
    <3>5. Len(m_messages') = Len(m_messages) + 1
      BY <3>1, <3>4, AppendProperties
    <3>6. Available' = Available
      <4>1. 1 + Claimed \in 1 .. 2
        BY <3>2
      <4>2. SubSeq(m_messages, 1 + Claimed, Len(m_messages))
              = SubSeq(Append(m_messages, msg[p]), 1 + Claimed, Len(m_messages))
        BY <3>1, <3>4, <4>1, SubSeqAfterPush
      <4>3. Len(m_messages') - Unposted' = Len(m_messages) /\ Len(m_messages) - Unposted = Len(m_messages)
        BY <1>l, <3>3, <3>5
      <4>4. Claimed' = Claimed
        BY <3>2
      <4> QED BY <3>1, <4>2, <4>3, <4>4 DEF Available
    <3>7. Claimed = 1 => m_messages # << >>
      <4>1. alive
        BY <1>0, <2>2 DEF Lifecycle, EnqueuePush, Goto
      <4>2. Claimed = 1 => Len(m_messages) > 0
        BY <1>0, <3>3, <4>1 DEF SemaphoreCountsMessages, TypeOK
      <4> QED BY <3>4, <4>2, EmptySeq
    <3>8. Outcome' = Outcome
      BY <3>1, <3>2, <3>4, <3>7, HeadTailAppend DEF Outcome
    <3> QED BY <1>s, <3>1, <3>6, <3>8
  <2>3. CASE EnqueuePost(p)
    <3>1. /\ m_avail' = m_avail + 1
          /\ UNCHANGED <<m_messages, message, alive>>
      BY <2>3 DEF EnqueuePost
    <3>2. Claimed' = Claimed /\ Claimed \in 0 .. 1
      <4>1. pc'[Consumer] = pc[Consumer]
        BY <1>0, <2>0, <2>3 DEF EnqueuePost, Goto, TypeOK
      <4> QED BY <4>1 DEF Claimed
    <3>3. Unposted = 1 /\ Unposted' = 0
      <4>1. /\ pc[p] = "e_post"
            /\ pc' = [pc EXCEPT ![p] = "e_unlock"]
            /\ pc \in [Threads -> EnqueuePoints \cup DequeuePoints]
        BY <1>0, <2>3 DEF EnqueuePost, Goto, TypeOK
      <4>2. \A q \in Producers : q # p => pc[q] # "e_post" /\ pc'[q] # "e_post"
        BY <1>0, <4>1 DEF LockProtectsQueue, Critical
      <4>3. pc'[p] = "e_unlock"
        BY <4>1
      <4> QED BY <4>1, <4>2, <4>3 DEF Unposted
    <3>4. alive /\ m_messages \in Seq(MessageId) /\ m_avail \in Nat
      BY <1>0, <2>3 DEF Lifecycle, EnqueuePost, Goto, TypeOK
    <3>5. Len(m_messages) = m_avail + Claimed + 1
      BY <1>0, <3>3, <3>4 DEF SemaphoreCountsMessages
    <3>6. 1 + Claimed \in 1 .. Len(m_messages)
      BY <3>2, <3>4, <3>5
    <3> DEFINE m == m_messages[Len(m_messages)]
    <3>7. /\ SubSeq(m_messages, 1 + Claimed, Len(m_messages))
               = Append(SubSeq(m_messages, 1 + Claimed, Len(m_messages) - 1), m)
          /\ m \in MessageId
      BY <3>4, <3>6, SubSeqAfterPost
    <3>8. Claimed' = Claimed /\ Len(m_messages) - Unposted' = Len(m_messages)
          /\ Len(m_messages) - Unposted = Len(m_messages) - 1
      BY <1>l, <3>2, <3>3
    <3> HIDE DEF m
    <3>9. Available' = Append(Available, m)
      BY <3>1, <3>7, <3>8 DEF Available
    <3>10. Outcome' = Outcome
      BY <3>1, <3>8 DEF Outcome
    <3>11. Fifo!Put(m)
      BY <3>1, <3>4, <3>9, <3>10 DEF Fifo!Put
    <3> QED BY <3>7, <3>11 DEF Fifo!Next
  <2> QED BY <1>1, <2>1, <2>2, <2>3 DEF Enqueue
<1>2. ASSUME Dequeue PROVE [Fifo!Next]_(Fifo!vars)
  <2>0. Unposted' = Unposted /\ Unposted \in 0 .. 1
    <3>1. \A q \in Producers : pc'[q] = pc[q]
      BY <1>0, <1>2 DEF Dequeue, DequeueCall, DequeueWait, DequeueTimeout, DequeueLock,
                        DequeuePop, DequeueReturn, Goto, TypeOK
    <3> QED BY <3>1 DEF Unposted
  <2>m. m_messages \in Seq(MessageId) /\ m_avail \in Nat
    BY <1>0 DEF TypeOK
  <2>1. CASE DequeueCall \/ DequeueLock \/ DequeueReturn
    <3>1. UNCHANGED <<m_messages, message, alive>>
      BY <2>1 DEF DequeueCall, DequeueLock, DequeueReturn
    <3>2. Claimed' = Claimed
      BY <1>0, <2>1 DEF DequeueCall, DequeueLock, DequeueReturn, Goto, Claimed, TypeOK
    <3> QED BY <1>s, <2>0, <3>1, <3>2 DEF Available, Outcome
  <2>2. CASE DequeueWait
    <3>1. /\ m_avail > 0
          /\ UNCHANGED <<m_messages, message, alive>>
      BY <2>2 DEF DequeueWait
    <3>2. Claimed = 0 /\ Claimed' = 1 /\ alive
      BY <1>0, <2>2 DEF DequeueWait, Goto, Claimed, TypeOK, Lifecycle
    <3>3. Len(m_messages) = m_avail + Unposted
      BY <1>0, <2>m, <2>0, <3>2 DEF SemaphoreCountsMessages
    <3> DEFINE n == Len(m_messages) - Unposted
    <3>4. n \in 1 .. Len(m_messages) /\ 1 \in 1 .. Len(m_messages)
      BY <2>m, <2>0, <3>1, <3>3
    <3>5. Head(SubSeq(m_messages, 1, n)) = m_messages[1]
          /\ Tail(SubSeq(m_messages, 1, n)) = SubSeq(m_messages, 1 + 1, n)
      BY <2>m, <3>4, HeadTailOfSubSeq
    <3>6. Available = SubSeq(m_messages, 1, n) /\ Available' = SubSeq(m_messages, 1 + 1, n)
      BY <2>0, <3>1, <3>2 DEF Available
    <3>7. Len(Available) = n
      <4>1. \A j \in 1 .. n : m_messages[j] \in MessageId
        BY <2>m, <3>4, ElementOfSeq
      <4>2. Len(SubSeq(m_messages, 1, n)) = n - 1 + 1
        BY <3>4, <4>1, SubSeqProperties
      <4> QED BY <1>l, <3>4, <3>6, <4>2
    <3>8. Available # << >>
      BY <3>4, <3>7
    <3>9. Outcome' = Head(Available)
      <4>1. Outcome' = Head(m_messages)
        BY <3>1, <3>2 DEF Outcome
      <4>2. Head(m_messages) = m_messages[1]
        BY <2>m, <3>4
      <4> QED BY <3>5, <3>6, <4>1, <4>2
    <3>10. Available' = Tail(Available)
      BY <3>5, <3>6
    <3>11. Fifo!Take
      BY <3>1, <3>2, <3>8, <3>9, <3>10 DEF Fifo!Take
    <3> QED BY <3>11 DEF Fifo!Next
  <2>3. CASE DequeueTimeout
    <3>1. /\ m_avail = 0 /\ message' = NullPtr
          /\ UNCHANGED <<m_messages, alive>>
      BY <2>3 DEF DequeueTimeout
    <3>2. Claimed = 0 /\ Claimed' = 0 /\ alive
      BY <1>0, <2>3 DEF DequeueTimeout, Goto, Claimed, TypeOK, Lifecycle
    <3>3. Len(m_messages) - Unposted = 0
      BY <1>0, <2>m, <2>0, <3>1, <3>2 DEF SemaphoreCountsMessages
    <3>4. Available = << >> /\ Available' = Available
      <4>1. SubSeq(m_messages, 1, 0) = << >>
        BY SubSeqEmpty
      <4> QED BY <2>0, <3>1, <3>2, <3>3, <4>1 DEF Available
    <3>5. Outcome' = NullPtr
      BY <3>1, <3>2 DEF Outcome
    <3>6. Fifo!GiveUp
      BY <3>1, <3>2, <3>4, <3>5 DEF Fifo!GiveUp
    <3> QED BY <3>6 DEF Fifo!Next
  <2>4. CASE DequeuePop
    <3>1. /\ message' = Head(m_messages) /\ m_messages' = Tail(m_messages)
          /\ alive' = alive
      BY <2>4 DEF DequeuePop
    <3>2. Claimed = 1 /\ Claimed' = 0
      BY <1>0, <2>4 DEF DequeuePop, Goto, Claimed, TypeOK
    <3>3. m_messages # << >>
      BY <2>4, PopFindsMessage DEF DequeuePop, Goto
    <3>4. Len(m_messages') = Len(m_messages) - 1
      BY <2>m, <3>1, <3>3, HeadTailProperties
    <3>5. SubSeq(m_messages, 2, Len(m_messages) - Unposted)
            = SubSeq(Tail(m_messages), 1, Len(m_messages) - 1 - Unposted)
      BY <2>m, <2>0, <3>3, SubSeqAfterPop
    <3>6. Available' = Available
      BY <2>0, <3>1, <3>2, <3>4, <3>5 DEF Available
    <3>7. Outcome' = Outcome
      BY <3>1, <3>2 DEF Outcome
    <3> QED BY <1>s, <3>1, <3>6, <3>7
  <2> QED BY <1>2, <2>1, <2>2, <2>3, <2>4 DEF Dequeue
<1>3. CASE Destructor
  <2>1. /\ alive /\ alive' = FALSE /\ m_messages' = << >> /\ message' = message
        /\ Claimed = 0 /\ Claimed' = 0
    BY <1>0, <1>3 DEF Destructor, Goto, Claimed, TypeOK
  <2>2. Len(m_messages') = 0 /\ Unposted' \in 0 .. 1
    BY <2>1, EmptySeq DEF Unposted
  <2>3. Available' = << >>
    BY <2>1, <2>2, SubSeqEmpty DEF Available
  <2>4. Outcome' = Outcome
    BY <2>1 DEF Outcome
  <2>5. Fifo!Destroy
    BY <2>1, <2>3, <2>4 DEF Fifo!Destroy
  <2> QED BY <2>5 DEF Fifo!Next
<1>4. CASE UNCHANGED vars
  BY <1>s, <1>4 DEF vars, Available, Outcome, Claimed, Unposted
<1> QED BY <1>1, <1>2, <1>3, <1>4 DEF Next, Finished

\* For its callers the mailbox is a first-in first-out queue with indivisible
\* operations: enqueue takes effect at its sem_post, dequeue when
\* sem_timedwait returns.
THEOREM Refinement == Spec => ImplementsFifo
  BY FifoInit, FifoStep, Invariance, PTL DEF Spec, ImplementsFifo, Fifo!Spec
=============================================================================
