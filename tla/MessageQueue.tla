---------------------------- MODULE MessageQueue ----------------------------
(***************************************************************************)
(* csf_assign05/message_queue.cpp: the mailbox of a chat user.  Producers  *)
(* are the worker threads that broadcast to the user; the consumer is the  *)
(* user's own worker, the only thread that calls dequeue and the one that  *)
(* runs the destructor.  A step is what a thread does between two points   *)
(* where another thread can interfere: taking m_lock, touching the deque,  *)
(* posting or waiting for m_avail, releasing m_lock.                       *)
(*                                                                         *)
(* A Message* is a number: the n-th Message allocated is n, and 0 is the   *)
(* null pointer.  An operator named after an action with a fault in its    *)
(* name (EnqueuePushFront, ...) is that action with a plausible mistake;   *)
(* no behaviour of Spec uses it.                                           *)
(***************************************************************************)
EXTENDS Naturals, Sequences

CONSTANTS Producers,    \* threads that call enqueue
          Consumer,     \* the thread that calls dequeue and the destructor
          Unlocked,     \* the holder of a mutex nobody holds
          MaxMessages   \* bound: how many messages are ever allocated

ASSUME ThreadsAssumption ==
  /\ Consumer \notin Producers
  /\ Unlocked \notin Producers \cup {Consumer}
  /\ MaxMessages \in Nat

Threads == Producers \cup {Consumer}
MessageId == 1 .. MaxMessages
NullPtr == 0

VARIABLES
  m_lock,       \* the thread that holds the mutex, or Unlocked
  m_avail,      \* the value of the semaphore
  m_messages,   \* the deque
  alive,        \* the destructor has not run
  pc,           \* where each thread is
  msg,          \* msg[p]: the argument of producer p's current enqueue
  message,      \* dequeue's local variable: its latest result
  allocated,    \* how many messages have been allocated so far
  pushed,       \* history: the messages in the order of push_back
  returned,     \* history: the messages dequeue has returned, in order
  deleted       \* history: the messages the destructor deleted, in order

vars == <<m_lock, m_avail, m_messages, alive, pc, msg, message, allocated,
          pushed, returned, deleted>>

Init == /\ m_lock = Unlocked
        /\ m_avail = 0
        /\ m_messages = << >>
        /\ alive = TRUE
        /\ pc = [t \in Threads |-> "idle"]
        /\ msg = [p \in Producers |-> NullPtr]
        /\ message = NullPtr
        /\ allocated = 0
        /\ pushed = << >>
        /\ returned = << >>
        /\ deleted = << >>

Goto(t, from, to) == /\ pc[t] = from
                     /\ pc' = [pc EXCEPT ![t] = to]

(***************************************************************************)
(* Guard: the constructor locks the mutex, the destructor unlocks it.      *)
(***************************************************************************)
GuardEnter(t) == /\ m_lock = Unlocked
                 /\ m_lock' = t

GuardKept(t) == m_lock' = m_lock
GuardExit(t) == m_lock' = Unlocked

(***************************************************************************)
(* enqueue(msg).  The contract of the caller: the User that owns the queue *)
(* still exists.                                                           *)
(***************************************************************************)
EnqueueNothing(p) ==
  /\ Goto(p, "idle", "e_lock")
  /\ alive
  /\ allocated < MaxMessages
  /\ allocated' = allocated + 1
  /\ msg' = [msg EXCEPT ![p] = NullPtr]
  /\ UNCHANGED <<m_lock, m_avail, m_messages, alive, message, pushed,
                 returned, deleted>>

EnqueueCall(p) ==
  /\ Goto(p, "idle", "e_lock")
  /\ alive
  /\ allocated < MaxMessages
  /\ allocated' = allocated + 1
  /\ msg' = [msg EXCEPT ![p] = allocated + 1]
  /\ UNCHANGED <<m_lock, m_avail, m_messages, alive, message, pushed,
                 returned, deleted>>

EnqueueLock(p) ==
  /\ Goto(p, "e_lock", "e_push")
  /\ GuardEnter(p)
  /\ UNCHANGED <<m_avail, m_messages, alive, msg, message, allocated, pushed,
                 returned, deleted>>

EnqueuePushFront(p) ==
  /\ Goto(p, "e_push", "e_post")
  /\ m_messages' = <<msg[p]>> \o m_messages
  /\ pushed' = Append(pushed, msg[p])
  /\ UNCHANGED <<m_lock, m_avail, alive, msg, message, allocated, returned,
                 deleted>>

EnqueuePush(p) ==
  /\ Goto(p, "e_push", "e_post")
  /\ m_messages' = Append(m_messages, msg[p])
  /\ pushed' = Append(pushed, msg[p])
  /\ UNCHANGED <<m_lock, m_avail, alive, msg, message, allocated, returned,
                 deleted>>

EnqueuePostIfZero(p) ==
  /\ Goto(p, "e_post", "e_unlock")
  /\ m_avail' = 1
  /\ UNCHANGED <<m_lock, m_messages, alive, msg, message, allocated, pushed,
                 returned, deleted>>

EnqueuePost(p) ==
  /\ Goto(p, "e_post", "e_unlock")
  /\ m_avail' = m_avail + 1
  /\ UNCHANGED <<m_lock, m_messages, alive, msg, message, allocated, pushed,
                 returned, deleted>>

EnqueueReturn(p) ==
  /\ Goto(p, "e_unlock", "idle")
  /\ GuardExit(p)
  /\ UNCHANGED <<m_avail, m_messages, alive, msg, message, allocated, pushed,
                 returned, deleted>>

(***************************************************************************)
(* dequeue().  sem_timedwait takes a unit of the semaphore when there is   *)
(* one; otherwise it waits, and gives up when the second has elapsed.      *)
(***************************************************************************)
DequeueCall ==
  /\ Goto(Consumer, "idle", "d_wait")
  /\ alive
  /\ UNCHANGED <<m_lock, m_avail, m_messages, alive, msg, message, allocated,
                 pushed, returned, deleted>>

DequeueWait ==
  /\ Goto(Consumer, "d_wait", "d_lock")
  /\ m_avail > 0
  /\ m_avail' = m_avail - 1
  /\ UNCHANGED <<m_lock, m_messages, alive, msg, message, allocated, pushed,
                 returned, deleted>>

DequeueTimeoutEarly ==
  /\ Goto(Consumer, "d_wait", "idle")
  /\ message' = NullPtr
  /\ UNCHANGED <<m_lock, m_avail, m_messages, alive, msg, allocated, pushed,
                 returned, deleted>>

DequeueTimeout ==
  /\ Goto(Consumer, "d_wait", "idle")
  /\ m_avail = 0
  /\ message' = NullPtr
  /\ UNCHANGED <<m_lock, m_avail, m_messages, alive, msg, allocated, pushed,
                 returned, deleted>>

DequeueLock ==
  /\ Goto(Consumer, "d_lock", "d_pop")
  /\ GuardEnter(Consumer)
  /\ UNCHANGED <<m_avail, m_messages, alive, msg, message, allocated, pushed,
                 returned, deleted>>

\* front() and pop_front() of an empty deque are undefined; that the deque
\* is never empty here is part of SemaphoreCountsMessages.
DequeuePop ==
  /\ Goto(Consumer, "d_pop", "d_unlock")
  /\ message' = Head(m_messages)
  /\ m_messages' = Tail(m_messages)
  /\ UNCHANGED <<m_lock, m_avail, alive, msg, allocated, pushed, returned,
                 deleted>>

DequeueReturn ==
  /\ Goto(Consumer, "d_unlock", "idle")
  /\ GuardExit(Consumer)
  /\ returned' = Append(returned, message)
  /\ UNCHANGED <<m_avail, m_messages, alive, msg, message, allocated, pushed,
                 deleted>>

(***************************************************************************)
(* ~MessageQueue(), run by the consumer's thread when it deletes its User. *)
(* The contract of the caller: no other thread is inside an operation.     *)
(***************************************************************************)
Destructor ==
  /\ Goto(Consumer, "idle", "gone")
  /\ alive
  /\ \A p \in Producers : pc[p] = "idle"
  /\ alive' = FALSE
  /\ m_messages' = << >>
  /\ deleted' = m_messages
  /\ UNCHANGED <<m_lock, m_avail, msg, message, allocated, pushed, returned>>

\* The program goes on without the queue.
Finished == /\ ~alive
            /\ UNCHANGED vars

Enqueue(p) == \/ EnqueueCall(p)
              \/ EnqueueLock(p)
              \/ EnqueuePush(p)
              \/ EnqueuePost(p)
              \/ EnqueueReturn(p)

Dequeue == \/ DequeueCall
           \/ DequeueWait
           \/ DequeueTimeout
           \/ DequeueLock
           \/ DequeuePop
           \/ DequeueReturn

Next == \/ \E p \in Producers : Enqueue(p)
        \/ Dequeue
        \/ Destructor
        \/ Finished

Spec == Init /\ [][Next]_vars

(***************************************************************************)
(* The scheduler runs every thread that can run inside a call.  Nobody is  *)
(* obliged to start one: not the producers, and not the consumer either,   *)
(* whose loop in chat_with_receiver sends each message to its client       *)
(* before it calls dequeue again, and stays in that send for as long as    *)
(* the client does not read.                                               *)
(***************************************************************************)
Fairness ==
  /\ \A p \in Producers :
       WF_vars(EnqueueLock(p) \/ EnqueuePush(p) \/ EnqueuePost(p)
               \/ EnqueueReturn(p))
  /\ WF_vars(DequeueWait \/ DequeueTimeout \/ DequeueLock \/ DequeuePop
             \/ DequeueReturn)

FairSpec == Spec /\ Fairness
-----------------------------------------------------------------------------
(***************************************************************************)
(* Properties                                                              *)
(***************************************************************************)
EnqueuePoints == {"idle", "e_lock", "e_push", "e_post", "e_unlock"}
DequeuePoints == {"idle", "d_wait", "d_lock", "d_pop", "d_unlock", "gone"}

\* Every variable keeps its type, and the histories hold allocated messages.
TypeOK ==
  /\ m_lock \in Threads \cup {Unlocked}
  /\ m_avail \in Nat
  /\ m_messages \in Seq(MessageId)
  /\ alive \in BOOLEAN
  /\ pc \in [Threads -> EnqueuePoints \cup DequeuePoints]
  /\ \A p \in Producers : pc[p] \in EnqueuePoints
  /\ pc[Consumer] \in DequeuePoints
  /\ msg \in [Producers -> MessageId \cup {NullPtr}]
  /\ \A p \in Producers : pc[p] # "idle" => msg[p] \in MessageId
  /\ message \in MessageId \cup {NullPtr}
  /\ pc[Consumer] = "d_unlock" => message \in MessageId
  /\ allocated \in 0 .. MaxMessages
  /\ pushed \in Seq(MessageId)
  /\ returned \in Seq(MessageId)
  /\ deleted \in Seq(MessageId)

Critical(t) == pc[t] \in {"e_push", "e_post", "e_unlock", "d_pop", "d_unlock"}

\* The deque is only touched under m_lock: a thread is inside a critical
\* section exactly when it is the one that holds the mutex ("must be held
\* while accessing queue", message_queue.h).
LockProtectsQueue == \A t \in Threads : Critical(t) <=> m_lock = t

\* The consumer has taken a unit of the semaphore and not yet its message.
Claimed == IF pc[Consumer] \in {"d_lock", "d_pop"} THEN 1 ELSE 0

\* A producer has pushed a message and not yet posted it.
Unposted == IF \E p \in Producers : pc[p] = "e_post" THEN 1 ELSE 0

\* The semaphore counts the messages in the queue, up to the one message a
\* producer is about to post and the one the consumer is about to pop.  So
\* pop_front never meets an empty deque, and no message waits uncounted.
SemaphoreCountsMessages ==
  alive => Len(m_messages) = m_avail + Claimed + Unposted

InHand == IF pc[Consumer] = "d_unlock" THEN <<message>> ELSE << >>

\* Every message ever pushed is in exactly one place, and the places line up
\* in the order of the pushes: returned by dequeue, in the consumer's hand,
\* still queued, or deleted by the destructor.  Nothing is lost, duplicated,
\* overtaken, or leaked when the User is deleted.
NothingLostOrReordered ==
  /\ pushed = returned \o InHand \o m_messages \o deleted
  /\ ~alive => m_messages = << >>

(***************************************************************************)
(* The queue implements FifoQueue.  A message can be taken once it is      *)
(* posted and the consumer has not claimed it; the reader's outcome is     *)
(* settled when sem_timedwait returns.                                     *)
(***************************************************************************)
Available == SubSeq(m_messages, 1 + Claimed, Len(m_messages) - Unposted)
Outcome == IF Claimed = 1 THEN Head(m_messages) ELSE message

Fifo == INSTANCE FifoQueue WITH
          Message <- MessageId,
          Nothing <- NullPtr,
          queue   <- Available,
          outcome <- Outcome,
          open    <- alive

\* Each operation takes effect at one instant between its call and its
\* return, in first-in first-out order, and dequeue returns nullptr only at
\* an instant at which no message is available.
ImplementsFifo == Fifo!Spec

\* Every call returns: enqueue "will not block" for good, and dequeue "blocks
\* for at most a finite amount of time" (message_queue.h).
CallsReturn == /\ \A p \in Producers : pc[p] = "e_lock" ~> pc[p] = "idle"
               /\ pc[Consumer] = "d_wait" ~> pc[Consumer] \in {"idle", "gone"}

\* As long as the consumer comes back to dequeue again and again, a message
\* that was pushed does not stay in the queue for ever: dequeue returns it or
\* the destructor deletes it.  (A consumer that stays away, held up by its
\* client, leaves its messages where they are.)
EveryMessageLeaves ==
  []<>(pc[Consumer] # "idle") =>
    \A n \in MessageId :
      (\E i \in DOMAIN pushed : pushed[i] = n)
        ~> (\/ \E i \in DOMAIN returned : returned[i] = n
            \/ \E i \in DOMAIN deleted : deleted[i] = n)
=============================================================================
