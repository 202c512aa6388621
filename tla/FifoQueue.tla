----------------------------- MODULE FifoQueue -----------------------------
(***************************************************************************)
(* What a mailbox promises its single reader, whatever it is made of: a    *)
(* first-in first-out queue on which each operation is one indivisible     *)
(* step, and whose reader is turned away only when nothing is there.       *)
(* MessageQueue implements it (MessageQueue!Fifo).                         *)
(***************************************************************************)
EXTENDS Sequences

CONSTANTS Message,     \* the messages that may be put into the queue
          Nothing      \* what the reader gets when there is no message

VARIABLES queue,       \* the messages that can be taken, oldest first
          outcome,     \* the result of the reader's latest request
          open         \* the queue has not been destroyed

vars == <<queue, outcome, open>>

Init == /\ queue = << >>
        /\ outcome = Nothing
        /\ open = TRUE

Put(m) == /\ open
          /\ queue' = Append(queue, m)
          /\ UNCHANGED <<outcome, open>>

Take == /\ open
        /\ queue # << >>
        /\ outcome' = Head(queue)
        /\ queue' = Tail(queue)
        /\ UNCHANGED open

GiveUp == /\ open
          /\ queue = << >>
          /\ outcome' = Nothing
          /\ UNCHANGED <<queue, open>>

Destroy == /\ open
           /\ open' = FALSE
           /\ queue' = << >>
           /\ UNCHANGED outcome

Next == \/ \E m \in Message : Put(m)
        \/ Take
        \/ GiveUp
        \/ Destroy

Spec == Init /\ [][Next]_vars
=============================================================================
