----------------------------- MODULE ChatRooms -----------------------------
(***************************************************************************)
(* What the chat server promises the people in its rooms: to say something *)
(* in a room is one indivisible step that reaches exactly the receivers    *)
(* who are in the room at that moment, and each receiver hears everything  *)
(* said since it joined, in the order in which it was said, until it       *)
(* leaves.  ChatServer implements it (ChatServer!Chat).                    *)
(***************************************************************************)
EXTENDS Sequences

CONSTANTS Receiver, Room, Message

VARIABLES members,   \* members[r]: the receivers in room r
          inbox,     \* inbox[u]: what u is still to hear, oldest first
          heard      \* heard[u]: what u has heard, in order

vars == <<members, inbox, heard>>

Init == /\ members = [r \in Room |-> {}]
        /\ inbox = [u \in Receiver |-> << >>]
        /\ heard = [u \in Receiver |-> << >>]

Join(u, r) == /\ \A q \in Room : u \notin members[q]
              /\ members' = [members EXCEPT ![r] = @ \cup {u}]
              /\ UNCHANGED <<inbox, heard>>

Say(r, m) == /\ inbox' = [u \in Receiver |-> IF u \in members[r]
                                             THEN Append(inbox[u], m)
                                             ELSE inbox[u]]
             /\ UNCHANGED <<members, heard>>

Hear(u) == /\ inbox[u] # << >>
           /\ heard' = [heard EXCEPT ![u] = Append(@, Head(inbox[u]))]
           /\ inbox' = [inbox EXCEPT ![u] = Tail(@)]
           /\ UNCHANGED members

Leave(u) == /\ members' = [r \in Room |-> members[r] \ {u}]
            /\ inbox' = [inbox EXCEPT ![u] = << >>]
            /\ UNCHANGED heard

Next == \/ \E u \in Receiver, r \in Room : Join(u, r)
        \/ \E r \in Room, m \in Message : Say(r, m)
        \/ \E u \in Receiver : Hear(u) \/ Leave(u)

Spec == Init /\ [][Next]_vars
=============================================================================
