# Verification of the CSF assignments

The repository holds five programs: a 256-bit integer library (`csf_assign01`),
a hex dump in C and in assembly (`csf_assign02`), a cache simulator
(`csf_assign03`), a parallel merge sort (`csf_assign04`) and a chat server with
its two client programs (`csf_assign05`). This directory holds TLA+ models of
them, the TLC runs that check the models, and the theorems that TLAPS proves.
The chat server is by far the part in which most can go wrong, and was
modelled first.

## Inventory

| Component | State | Operations | Made correct by |
|---|---|---|---|
| Mailbox: `message_queue.cpp`, `guard.h` | mutex `m_lock`, semaphore `m_avail`, deque `m_messages` | `enqueue`, `dequeue` (with a timeout of one second), destructor | nothing lost, repeated or reordered; the semaphore never promises a message that is not there; every call returns |
| Chat server: `server.cpp`, `room.cpp`, `user.h`, `message.h` | `m_rooms` under `Server::m_lock`; per `Room` a member set and a lock; per worker thread its locals, its `User` and its `Connection` | accept, login, join, leave, sendall, quit, delivery, cleanup | one `Room` per name; no `User` used after it is deleted; a broadcast reaches the members as one step; one reply per request; a client that stops reading holds up nobody else |
| Connection: `connection.cpp`, `csapp.c` (`rio_*`) | descriptor, `rio_buf`, `m_last_result` | `send`, `receive`, `close`, destructor | messages come out whole, one by one, in order, however the stream is cut |
| Server start: `server_main.cpp`, `listen`, `open_listenfd` | the listening socket, the table of descriptors | start, `Accept`, exit | a client that waits to be accepted does not wait for ever |
| Clients: `sender.cpp`, `receiver.cpp`, `client_util.cpp` | a `Connection`, the input | login, then a request/reply loop, or a delivery loop | replies match requests as long as no line is too long; what is said is printed in order, and nothing in a wrong place; a sender ends when the server and its input have |
| Cache simulator: `cache.cpp`, `csim.cpp` | sets of blocks with an order counter and a dirty bit, statistics | `load`, `store` | the right block is evicted; a dirty block is written back; the statistics add up |
| Parallel sort: `parsort.c` | one shared mapping, a tree of processes | `merge_sort`, `merge`, fork, wait | no process touches a range before its children are done; failures reach the root |
| Sorting tools: `is_sorted.c`, `gen_rand_data.c` | none | one pass over a file | `is_sorted` tells sorted files from others |
| 256-bit integers: `uint256.c` | four 64-bit limbs | add, sub, mul, shift, parsing, formatting | agreement with arithmetic modulo 2^256 |
| Hex dump: `c_hex*.c`, `asm_hex*.S` | a block of 16 bytes, an offset | reading blocks, formatting lines | offsets and layout of every line, whatever `read` returns |

How they interact: only the parts of `csf_assign05` interact. `Server` accepts
connections and starts one detached thread for each. A sender's worker finds
or creates rooms in the map that all workers share and calls
`Room::broadcast_message`, which calls `MessageQueue::enqueue` for every member
while it holds the room's lock. A receiver's worker adds its `User` to a room,
takes messages out of its own mailbox and sends them to its client. Workers
and clients talk through `Connection`s. The five programs share no code.

What is hard in it: workers overlap at every lock; a `Room*` or a `User*` found
under one lock is used long after it is released; a `User` is deleted while
other threads may be about to post to it; the semaphore and the deque are
changed in separate steps; clients send anything, stop reading, and disappear
at any time; a TCP stream is cut anywhere. PROJECT.json, "hazards", lists each
of these at its line with the properties that cover it.

## Modules

| Module | What it is |
|---|---|
| `FifoQueue` | what a mailbox promises: put, take, and discarding at the end, each in one step |
| `MessageQueue` | `message_queue.cpp` and `guard.h` at the level of lock, semaphore and deque |
| `MessageQueueProof` | its theorems |
| `ChatRooms` | what the server promises: to say something in a room is one step that reaches those who are in it |
| `ChatServer` | `server.cpp` and `room.cpp` with any number of workers and clients |
| `ChatServerProof` | its theorems on pointers, rooms, users and locks, and on what clients see: replies, and what is said in a room; it implements `ChatRooms` |
| `Connection` | one direction of a connection: `send`, the socket, `rio_readlineb`, `receive`, the destructor |
| `ConnectionProof` | its theorems |
| `ReplacementPolicy` | what a cache simulator computes: each set a list of blocks, and an account of what main memory lacks |
| `Cache` | `cache.cpp` and the checks of `csim.cpp`: counters and dirty bits |
| `CacheProof` | its theorems |
| `ParSort` | `parsort.c`: the tree of processes in one shared mapping |
| `ParSortProof` | its theorems |
| `UInt256` | `uint256.c` for limbs of any width |
| `UInt256Proof` | its theorems |
| `Clients` | `sender.cpp`, `receiver.cpp` and the server together: connections, descriptors, the ends of programs |
| `ClientsProof` | its theorems |
| `Hexdump` | both hex dumps, byte by byte |
| `HexdumpProof` | its theorem |
| `MC...` | the instances TLC checks |

Some definitions stand directly before the action of the code they vary and
have names such as `EnqueuePushFront`, `BroadcastUnlocked` or `LineFullOnly`.
They are faulty on purpose and no specification uses them: each is a plausible
bug, put in the place of the real action to see that the property named with it
in PROJECT.json, "mutants", notices.

### MessageQueue

The variables have the names of the code's members. `pc[t]` says where a
thread is; a step is what a thread does between two points at which another
thread can interfere. `enqueue` is `EnqueueCall`, `EnqueueLock`, `EnqueuePush`,
`EnqueuePost`, `EnqueueReturn`; `dequeue` is `DequeueCall`, then `DequeueWait`
(the semaphore was positive) or `DequeueTimeout` (it was zero), `DequeueLock`,
`DequeuePop`, `DequeueReturn`. `GuardEnter` and `GuardExit` are the constructor and
destructor of `Guard`. `pushed`, `returned` and `deleted` are histories. Many
threads enqueue and one dequeues and destroys the queue, as in the server,
where a mailbox belongs to the worker of its user. That no enqueue meets a
destroyed queue is what the caller must ensure, and `ChatServer` checks it
(`NoUseAfterFree`).

The refinement mapping to `FifoQueue` lets a message enter the queue when it is
pushed and leave when it is popped; a timeout takes nothing.

### ChatServer

A worker `w` stands for its thread, its `Connection`, its `User` and its client.
`peer[w]` is what the socket knows of the client: reading, not reading
(`stalled`), half closed (`eof`) or gone (`reset`). A client may send any message
at any point at which the worker receives one; `owed[w]` counts the requests
that have no reply yet. `rooms` are the `Room` objects, `m_rooms` the map, and a
`Room*` is an index with 0 for null. `rooms[r].log` is a history of what was
broadcast, `joined` and `heard` of what a receiver must have, and has, been sent.

Every lock, unlock and change under a lock is a step of its own:
`find_or_create_room` is `ServerLock`, `FindRoom`, `CreateRoom`; `broadcast_message`
is `BroadcastLock`, a `BroadcastNext` and a `BroadcastEnqueue` for each member,
`BroadcastReturn`. A send that blocks is an action that is not enabled while the
client does not read, and it ends in success or, with a client that is gone, in
failure: each of the code's tests of `get_last_result()` is the choice in
`Reply` and `Deliver`. After an error reply to an invalid login `worker` goes on to
check the name, as in the code, so one message can have several replies before
the connection ends. A text is its number, a name a model value; whether a
message is unterminated or a name is bad is part of the message.

A mailbox operation is one step here. What justifies it is
`MessageQueue!ImplementsFifo`.

`ChatRooms` is implemented with this mapping: a broadcast happens when it takes
the room's lock, and the part of it that has not yet arrived in a member's
mailbox (`Pending`) counts as already there; a receiver is in the room from
`add_member` until a send to its client has failed.

### Connection

One end sends, the other receives; each direction of a real connection is one
such pair. A byte is `<<message, position>>` and the last byte of a message is its
newline. `Send` encodes a message, `Write` is one `write()` of any length up to the
room in the socket, `Refill` is one `read()` into `rio_buf`, `TakeByte` the loop of
`rio_readlineb`, and `LineEnds`, `ReadEof` and `ReadError` its ends. `Returns` and `Fails`
are the two ways out of `receive`, `Destructor` that of the object. `Shut` and `Reset`
are the environment. `MAX_LEN`, the size of `rio_buf` and that of the socket are
constants.

### ReplacementPolicy and Cache

`data[i][tag]` is the pair of counter and dirty bit that the code keeps in a map of
maps. `load` and `store` are one action each, as in the code, and so is every
function they call: `count_load_hit`, `count_load_miss`, `count_store_hit`,
`count_store_miss`. `Evicted` is the loop over a full set that looks for the counter
`blockNum - 1`; if no block had it, the variable `key` of the code would be
uninitialized, and the model then evicts anything at all. `OrderIsTotal` says that
this never happens. `Sizes` are the three numbers on the command line, as long
as they are positive and the cache has less than 2^32 bytes. Powers of two are a recursive
function, `two_to`, here and in `UInt256`, because nothing can be proved about `^`.

`ReplacementPolicy` has neither counters nor dirty bits. `ImplementsPolicy` maps a
set to its tags in the order of their counters and the dirty bits to the set of
blocks of which main memory has an old copy; the cycles must be equal. So the
property covers which block goes, when a write-back is charged, and the price of
every access.

### ParSort

A process is named by the part it sorts, `<<begin, end>>`. `pc[p]` is where it is in
`merge_sort`; `unborn` has not been forked, `ok`, `failed` and `killed` are the ways to end.
`ForkLeft`, `ForkRight`, `WaitLeft`, `WaitRight`, `merge` and `CopyBack` are the code in its
order, and `SortSequentially` the call of `qsort`. `fork`, `waitpid` and `munmap` may fail
(`Fails`), and any process may be killed at any point (`Killed`, which is also what becomes of
it if `malloc` gives null); its children go on without it, as they do on Unix. The copy back is
a step for each cell, counted as the code counts, with an int that is compared with a `size_t`
(`LoopEnds`; `IntMax` is 2^31 - 1 in the program): an int that has wrapped around to a negative
number ends the loop, which is what it does as the Makefile compiles it, without optimization.
Once `copied` is `IntMax` + 1 the code's `i` is that negative number;
`qsort` and `merge` are single steps, which is sound because nobody else is in the
same part of the mapping (`DisjointParts`). That `qsort` sorts is assumed; `merge`
is modelled by its loop.

### UInt256

A limb has `W` bits and `D` hex digits (64 and 16 in the program); a string is the sequence of
its digits' values, and has at most `MaxDigits` of them, a bound that is any number. The
operators have the names of the functions and their control: the comparison that stands for the
carry, the three cases of the shift, the whole and the partial limbs of a string. A behaviour
is one call, with any arguments; `Mul` is one round of the loop of `uint256_mul`.

### Clients

`ChatServer` has the server's threads and leaves the clients free to do anything.
`Clients` has the programs: `client[p]` says where a sender or a receiver is,
`worker[p]` where its thread in the server is, `conn[p]` what the client's end of
the connection knows, and `up[p]`, `down[p]` are the pieces under way. A worker
does one message in one step; that the steps in between do no harm is
what `ChatServer!ImplementsChatRooms` says. A line is its tag and its length, and `Pieces`
is what `rio_readlineb` makes of it: a line of `MAX_LEN` bytes or more becomes
several messages, of which the later ones begin with whatever stands there (`tails`).
On the way to the server that is what the user typed, and may read as any request
(`RequestTails`). On the way to a receiver it is user text or a piece of a name, and may
read as a delivery, if it is long enough for the name of the room (`DeliveryTails`); the
receiver then prints it (`Shows`). `ROOM` and `DELIVERY[p]` are how long the beginning of a delivery
is, up to the end of the name of the room and up to the text; both may be `MAX_LEN` or more.
`room_name` tells apart what the argument of a receiver can be: with a colon in it it never
equals what the receiver takes for the name of the room; with a tab at its end, which the server
trims, only the rest of a cut delivery can have it. `SendLine` and `GetReply` are the two halves of
the loop of `send_helper`, `Connect`, `SendLogin`, `LoggedIn` and `SendJoin` the beginnings of both
programs, `Listen` the loop of the receiver.

When the server ends (`Exit`) a client sees an end of file, or a reset if the server
had not read everything. A write after an end of file still succeeds, and its
answer (`Answer`) breaks the connection; the next write raises SIGPIPE. Only
`server_main` ignores that signal. `used` counts the descriptors of the server,
which workers never give back; `AcceptOther` stands for all other clients that have
come and gone. `AcceptFails` is `accept` without a descriptor, which `Accept` of
`csapp.c` turns into `exit(0)`. A client may be killed at any time (`Interrupted`): its worker
finds out when it next receives or writes (`ClientGone`, `Write`), and what the client sent last
may or may not count.

### Hexdump

`program` chooses one of the two programs; each function is an action or an operator
of the same name. Memory is modelled byte by byte with the arrays of the assembly
program side by side, because it stores quad words where a character or a NUL
is meant (`Quad`): the models show that each byte stored too many is overwritten before
it is used. `read` may return less than sixteen bytes at any time, as it does on
a terminal or a pipe. The count is a long, of which `printoffset` and `printsupplement` take an
int (`int`, `unsigned`; `IntMax` is 2^31 - 1 in the program). `DumpLine`, the reference, says
place by place what a line is, without reference to either program.

## What the runs check

| Run | Instance | Shows |
|---|---|---|
| `mq` | three producers, four messages | semaphore and deque agree at every step; the mailbox is an atomic FIFO queue; every call returns, and every message leaves as long as the consumer comes back |
| `chat_safety` | two stories: a client that may send anything and leave, with one other client and two rooms, or with a sender and a receiver in one room; two senders who make no mistake, two receivers, two broadcasts, one room | pointers, rooms, users, locks and replies are right in every interleaving; all hear the same things in the same order from the moment they join; the server implements `ChatRooms`, with members who leave, too |
| `chat_liveness` | a sender, a receiver that stops reading or disappears, one that stays | the first receiver holds up nobody, and its worker ends |
| `conn_stream` | messages of 2, 3, 4 and 6 bytes, `MAX_LEN` 4, `rio_buf` 3, socket 4 | every cut of the stream is put together again, and a message shorter than `MAX_LEN` is whole |
| `cache` | one set of four blocks, two of two, four of one; all policies; six accesses to five blocks | the simulator implements the policy and its cycles add up |
| `parsort` | six cells, threshold 2, an int up to 5, eight files, seven processes on three levels | exit code 0 means sorted, everybody ends, and `is_sorted` is right |
| `uint256` | four limbs of two bits, all pairs of numbers, all shifts, all strings of up to twelve digits | each function against arithmetic |
| `clients` | one sender with two typed lines and one more at the end of its input, one receiver, two descriptors; texts of 0, 1 and 14 bytes, deliveries of 8 bytes more with their newline, `MAX_LEN` 9 | which replies a sender reads, what a receiver prints, that what is said is printed, who waits and who is left when the server has ended |
| `hexdump` | inputs of 0, 1, 16, 32, 41 and 70 bytes on both sides of every limit, read 16 or 1, 6, 15 at a time; an int of six bits | every line of the assembly program is right; of the C program those that begin at a multiple of sixteen, if their fill is not taken from a negative int |
| `conn_maxlen`, `uint256_sum`, `hexdump_aligned` | as above | findings 1, 2 and 3 below |

Why the bounds are enough. Three producers give a queue in which one thread
holds the lock, one waits for it and one has pushed and not posted; four
messages let the deque hold two while two more are on their way. In the server a race needs two
workers at one object and a third whose view of it can go wrong: two may create
a room, while a third uses it, two broadcasts may overtake one another on
their way to two mailboxes. The room names are two, for a leave and a join
elsewhere. The sizes of the connection are scaled so that a line is longer than
`rio_buf`, the socket is smaller than two messages, and `MAX_LEN` falls on either side
of a message. The cache has fewer blocks than the trace uses in every geometry, and six
accesses fill a set, disturb its order, evict a dirty block and come back for it. In `ParSort`
there are processes with a parent and with children, the parts are of odd size, and so are
their halves. Four limbs of two bits are the smallest in which a limb can be all ones, a carry
can pass through two of them, and a shift can cross one, two and three limbs with and without a
remainder. The largest int of `parsort` can just count the six cells. Eight digits fit in the
numbers of `uint256`, so that up to four are cut off: two whole limbs. In `Clients` the
delivery of an empty text is just whole and that of a text of one byte just cut, with the
newline for a rest. A text of 14 bytes is too long for the server; its rest can read as any
request, and as a sendall of its own it makes a delivery that is cut so that the rest has the
space to read as a delivery for either kind of room. With a join, another line and the empty
one at the end of the input two deliveries can be printed in an order, and a sender can wait
for a worker that has gone. Two descriptors are too few as soon as one other client has come.
`RoomKinds` leaves out rooms with a colon, in which `Shows` is never true. `Clients` allows deadlock, since
the programs may all have ended. The inputs of `Hexdump` have a first, a full and a last
line, and short reads that leave the count at an odd place; the longest makes the count leave the
range of an int of six bits, and come back to zero. Symmetry is used
only for the room names, senders and receivers of `chat_safety`, which
nothing tells apart; its two stories are a CONSTRAINT on who comes, and on the rooms in use.

### Fairness

Liveness assumes what the operating system gives and nothing of the clients.
`MessageQueue` and `ChatServer` assume weak fairness of each thread's own
steps. In `MessageQueue` these are the steps inside a call: nobody is obliged to call `enqueue`
or `dequeue`, since the one loop that calls `dequeue` (`server.cpp:179-188`) is held up in
`send` by a client that does not read. So `EveryMessageLeaves` is stated for a consumer that
comes back again and again, and a message may stay in a mailbox for ever if it does not.
`QueuedIsHeard` of `ChatServer`, in which the client is part of the model, has the same
condition in terms of the client. Taking a mutex is not possible all the time while others take
and release it, and is strongly fair in `ChatServer`: a worker gets in the end a mutex that is
free again and again. Clients need not send, read or leave; what liveness says of them is
conditional on what they do. In `Connection` a `send` and a
`receive` that can go on do; that the reader comes back to `receive` is a condition of `SentIsReceived`. In `ParSort` every
process that can run does, but no process need be killed, and a `waitpid` may go
on waiting: that all processes end must follow from the tree. In `Clients` the programs,
the workers and the network go on; nobody need start a program, type a line, end
the input, a program or the server.

## Findings

1. `connection.cpp:83` passes `MAX_LEN` to `rio_readlineb`, which keeps one place for
   the NUL. A message of exactly `MAX_LEN` characters, which `message.h:8-9`
   allows, comes out as two (`AllowedMessagesWhole`, the run `conn_maxlen`). All shorter ones are whole
   (`ShortMessagesWhole`).
2. `uint256.c:213` finds a carry by comparing the sum of two limbs with each of
   them. When both limbs are all ones and a carry comes in, the sum is all
   ones too and the carry out of it is lost (`AddIsSum`, the run `uint256_sum`).
   `WrongOnlyWhenCarryLost` shows that this is the only case in which the sum
   or the difference is wrong.
3. `c_hexmain.c:24` fills up a line by the remainder of the number of bytes read so far; the comments there
   say that it is the number of digits "on this line" and that the spaces are "to reach allignment". After one short
   read the text of the lines is out of its column (`TextAligned`, the run `hexdump_aligned`) until the number is a
   multiple of sixteen again. `LinesRight` says exactly which lines are right: besides, once 2 GiB have been read the
   number may be negative as an int, and a line that is not full gets too many spaces, until
   it wraps around to positive numbers.
4. `parsort.c:120` counts the cells of the copy back with an int and compares it with a `size_t`. In a part of more than
   2^31 cells it becomes negative, which is more than any size, and the loop ends: the rest of
   `temp` is not copied, nothing notices, and `main`, which is to "exit with a 0 exit code if sort was
   successful" (`parsort.c:174`), returns 0. The model does the same (`LoopEnds`), and `SortedWhenZero` promises a sorted
   file only if an int can count its cells; no run has a file for which it cannot, and what is proved covers both.
5. `connection.h:27` says that the destructor closes the descriptor. It does so
   only while `is_open()`, which an EOF or an error has made false (`Connection!Destructor`). No program destroys such a
   connection before it exits, so nothing depends on it.

Behaviour that no document speaks of, and that the properties state as it is:

- After a line that is too long the sender reads the replies to earlier lines, one further behind for
  each surplus piece (`RepliesLagBySurplus`). If such a piece reads as a quit the
  worker ends, but its `Connection` is never destroyed, and the sender
  in the end waits for ever for a reply (the exception in `WaitsEnd`).
- A text that the server takes whole is cut for the receivers if the names in front of it make
  the delivery too long. Its rest is then a message of its own, and is printed like a delivery if it reads as one.
  In a room whose name has a colon or ends in
  a tab a receiver prints no delivery from its beginning (`PrintedInOrder`).
- The server never closes a connection; with the last descriptor gone the
  next `accept` ends it. For the clients that wait this is the better outcome: they are
  not left hanging (`WaitsEnd`).
- A sender at the end of its input sends empty texts for ever; only SIGPIPE
  ends it, after the server has. A receiver in its loop never ends (`OnlyListenersStay`).

## What is proved

The theorems hold for all values of the constants that satisfy the ASSUMEs of
the modules: a set of threads or workers of any size, any number of messages,
any length and threshold. In each module an invariant `Inv` is shown to hold at
first and to be kept by every action; the theorems follow from it.

*Mailbox.* Besides its properties `Inv` needs `Lifecycle`: the consumer, once it has
run the destructor, is alone, and until then nothing has been deleted. The
semaphore is equal to the number of messages minus those pushed and not posted
and those claimed and not popped, which is why `pop_front` finds a message
(`PopFindsMessage`). `Refinement` maps each step to a step of `FifoQueue` or a stutter.

*Chat server.* That no deleted `User` is used (`UsersOutlived`) and that a name has
one `Room` (`RoomsUnique`) are not inductive by themselves. `Inv` adds that the map
and the rooms agree, that each lock is held by exactly the worker that is at a
point between lock and unlock, that a user is a member of a room exactly when
its worker is between `add_member` and `remove_member` with that room as its
current one, and that the iterator of a broadcast stands at a member as long as the
room's lock is held. A `User` is deleted at a point at which its worker is in no
room, and hence under no iterator.

What is heard needs three more parts. `VisitedOK`: a broadcast
starts with no member visited and its iterator never stands at one it has passed.
`EmptyOK`: a worker has something in hand only on the way from its mailbox to its
client, and nothing is in the mailbox of who is not yet a member. `HistoryOK`: what
a listener has been sent, has in hand, has in its mailbox and is still to get from the
broadcast under way is the room's log from where it joined. Since the room's lock
has one holder, at most one broadcast is under way in a room (`OneSpeaker`), and that is
why `Pending` is one message or none. The log grows when a broadcast takes the lock, by
what then becomes pending (`InboxGrows`); putting it into the mailbox changes nothing in
the whole (`InboxSame`); a delivery moves the hand to what was heard
(`InboxDelivered`); who comes in finds nothing (`InboxStarts`), because `add_member` waits for
the lock. `EverybodyHears` follows. The same lemmas give the refinement
(`BroadcastsIndivisible`): `add_member` is `Join`, taking the room's lock for a broadcast is `Say`,
a successful delivery is `Hear`, a failed one or a failed reply to the join is `Leave`,
and every other step is a stutter (`Unnoticed`). That rooms have unique names, from
`Inv`, makes a room of the map and a `Room` object the same thing. `OneReplyEach` rests on
`OwedOK`, which says at each point of a worker's code whether a reply is due; the one
irregular path, two replies to a message with an unknown tag, never leads to a
conversation.

*Parallel sort.* `Inv` describes the tree: the parts of any two processes are
nested or apart (`Laminar`), whoever is below a process is below or is one of its
children (`Children`) and is not there before the fork (`NotYet`), and a process that has
seen a child exit with 0 has nobody below that child that has not (`AllDone`). A fork keeps
this because whoever has the child's part inside his own has the parent's
inside it (`Forks`). `ExitCodeHonest` and `PartsDisjoint` are corollaries, with all
failures included.

That exit code 0 means sorted (`ExitZeroIsSorted`) needs the contents, too. `Stage` says of
each process what its cells hold at its point of the code: at `call` what was in the file
(`Fresh`); from then on a part whose process has ended with 0 is sorted and has what it had
(`Kept`); after `merge` the array `temp` is sorted and has the cells of both halves, and during
the copy the cells copied so far are those of `temp` (`CopyOK`). A step writes only in the part
of its process, and nobody that somebody still relies on is inside it or around it, which is
`Laminar` and `AllDone` again. All this is promised only of parts whose cells an int can count,
or that are not above the threshold (`CountFits`), and since a child's part is smaller than its
parent's, it then holds of every process below. `merge` itself is proved by induction over the
turns of its loop (`Has`, `Turn`): what has been taken is sorted, is not above what is left,
and is what has gone from the halves; `is_sorted` likewise. That `qsort` sorts is the one
assumption.

*Clients.* `RepliesLagBySurplus` is inductive once it is known that nothing is under
way before a sender has started (`Fresh`) and that the queues hold pieces (`Types`). Each line
adds its pieces to `up` and the surplus to `surplus`, each piece a worker takes becomes one
reply, and the sender takes one; receivers and the end of the server do not touch the balance.
`PrintedAsSaid` rests on `Follows`: what a receiver has printed follows what was said since it
joined, without a gap; the deliveries under way follow on what is printed (`Chain`): each piece
under way is an answer, the first piece of the next delivery, or another piece of the one
before, which then is cut (`Link`). The mailbox follows on those (`Waits`), and ends with what
was said last. The pieces of one delivery make such a chain whatever the tails are
(`DeliveryBrings`), and what a receiver does not print does not disturb it: in a room that
prints beginnings, only rests are left out. `MAX_LEN`, the names and the texts are of any
length.

*Connection.* The invariant of `ConnectionProof` looks at the bytes not yet returned to
`receive` as one sequence, `Stream`: the last byte returned, then `bufer`, `rio_buf`,
the socket, and what `rio_writen` still holds. In it each byte follows the one before
as in what was sent (`Chain`). Writing and reading only move bytes along it
(`WriteStep`, `RefillStep`), a send makes it longer at the end (`StreamMore`), a line that is
returned shortens it at the beginning (`StreamSuffix`), a break at the end
(`StreamPrefix`). `bufer` is part of one message without its newline (`UsrbufOK`). A
line begins with its message because the byte returned before it was a newline, or
belonged to a message too long (`LineStarts`), and a full buffer that begins with a
short message ends with its newline (`LineOver`).

For `AllBytesArrive` the sequence reaches back to the first byte: `Whole` says that all
messages given to `send`, one after the other, are what `receive` has returned, then what is
unread in `bufer`, `rio_buf` and the socket, then a rest, and that while the connection is
open the rest is what `rio_writen` still holds. The concatenation of any number of lines is
a recursive function of the library; that another line adds its bytes at the end is
proved by induction on their number (`Flat`).

*Cache.* A set is in order (`Ranks`) if its counters are below the number of its
blocks, no two alike, none left out. A hit moves one block to rank 0 and those before it
one up (`Renewed`); a block that comes moves all up, after the one of the last rank
has gone if the set was full (`Brought`). That no rank is left out is what makes
`OneEvicted` true: the loop that looks for the counter `blockNum - 1` always finds it.

`TypeCorrect` adds that the index of an address picks a set that exists and that its tag has
no more bits than an address without offset (`PartsOfAddress`). For this `highest_bitSet` must
be the logarithm of a power of two, and `two_to` must turn sums into products: both are
recursive functions, for which the proof first shows that there is a function that
satisfies the definition (`TwoTo`, `HighestBit`, `BitsOfPower`). The account of the cycles
(`CyclesAreAccounted`) is inductive with the number of blocks written back so far as its
witness: a block that goes takes one from the dirty blocks and gives one to those written
(`DirtyCount`), and only a store that is not written through adds a dirty block.

`CacheImplements` maps a set to the list of its tags by counter. There is exactly one such
list (`OneRanked`). A hit under lru takes the block out of it and puts it first
(`RankedRenewed`), a block that comes is put before the first of those that were there, all of
them or all but the last (`RankedInserted`, `VictimsAre`); a dirty bit changes nothing
(`RankedWritten`). The proof assumes of the sizes that there is at least one set and
one block and that the cache is smaller than 2^32 bytes: in a larger one the
program shifts by 32 bits or more, which has no meaning in C++.

*256-bit integers.* Here the invariant says little: the result of a call is that of its
operator, and the loop of `uint256_mul` has the product of the bits it has seen. The
work is in the lemmas. The sum of two limbs and a carry is the limb of the result, plus
`Base` times what is carried on and what is lost; it is lost exactly when both limbs are
all ones and a carry comes in (`LimbIsAdded`). Put together (`AddExact`), the sum of two
numbers is the result plus `Base`^2 times what limb 1 lost, `Base`^3 times what limb 2
lost, and a multiple of the modulus: these two are too small to make up a multiple of it, so
that one lost carry makes the result wrong (`Remainder`). Nothing is lost in the two's
complement, so that `RightUpToLostCarries` holds for the difference, too. A limb that is
shifted is what stays in it and what goes into the next one, and both have room there
(`LimbShifts`); shifts by whole limbs drop multiples of the modulus (`ShiftIsRight`). A product
below `Base`^2 loses no carry in any of its sums (`SmallAdd`), and `uint256_bit_is_set` reads the
digit that the next power of two adds (`BitIs`, `ProductStep`). `W` is any
multiple of `D` that is not zero; 64 and 16 are not special.

Strings (`HexRight`) need what `strtoul`, a recursive function, does with strings in a row and
with the end of one (`StrtoulConcat`, `StrtoulCut`): the value of the front counts once for
each power of a digit behind it. So the limbs that `uint256_create_from_hex` cuts from the end
have each their digits, the partial limb too, and together the value of the string modulo that
of the whole (`CreateFromHexIs`), for any bound `MaxDigits` of their length. What
`uint256_format_as_hex` prints is the highest limb that is not zero without leading zeros
(`PlainIs`) and each lower one with them (`PaddedIs`, `AppendLimb`), which reads as the number,
and is cut at no place that would lose a digit (`FormatIs`, `RoundTrip`).

*Hex dump.* The invariant follows a line from its offset to its newline. A store changes the cells it
covers and no other (`StoreIs`), and what is written from an address is what lies there up to
the first NUL (`StringAt`); so the quad words that the assembly program stores one cell apart leave
two digits and a NUL (`AsmPair`), as the three bytes of the C program do (`CPair`), and neither
touches `data` (`Kept`). While the digits are printed the line is the offset and those of the first `i`
bytes (`Begun`, `LineGoesOn`), then filled up as if there were some number `g` of bytes more (`Padded`).
It has its text in the right column exactly if these are the bytes missing from sixteen
(`FilledIs`, `LineIs`): always in the assembly program, and in the C program exactly under the
conditions of `LinesRight` (`FillIs`), which follow from the remainders of the count with the
sign of the int. The eight digits of the offset are those of its four bytes (`OffsetIs`).
`IntMax` + 1 need only be a multiple of sixteen.

*Induction.* The library's induction theorems have an operator as a parameter, which no
installed prover can instantiate. `NatLessThanWellFounded` and `WFMin` have none: from them
follows that every set of numbers has a least element (`Least`), and from that induction
for the set of numbers with a property (`Induction`). It is stated where it is needed.

Every invariant and every action property that a passing run checks, and each of the three
refinements, is stated by a theorem. Only model-checked is liveness,
which TLAPS does not handle: `CallsReturn` and `EveryMessageLeaves` of the mailbox,
`RequestsAnswered`, `QueuedIsHeard` and `DepartureNoticed` of the server, `SentIsReceived` of the
connection, `AllEnd` of the parallel sort, `SaidIsPrinted`, `WaitsEnd` and `OnlyListenersStay` of the
clients.

## What is not modelled

- `client_util.cpp` (three functions on strings that no program calls) and the
  functions of `csapp.c` that no program calls; `another.cpp`, an older copy of `cache.cpp` that is not built.
- A second room and partial broadcasts in `Clients`: `ChatServer` has them. Names with a newline in them and texts that end
  in white space, which the server trims, are left out there; a tag and its colon count as one byte.
- Allocation failures in the C++ programs, and `read` failing in a hex dump.
- `gen_rand_data.c`, which writes pseudo-random bytes; the tests and their framework.
- Sizes of zero for `csim`, which its check of powers of two lets through and the
  simulator then has no defined meaning for, and caches of 2^32 bytes or more; the overflow
  of its cycle count.
- Shifts of 256 bits or more, which no caller makes.

## What could be added

1. The steps of the liveness arguments that are safety (what a step may not undo, which step
   must be possible) as theorems; the temporal part would stay with TLC.
2. Both directions of a connection at once, with `Clients` refined to it.
3. The checks of `csim`'s arguments, with sizes of zero as a finding of their own.
