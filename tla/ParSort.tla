------------------------------- MODULE ParSort -------------------------------
(***************************************************************************)
(* csf_assign04/parsort.c: merge sort of a file mapped into memory, shared *)
(* by a tree of processes.  The process that sorts cells begin to end - 1  *)
(* is <<begin, end>>; unless the part is small, it forks a child for each  *)
(* half, waits for both, and merges.  Any process may fail to fork, or be  *)
(* killed, and leaves its children behind when it does.                    *)
(*                                                                         *)
(* qsort and merge are single steps, although another process may run at   *)
(* the same time: DisjointParts says that it is elsewhere in the mapping.  *)
(* No exit code of a failure is a multiple of 256, so that codes are left  *)
(* out: a process ends "ok", "failed" or "killed".                         *)
(***************************************************************************)
EXTENDS Naturals, Sequences, FiniteSets

CONSTANTS Length,       \* the number of cells
          Values,       \* what is in them
          Inputs,       \* the arrays to be sorted
          Threshold,    \* parts of this size are sorted sequentially
          IntMax,       \* the largest int, 2^31 - 1 in the program
          Failures      \* fork, waitpid, munmap may fail and processes be killed

ASSUME ParSortAssumption == /\ Length \in Nat \ {0}
                            /\ Values \subseteq Nat
                            /\ Inputs \subseteq [0 .. Length - 1 -> Values]
                            /\ Threshold \in Nat \ {0}
                            /\ IntMax \in Nat
                            /\ Failures \in BOOLEAN

VARIABLES
  input,     \* history: the file as it was
  mapped,    \* the mapping
  pc,        \* where each process is, or how it ended
  temp,      \* temp[p]: the array temp of process p
  copied,    \* copied[p]: how many cells of it are back in the mapping
  faulty     \* history: a call has failed, or a process was killed

vars == <<input, mapped, pc, temp, copied, faulty>>

Process == {p \in (0 .. Length) \X (0 .. Length) : p[1] < p[2]}
Root == <<0, Length>>

begin(p) == p[1]
end(p) == p[2]
prob_size(p) == end(p) - begin(p)
mid(p) == (end(p) + begin(p)) \div 2
Cells(p) == begin(p) .. end(p) - 1

leftkid(p) == <<begin(p), mid(p)>>
rightkid(p) == <<begin(p) + prob_size(p) \div 2, end(p)>>

Ended == {"ok", "failed", "killed"}
Running(p) == pc[p] \notin Ended \cup {"unborn"}

Init == /\ input \in Inputs
        /\ mapped = input
        /\ pc = [p \in Process |-> IF p = Root THEN "call" ELSE "unborn"]
        /\ temp = [p \in Process |-> << >>]
        /\ copied = [p \in Process |-> 0]
        /\ faulty = FALSE

Goto(p, from, to) == /\ pc[p] = from
                     /\ pc' = [pc EXCEPT ![p] = to]

\* A call of the system fails, and the process exits with an error.
Fails(p, from) == /\ Failures
                  /\ Goto(p, from, "failed")
                  /\ faulty' = TRUE
                  /\ UNCHANGED <<input, mapped, temp, copied>>

\* A child exits when merge_sort returns; the first process unmaps the file.
Returned(p) == IF p = Root THEN "unmap" ELSE "ok"

(***************************************************************************)
(* The sequential sort.                                                    *)
(***************************************************************************)
Sorted(a, p) == \A i \in Cells(p) : i + 1 \in Cells(p) => a[i] <= a[i + 1]
Copies(a, p, v) == Cardinality({i \in Cells(p) : a[i] = v})
\* is_sorted.c reads a file once and stops at the first value that is less than
\* the one before it.
is_sorted(a) ==
  LET from[i \in 1 .. Length] == i = Length \/ (a[i] >= a[i - 1] /\ from[i + 1])
  IN from[1]

Permuted(a, b, p) == \A v \in Values : Copies(a, p, v) = Copies(b, p, v)

qsort(p) == \E part \in [Cells(p) -> Values] :
              /\ Sorted(part, p) /\ Permuted(part, mapped, p)
              /\ mapped' = [i \in DOMAIN mapped |-> IF i \in Cells(p) THEN part[i] ELSE mapped[i]]

SortSequentially(p) == /\ prob_size(p) <= Threshold
                       /\ Goto(p, "call", Returned(p))
                       /\ qsort(p)
                       /\ UNCHANGED <<input, temp, copied, faulty>>

(***************************************************************************)
(* The two children.                                                       *)
(***************************************************************************)
Fork(p, from, kid, next) ==
  /\ pc[p] = from
  /\ pc' = [pc EXCEPT ![p] = next, ![kid] = "call"]
  /\ UNCHANGED <<input, mapped, temp, copied, faulty>>

ForkLeft(p) == /\ prob_size(p) > Threshold
               /\ \/ Fork(p, "call", leftkid(p), "fork_right")
                  \/ Fails(p, "call")

ForkRight(p) == \/ Fork(p, "fork_right", rightkid(p), "wait_left")
                \/ Fails(p, "fork_right")

NeverChecked(kid) == TRUE
\* WIFEXITED and WEXITSTATUS.
ExitedWithZero(kid) == pc[kid] = "ok"

WaitForExit(p, from, kid, next) ==
  /\ pc[p] = from /\ pc[kid] \in Ended \ {"killed"}
  /\ Goto(p, from, IF ExitedWithZero(kid) THEN next ELSE "failed")
  /\ UNCHANGED <<input, mapped, temp, copied, faulty>>

\* waitpid returns when the child has ended, whichever way.
Wait(p, from, kid, next) ==
  /\ pc[p] = from /\ pc[kid] \in Ended
  /\ Goto(p, from, IF ExitedWithZero(kid) THEN next ELSE "failed")
  /\ UNCHANGED <<input, mapped, temp, copied, faulty>>

WaitLeft(p) == Wait(p, "wait_left", leftkid(p), "wait_right")

WaitRightForgotten(p) == Wait(p, "wait_right", leftkid(p), "merge")

WaitRight(p) == Wait(p, "wait_right", rightkid(p), "merge")

\* waitpid itself fails.
WaitFails(p) == Fails(p, "wait_left") \/ Fails(p, "wait_right")

(***************************************************************************)
(* merge takes the smaller of the first cells left in both halves, and the *)
(* result is copied back cell by cell.                                     *)
(***************************************************************************)
TakeWithoutRest(a, p, s) ==
  IF s.left = mid(p) \/ s.right = end(p) THEN s
  ELSE IF a[s.left] <= a[s.right]
  THEN [left |-> s.left + 1, right |-> s.right, dst |-> Append(s.dst, a[s.left])]
  ELSE [left |-> s.left, right |-> s.right + 1, dst |-> Append(s.dst, a[s.right])]

\* One turn of the loop.
Take(a, p, s) ==
  IF s.left < mid(p) /\ (s.right = end(p) \/ a[s.left] <= a[s.right])
  THEN [left |-> s.left + 1, right |-> s.right, dst |-> Append(s.dst, a[s.left])]
  ELSE [left |-> s.left, right |-> s.right + 1, dst |-> Append(s.dst, a[s.right])]

Merged(a, p) ==
  LET after[n \in 0 .. prob_size(p)] ==
        IF n = 0 THEN [left |-> begin(p), right |-> mid(p), dst |-> << >>]
        ELSE Take(a, p, after[n - 1])
  IN after[prob_size(p)].dst

merge(p) == /\ Goto(p, "merge", "copy")
            /\ temp' = [temp EXCEPT ![p] = Merged(mapped, p)]
            /\ UNCHANGED <<input, mapped, copied, faulty>>

\* i is an int, and prob_size a size_t, as which a negative int is larger than
\* any size.  After IntMax the increment, compiled without optimization, makes
\* i negative: the loop ends then, whatever is left in temp.
LoopEnds(p) == copied[p] = prob_size(p) \/ copied[p] = IntMax + 1

CopyBack(p) ==
  /\ pc[p] = "copy"
  /\ \/ /\ ~ LoopEnds(p)
        /\ mapped' = [mapped EXCEPT ![begin(p) + copied[p]] = temp[p][copied[p] + 1]]
        /\ copied' = [copied EXCEPT ![p] = @ + 1]
        /\ UNCHANGED <<pc, temp>>
     \/ /\ LoopEnds(p)
        /\ Goto(p, "copy", Returned(p))
        /\ temp' = [temp EXCEPT ![p] = << >>]
        /\ copied' = [copied EXCEPT ![p] = 0]
        /\ UNCHANGED mapped
  /\ UNCHANGED <<input, faulty>>

\* main, after merge_sort: munmap and close.
Unmap == \/ /\ Goto(Root, "unmap", "ok")
            /\ UNCHANGED <<input, mapped, temp, copied, faulty>>
         \/ Fails(Root, "unmap")

\* A signal, or a null pointer from malloc.  What it has in its part of the
\* mapping then is of no use, and nothing is said about it.
Killed(p) == /\ Failures
             /\ Running(p)
             /\ pc' = [pc EXCEPT ![p] = "killed"]
             /\ faulty' = TRUE
             /\ UNCHANGED <<input, mapped, temp, copied>>

merge_sort(p) == \/ SortSequentially(p)
                 \/ ForkLeft(p) \/ ForkRight(p)
                 \/ WaitLeft(p) \/ WaitRight(p)
                 \/ merge(p) \/ CopyBack(p)

Finished == /\ \A p \in Process : ~ Running(p)
            /\ UNCHANGED vars

Next == \/ \E p \in Process : merge_sort(p) \/ WaitFails(p) \/ Killed(p)
        \/ Unmap
        \/ Finished

\* The system runs every process that can run.  It need not kill anyone, and a
\* waitpid that could fail may go on waiting.
Spec == /\ Init /\ [][Next]_vars
        /\ \A p \in Process : WF_vars(merge_sort(p))
        /\ WF_vars(Unmap)
-----------------------------------------------------------------------------
(***************************************************************************)
(* Properties                                                              *)
(***************************************************************************)
\* Every variable keeps its type; merge fills temp exactly, and the copy stays
\* within it.
TypeOK ==
  /\ input \in Inputs
  /\ mapped \in [0 .. Length - 1 -> Values]
  /\ pc \in [Process -> {"unborn", "call", "fork_right", "wait_left", "wait_right",
                         "merge", "copy", "unmap"} \cup Ended]
  /\ \A p \in Process : /\ temp[p] \in Seq(Values)
                        /\ copied[p] \in 0 .. prob_size(p) /\ copied[p] <= IntMax + 1
                        /\ pc[p] = "copy" => Len(temp[p]) = prob_size(p)
  /\ faulty \in BOOLEAN

Within(q, p) == Cells(q) \subseteq Cells(p)
Accesses(p) == pc[p] \in {"merge", "copy"} \/ (pc[p] = "call" /\ prob_size(p) <= Threshold)

\* Two processes that are reading or writing the mapping at the same time
\* are in different parts of it, those included whose parents have failed or
\* been killed and wait for them no longer.
DisjointParts ==
  \A p, q \in Process : p # q /\ Accesses(p) /\ Accesses(q) => Cells(p) \cap Cells(q) = {}

\* A process that exits with 0 leaves nothing running in its part of the
\* mapping, and no failure below it is kept quiet.
ZeroMeansAllDone ==
  \A p \in Process : pc[p] = "ok" =>
    \A q \in Process : Within(q, p) => pc[q] \in {"unborn", "ok"}

SortedAsBefore == Sorted(mapped, Root) /\ Permuted(mapped, input, Root)

\* An int can count the cells of a part, or they are not merged at all.
CountFits(p) == prob_size(p) <= Threshold \/ prob_size(p) <= IntMax + 1

\* When the program exits with 0 ("if sort was successful", parsort.c), and the file
\* has no more cells than an int has numbers from 0 on, the file is sorted and has in
\* it what it had before.  (Of a longer one the copy back may leave out the end.)  And
\* is_sorted, which looks at neighbours only, says of every file what is the case.
SortedWhenZero ==
  /\ pc[Root] = "ok" /\ CountFits(Root) => SortedAsBefore
  /\ is_sorted(mapped) <=> Sorted(mapped, Root)

\* Every process ends, however many of the others fail or are killed, and when
\* nothing fails the program exits with 0.
AllEnd == /\ <>[](\A p \in Process : ~ Running(p))
          /\ [](~ faulty) => <>(pc[Root] = "ok")
=============================================================================
