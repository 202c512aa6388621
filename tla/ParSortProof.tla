----------------------------- MODULE ParSortProof -----------------------------
(***************************************************************************)
(* Theorems about ParSort, for every length, threshold and content of the  *)
(* file and every failure: exit code 0 hides no failure (ZeroMeansAllDone) *)
(* and no two processes meet in the mapping (DisjointParts).  Both follow  *)
(* from the shape of the tree of processes, which Inv describes.  With it, *)
(* Data follows the cells through the tree: exit code 0 means that the     *)
(* file is sorted and has lost nothing (SortedWhenZero).                   *)
(***************************************************************************)
EXTENDS ParSort, FiniteSetTheorems, TLAPS

Points == {"unborn", "call", "fork_right", "wait_left", "wait_right",
           "merge", "copy", "unmap", "ok", "failed", "killed"}

\* The parts of two processes as intervals.
Inside(q, p) == p[1] <= q[1] /\ q[2] <= p[2]
Apart(q, p) == q[2] <= p[1] \/ p[2] <= q[1]
Below(q, p) == q # p /\ Inside(q, p)

Born(p) == pc[p] # "unborn"

PcOK == pc \in [Process -> Points]

\* The parts of two processes are nested or apart.
Laminar == \A p, q \in Process : Born(p) /\ Born(q) =>
             Inside(p, q) \/ Inside(q, p) \/ Apart(p, q)

\* A process below another is, or is below, one of its two children.
Children == \A p, q \in Process : Born(p) /\ Born(q) /\ Below(q, p) =>
              Inside(q, leftkid(p)) \/ Inside(q, rightkid(p))

\* A child is not there before it is forked.
NotYet == \A p, q \in Process : Born(q) /\ Below(q, p) =>
            /\ pc[p] # "call"
            /\ pc[p] = "fork_right" => ~ Inside(q, rightkid(p))

\* What a process has to know of those below it once it is at x.
Above(x, p, q) == /\ x \in {"merge", "copy", "unmap", "ok"} => pc[q] = "ok"
                  /\ x = "wait_right" /\ Inside(q, leftkid(p)) => pc[q] = "ok"

\* A process that has seen its children exit with 0 has nobody below it that
\* has not.
AllDone == \A p, q \in Process : Born(q) /\ Below(q, p) => Above(pc[p], p, q)

\* Only a process whose part is large has children.
Large == \A p \in Process :
           pc[p] \in {"fork_right", "wait_left", "wait_right"} => prob_size(p) > Threshold

Inv == PcOK /\ Large /\ Laminar /\ Children /\ NotYet /\ AllDone
-----------------------------------------------------------------------------
(***************************************************************************)
(* Intervals.                                                              *)
(***************************************************************************)
LEMMA Ends == ASSUME NEW p \in Process
              PROVE  /\ p = <<p[1], p[2]>>
                     /\ p[1] \in 0 .. Length /\ p[2] \in 0 .. Length
                     /\ p[1] < p[2]
BY ParSortAssumption DEF Process

\* The halves of a part that is not sorted sequentially are parts, share the
\* middle, and are smaller.
LEMMA Halves == ASSUME NEW p \in Process, prob_size(p) > Threshold
                PROVE  /\ leftkid(p) \in Process /\ rightkid(p) \in Process
                       /\ leftkid(p) # p /\ rightkid(p) # p
                       /\ leftkid(p)[1] = p[1] /\ leftkid(p)[2] = rightkid(p)[1]
                       /\ rightkid(p)[2] = p[2]
                       /\ p[1] < leftkid(p)[2] /\ leftkid(p)[2] < p[2]
<1> DEFINE b == p[1]
           e == p[2]
           m == (e + b) \div 2
<1>1. b \in Nat /\ e \in Nat /\ b < e /\ b \in 0 .. Length /\ e \in 0 .. Length
  BY Ends, ParSortAssumption
<1>2. e - b > Threshold /\ Threshold \in Nat \ {0}
  BY ParSortAssumption DEF prob_size, begin, end
<1>3. m \in Nat /\ b < m /\ m < e
  <2> HIDE DEF b, e
  <2>1. e - b > 1
    BY <1>1, <1>2
  <2> QED
    BY <1>1, <2>1
<1>4. b + (e - b) \div 2 = m
  <2> HIDE DEF b, e
  <2> QED
    BY <1>1
<1>5. leftkid(p) = <<b, m>> /\ rightkid(p) = <<m, e>>
  BY <1>4 DEF leftkid, rightkid, mid, begin, end, prob_size
<1>6. m \in 0 .. Length
  <2> HIDE DEF b, e, m
  <2> QED
    BY <1>1, <1>3, ParSortAssumption
<1>7. p = <<b, e>>
  BY Ends
<1> HIDE DEF b, e, m
<1>8. <<b, m>> \in Process /\ <<m, e>> \in Process
  BY <1>1, <1>3, <1>6 DEF Process
<1>9. <<b, m>> # <<b, e>> /\ <<m, e>> # <<b, e>>
  BY <1>1, <1>3
<1> QED
  BY <1>3, <1>5, <1>7, <1>8, <1>9

LEMMA Middle == ASSUME NEW p \in Process
                PROVE  /\ leftkid(p)[1] \in Nat /\ leftkid(p)[2] \in Nat
                       /\ rightkid(p)[1] \in Nat /\ rightkid(p)[2] \in Nat
                       /\ leftkid(p)[2] = rightkid(p)[1]
<1> DEFINE b == p[1]
           e == p[2]
<1>1. b \in Nat /\ e \in Nat /\ b < e
  BY Ends, ParSortAssumption
<1>2. leftkid(p) = <<b, (e + b) \div 2>> /\ rightkid(p) = <<b + (e - b) \div 2, e>>
  BY DEF leftkid, rightkid, mid, begin, end, prob_size
<1> HIDE DEF b, e
<1>3. b + (e - b) \div 2 = (e + b) \div 2 /\ (e + b) \div 2 \in Nat
  BY <1>1
<1> QED
  BY <1>1, <1>2, <1>3

LEMMA InsideIsWithin == ASSUME NEW p \in Process, NEW q \in Process, Within(q, p)
                        PROVE  Inside(q, p)
<1>1. /\ p[1] \in Nat /\ p[2] \in Nat /\ p[1] < p[2]
      /\ q[1] \in Nat /\ q[2] \in Nat /\ q[1] < q[2]
  BY Ends, ParSortAssumption
<1>2. q[1] \in q[1] .. q[2] - 1 /\ q[2] - 1 \in q[1] .. q[2] - 1
  BY <1>1
<1>3. q[1] \in p[1] .. p[2] - 1 /\ q[2] - 1 \in p[1] .. p[2] - 1
  BY <1>2 DEF Within, Cells, begin, end
<1> QED
  BY <1>1, <1>3 DEF Inside

LEMMA ApartIsDisjoint == ASSUME NEW p \in Process, NEW q \in Process, Apart(p, q)
                         PROVE  Cells(p) \cap Cells(q) = {}
<1>1. /\ p[1] \in Nat /\ p[2] \in Nat /\ p[1] < p[2]
      /\ q[1] \in Nat /\ q[2] \in Nat /\ q[1] < q[2]
  BY Ends, ParSortAssumption
<1> QED
  BY <1>1 DEF Apart, Cells, begin, end
-----------------------------------------------------------------------------
(***************************************************************************)
(* The steps.                                                              *)
(***************************************************************************)
LEMMA InitInv == Init => Inv
<1> SUFFICES ASSUME Init
             PROVE  Inv
  OBVIOUS
<1>1. pc = [p \in Process |-> IF p = Root THEN "call" ELSE "unborn"]
  BY DEF Init
<1>2. \A p \in Process : Born(p) => p = Root
  BY <1>1 DEF Born
<1>3. PcOK
  BY <1>1 DEF PcOK, Points
<1>4. \A p \in Process : ~ Below(Root, p)
  <2> SUFFICES ASSUME NEW p \in Process, Below(Root, p)
               PROVE  FALSE
    OBVIOUS
  <2>1. p[1] <= 0 /\ Length <= p[2]
    BY DEF Below, Inside, Root
  <2>2. p = <<0, Length>>
    BY <2>1, Ends, ParSortAssumption
  <2> QED
    BY <2>2 DEF Below, Root
<1>5. Laminar
  <2>1. Inside(Root, Root)
    BY ParSortAssumption DEF Inside, Root
  <2> QED
    BY <1>2, <2>1 DEF Laminar
<1>6. Children
  BY <1>2, <1>4 DEF Children
<1>7. NotYet
  BY <1>2, <1>4 DEF NotYet
<1>8. AllDone
  BY <1>2, <1>4 DEF AllDone
<1>9. Large
  BY <1>1 DEF Large
<1> QED
  BY <1>3, <1>5, <1>6, <1>7, <1>8, <1>9 DEF Inv

\* A process that runs goes on or ends, without a fork.
LEMMA Moves ==
  ASSUME Inv, NEW p \in Process, Running(p), NEW x,
         x \in Points \ {"unborn", "call", "fork_right"},
         x \in {"wait_left", "wait_right"} => prob_size(p) > Threshold,
         pc' = [pc EXCEPT ![p] = x],
         \A q \in Process : Born(q) /\ Below(q, p) => Above(x, p, q)
  PROVE  Inv'
<1>1. PcOK'
  BY DEF Inv, PcOK
<1>2. \A q \in Process : pc'[q] = IF q = p THEN x ELSE pc[q]
  BY DEF Inv, PcOK
<1>3. pc[p] \notin {"unborn", "ok", "failed", "killed"}
  BY DEF Running, Ended
<1>4. \A q \in Process : Born(q)' <=> Born(q)
  BY <1>2, <1>3 DEF Born
<1>5. Laminar'
  BY <1>4 DEF Inv, Laminar
<1>6. Children'
  BY <1>4 DEF Inv, Children
<1>7. NotYet'
  BY <1>2, <1>4 DEF Inv, NotYet
<1>8. AllDone'
  <2> SUFFICES ASSUME NEW r \in Process, NEW q \in Process, Born(q)', Below(q, r)
               PROVE  Above(pc[r], r, q)'
    BY DEF AllDone
  <2>1. Born(q)
    BY <1>4
  <2>2. CASE r = p
    <3>1. q # p
      BY <2>2 DEF Below
    <3>2. pc'[r] = x /\ pc'[q] = pc[q]
      BY <1>2, <2>2, <3>1
    <3>3. Above(x, p, q)
      BY <2>1, <2>2
    <3> QED
      BY <2>2, <3>2, <3>3 DEF Above
  <2>3. CASE r # p
    <3>1. pc'[r] = pc[r]
      BY <1>2, <2>3
    <3>2. Above(pc[r], r, q)
      BY <2>1 DEF Inv, AllDone
    <3>3. pc[q] = "ok" => pc'[q] = "ok"
      BY <1>2, <1>3
    <3> QED
      BY <3>1, <3>2, <3>3 DEF Above
  <2> QED
    BY <2>2, <2>3
<1>9. Large'
  BY <1>2 DEF Inv, Large, prob_size, begin, end
<1> QED
  BY <1>1, <1>5, <1>6, <1>7, <1>8, <1>9 DEF Inv

\* A process forks one of its children.  Nobody is there yet: whoever has the
\* child's part inside his own has the whole of its parent's.
LEMMA Forks ==
  ASSUME Inv, NEW p \in Process, prob_size(p) > Threshold, NEW kid, NEW next,
         \/ pc[p] = "call" /\ next = "fork_right" /\ kid = leftkid(p)
         \/ pc[p] = "fork_right" /\ next = "wait_left" /\ kid = rightkid(p),
         pc' = [pc EXCEPT ![p] = next, ![kid] = "call"]
  PROVE  Inv'
<1>1. /\ kid \in Process /\ kid # p
      /\ Inside(kid, p) /\ ~ Inside(p, kid)
  <2>1. p[1] \in Nat /\ p[2] \in Nat
    BY Ends, ParSortAssumption
  <2> QED
    BY <2>1, Halves, Middle DEF Inside
<1>2. Born(p) /\ pc[p] \in {"call", "fork_right"}
  BY DEF Born
<1>3. \A q \in Process : Born(q) /\ Below(q, p) => ~ Inside(q, kid)
  BY DEF Inv, NotYet
<1>4. ~ Born(kid)
  <2>1. kid[1] \in Nat /\ kid[2] \in Nat
    BY <1>1, Ends, ParSortAssumption
  <2>2. Inside(kid, kid)
    BY <2>1 DEF Inside
  <2> QED
    BY <1>1, <1>3, <2>2 DEF Below
<1>5. \A q \in Process : pc'[q] = IF q = kid THEN "call" ELSE IF q = p THEN next ELSE pc[q]
  BY <1>1 DEF Inv, PcOK
<1>6. \A q \in Process : Born(q)' <=> Born(q) \/ q = kid
  <2>1. next # "unborn"
    OBVIOUS
  <2> SUFFICES ASSUME NEW q \in Process
               PROVE  pc'[q] # "unborn" <=> pc[q] # "unborn" \/ q = kid
    BY DEF Born
  <2>2. pc[p] # "unborn"
    BY <1>2 DEF Born
  <2>3. pc'[q] = IF q = kid THEN "call" ELSE IF q = p THEN next ELSE pc[q]
    BY <1>5
  <2> QED
    BY <2>1, <2>2, <2>3
<1>7. \A r \in Process : Born(r) => Inside(p, r) \/ Apart(kid, r)
  <2> SUFFICES ASSUME NEW r \in Process, Born(r)
               PROVE  Inside(p, r) \/ Apart(kid, r)
    OBVIOUS
  <2>0. /\ p[1] \in Nat /\ p[2] \in Nat
        /\ r[1] \in Nat /\ r[2] \in Nat
        /\ kid[1] \in Nat /\ kid[2] \in Nat
    BY <1>1, Ends, ParSortAssumption
  <2>1. Inside(p, r) \/ Inside(r, p) \/ Apart(p, r)
    BY <1>2 DEF Inv, Laminar
  <2>2. CASE Apart(p, r)
    BY <1>1, <2>0, <2>2 DEF Apart, Inside
  <2>3. CASE Inside(r, p) /\ r # p
    <3>1. Below(r, p)
      BY <2>3 DEF Below
    <3>2. pc[p] # "call" /\ kid = rightkid(p)
      BY <3>1 DEF Inv, NotYet
    <3>3. ~ Inside(r, rightkid(p))
      BY <1>3, <3>1, <3>2
    <3>4. Inside(r, leftkid(p))
      BY <1>2, <3>1, <3>3 DEF Inv, Children
    <3> QED
      BY <2>0, <3>2, <3>4, Middle DEF Apart, Inside
  <2>4. CASE r = p
    BY <2>0, <2>4 DEF Inside
  <2> QED
    BY <2>1, <2>2, <2>3, <2>4
<1>8. \A r \in Process : Born(r) => ~ Inside(r, kid)
  <2> SUFFICES ASSUME NEW r \in Process, Born(r), Inside(r, kid)
               PROVE  FALSE
    OBVIOUS
  <2>1. /\ p[1] \in Nat /\ p[2] \in Nat
        /\ r[1] \in Nat /\ r[2] \in Nat /\ r[1] < r[2]
        /\ kid[1] \in Nat /\ kid[2] \in Nat
    BY <1>1, Ends, ParSortAssumption
  <2> QED
    BY <1>1, <1>7, <2>1 DEF Apart, Inside
<1>9. \A r \in Process : Born(r) /\ Below(kid, r) => Inside(p, r)
  <2> SUFFICES ASSUME NEW r \in Process, Born(r), Inside(kid, r), Apart(kid, r)
               PROVE  FALSE
    BY <1>7 DEF Below
  <2>1. /\ r[1] \in Nat /\ r[2] \in Nat
        /\ kid[1] \in Nat /\ kid[2] \in Nat /\ kid[1] < kid[2]
    BY <1>1, Ends, ParSortAssumption
  <2> QED
    BY <2>1 DEF Apart, Inside
<1>10. \A r \in Process : Born(r) /\ Below(kid, r) /\ r # p =>
         /\ Below(p, r)
         /\ \/ Inside(p, leftkid(r)) /\ Inside(kid, leftkid(r)) /\ ~ Inside(kid, rightkid(r))
            \/ Inside(p, rightkid(r)) /\ Inside(kid, rightkid(r)) /\ ~ Inside(kid, leftkid(r))
  <2> SUFFICES ASSUME NEW r \in Process, Born(r), Below(kid, r), r # p
               PROVE  /\ Below(p, r)
                      /\ \/ /\ Inside(p, leftkid(r)) /\ Inside(kid, leftkid(r))
                            /\ ~ Inside(kid, rightkid(r))
                         \/ /\ Inside(p, rightkid(r)) /\ Inside(kid, rightkid(r))
                            /\ ~ Inside(kid, leftkid(r))
    OBVIOUS
  <2>1. Below(p, r)
    BY <1>9 DEF Below
  <2>2. Inside(p, leftkid(r)) \/ Inside(p, rightkid(r))
    BY <1>2, <2>1 DEF Inv, Children
  <2>3. /\ p[1] \in Nat /\ p[2] \in Nat
        /\ kid[1] \in Nat /\ kid[2] \in Nat /\ kid[1] < kid[2]
    BY <1>1, Ends, ParSortAssumption
  <2>4. /\ leftkid(r)[1] \in Nat /\ leftkid(r)[2] \in Nat
        /\ rightkid(r)[1] \in Nat /\ rightkid(r)[2] \in Nat
        /\ leftkid(r)[2] = rightkid(r)[1]
    BY Middle
  <2> QED
    BY <1>1, <2>1, <2>2, <2>3, <2>4 DEF Inside
<1>11. PcOK'
  BY DEF Inv, PcOK, Points
<1>12. Large'
  BY <1>5 DEF Inv, Large, prob_size, begin, end
<1>13. Laminar'
  <2>1. \A r \in Process : Born(r) => Inside(kid, r) \/ (Apart(kid, r) /\ Apart(r, kid))
    <3> SUFFICES ASSUME NEW r \in Process, Born(r)
                 PROVE  Inside(kid, r) \/ (Apart(kid, r) /\ Apart(r, kid))
      OBVIOUS
    <3>1. /\ p[1] \in Nat /\ p[2] \in Nat
          /\ r[1] \in Nat /\ r[2] \in Nat
          /\ kid[1] \in Nat /\ kid[2] \in Nat
      BY <1>1, Ends, ParSortAssumption
    <3> QED
      BY <1>1, <1>7, <3>1 DEF Apart, Inside
  <2>2. Inside(kid, kid)
    <3>1. kid[1] \in Nat /\ kid[2] \in Nat
      BY <1>1, Ends, ParSortAssumption
    <3> QED
      BY <3>1 DEF Inside
  <2> SUFFICES ASSUME NEW r \in Process, NEW q \in Process, Born(r)', Born(q)'
               PROVE  Inside(r, q) \/ Inside(q, r) \/ Apart(r, q)
    BY DEF Laminar
  <2>3. CASE r # kid /\ q # kid
    BY <1>6, <2>3 DEF Inv, Laminar
  <2>4. CASE r = kid \/ q = kid
    BY <1>6, <2>1, <2>2, <2>4
  <2> QED
    BY <2>3, <2>4
<1>14. Children'
  <2> SUFFICES ASSUME NEW r \in Process, NEW q \in Process, Born(r)', Born(q)', Below(q, r)
               PROVE  Inside(q, leftkid(r)) \/ Inside(q, rightkid(r))
    BY DEF Children
  <2>1. r # kid
    BY <1>6, <1>8 DEF Below
  <2>2. CASE q # kid
    BY <1>6, <2>1, <2>2 DEF Inv, Children
  <2>3. CASE q = kid /\ r = p
    <3>1. kid[1] \in Nat /\ kid[2] \in Nat
      BY <1>1, Ends, ParSortAssumption
    <3> QED
      BY <2>3, <3>1 DEF Inside
  <2>4. CASE q = kid /\ r # p
    BY <1>6, <1>10, <2>1, <2>4
  <2> QED
    BY <2>2, <2>3, <2>4
<1>15. NotYet'
  <2> SUFFICES ASSUME NEW r \in Process, NEW q \in Process, Born(q)', Below(q, r)
               PROVE  /\ pc'[r] # "call"
                      /\ pc'[r] = "fork_right" => ~ Inside(q, rightkid(r))
    BY DEF NotYet
  <2>1. CASE r = kid
    BY <1>6, <1>8, <2>1 DEF Below
  <2>2. CASE r = p /\ q # kid
    <3>1. Born(q) /\ pc'[r] = next
      BY <1>1, <1>5, <1>6, <2>2
    <3>2. pc[p] = "fork_right" /\ next = "wait_left"
      BY <2>2, <3>1 DEF Inv, NotYet
    <3> QED
      BY <3>1, <3>2
  <2>3. CASE r = p /\ q = kid
    <3>1. pc'[r] = next
      BY <1>1, <1>5, <2>3
    <3>2. /\ kid[1] \in Nat /\ kid[2] \in Nat /\ kid[1] < kid[2]
      BY <1>1, Ends, ParSortAssumption
    <3> QED
      BY <2>3, <3>1, <3>2, Middle DEF Inside
  <2>4. CASE r # p /\ r # kid /\ q # kid
    BY <1>5, <1>6, <2>4 DEF Inv, NotYet
  <2>5. CASE r # p /\ r # kid /\ q = kid
    <3>1. pc'[r] = pc[r]
      BY <1>5, <2>5
    <3>2. CASE ~ Born(r)
      BY <3>1, <3>2 DEF Born
    <3>3. CASE Born(r)
      <4>1. Below(p, r) /\ (Inside(p, rightkid(r)) \/ ~ Inside(kid, rightkid(r)))
        BY <1>10, <2>5, <3>3
      <4>2. pc[r] # "call" /\ (pc[r] = "fork_right" => ~ Inside(p, rightkid(r)))
        BY <1>2, <4>1 DEF Inv, NotYet
      <4> QED
        BY <2>5, <3>1, <4>1, <4>2
    <3> QED
      BY <3>2, <3>3
  <2> QED
    BY <2>1, <2>2, <2>3, <2>4, <2>5
<1>16. AllDone'
  <2> SUFFICES ASSUME NEW r \in Process, NEW q \in Process, Born(q)', Below(q, r)
               PROVE  Above(pc[r], r, q)'
    BY DEF AllDone
  <2>1. CASE r = kid \/ r = p
    <3>1. pc'[r] \in {"call", "fork_right", "wait_left"}
      BY <1>1, <1>5, <2>1
    <3> QED
      BY <3>1 DEF Above
  <2>2. CASE r # kid /\ r # p /\ q # kid
    <3>1. pc'[r] = pc[r] /\ Born(q)
      BY <1>5, <1>6, <2>2
    <3>2. Above(pc[r], r, q)
      BY <3>1 DEF Inv, AllDone
    <3>3. pc[q] = "ok" => pc'[q] = "ok"
      BY <1>2, <1>5, <2>2
    <3> QED
      BY <3>1, <3>2, <3>3 DEF Above
  <2>3. CASE r # kid /\ r # p /\ q = kid
    <3>1. pc'[r] = pc[r]
      BY <1>5, <2>3
    <3>2. CASE ~ Born(r)
      BY <3>1, <3>2 DEF Born, Above
    <3>3. CASE Born(r)
      <4>1. Below(p, r) /\ (Inside(p, leftkid(r)) \/ ~ Inside(kid, leftkid(r)))
        BY <1>10, <2>3, <3>3
      <4>2. Above(pc[r], r, p)
        BY <1>2, <4>1 DEF Inv, AllDone
      <4>3. pc[r] \notin {"merge", "copy", "unmap", "ok"}
        BY <1>2, <4>2 DEF Above
      <4>4. pc[r] = "wait_right" => ~ Inside(kid, leftkid(r))
        BY <1>2, <4>1, <4>2 DEF Above
      <4> QED
        BY <2>3, <3>1, <4>3, <4>4 DEF Above
    <3> QED
      BY <3>2, <3>3
  <2> QED
    BY <2>1, <2>2, <2>3
<1> QED
  BY <1>11, <1>12, <1>13, <1>14, <1>15, <1>16 DEF Inv

\* A child that has exited with 0 has nobody below it that has not.
LEMMA Waited ==
  ASSUME Inv, NEW kid \in Process, pc[kid] = "ok"
  PROVE  \A q \in Process : Born(q) /\ Inside(q, kid) => pc[q] = "ok"
<1> SUFFICES ASSUME NEW q \in Process, Born(q), Inside(q, kid), q # kid
             PROVE  pc[q] = "ok"
  OBVIOUS
<1>1. Above(pc[kid], kid, q)
  BY DEF Inv, AllDone, Below
<1> QED
  BY <1>1 DEF Above

LEMMA StepInv == Inv /\ [Next]_vars => Inv'
<1> SUFFICES ASSUME Inv, [Next]_vars
             PROVE  Inv'
  OBVIOUS
<1>0. CASE UNCHANGED pc
  BY <1>0 DEF Inv, PcOK, Large, Laminar, Children, NotYet, AllDone, Above, Born,
              prob_size, begin, end
<1>1. ASSUME NEW p \in Process, SortSequentially(p)
      PROVE  Inv'
  <2>1. pc[p] = "call" /\ pc' = [pc EXCEPT ![p] = Returned(p)]
    BY <1>1 DEF SortSequentially, Goto
  <2>2. Returned(p) \in {"unmap", "ok"}
    BY DEF Returned
  <2>3. \A q \in Process : ~ (Born(q) /\ Below(q, p))
    BY <2>1 DEF Inv, NotYet
  <2> HIDE DEF Returned
  <2> QED
    BY <2>1, <2>2, <2>3, Moves DEF Points, Running, Ended
<1>2. ASSUME NEW p \in Process, Running(p), NEW x \in {"failed", "killed"},
             pc' = [pc EXCEPT ![p] = x]
      PROVE  Inv'
  <2>1. \A q \in Process : Above(x, p, q)
    BY <1>2 DEF Above
  <2> QED
    BY <1>2, <2>1, Moves DEF Points
<1>3. ASSUME NEW p \in Process, ForkLeft(p)
      PROVE  Inv'
  <2>1. prob_size(p) > Threshold /\ pc[p] = "call"
    BY <1>3 DEF ForkLeft, Fork, Fails, Goto
  <2>2. CASE Fork(p, "call", leftkid(p), "fork_right")
    <3>1. pc' = [pc EXCEPT ![p] = "fork_right", ![leftkid(p)] = "call"]
      BY <2>2 DEF Fork
    <3> QED
      BY <2>1, <3>1, Forks
  <2>3. CASE Fails(p, "call")
    BY <1>2, <2>1, <2>3 DEF Fails, Goto, Running, Ended
  <2> QED
    BY <1>3, <2>2, <2>3 DEF ForkLeft
<1>4. ASSUME NEW p \in Process, ForkRight(p)
      PROVE  Inv'
  <2>1. pc[p] = "fork_right"
    BY <1>4 DEF ForkRight, Fork, Fails, Goto
  <2>2. CASE Fork(p, "fork_right", rightkid(p), "wait_left")
    <3>1. pc' = [pc EXCEPT ![p] = "wait_left", ![rightkid(p)] = "call"]
      BY <2>2 DEF Fork
    <3>2. prob_size(p) > Threshold
      BY <2>1 DEF Inv, Large
    <3> QED
      BY <2>1, <3>1, <3>2, Forks
  <2>3. CASE Fails(p, "fork_right")
    BY <1>2, <2>1, <2>3 DEF Fails, Goto, Running, Ended
  <2> QED
    BY <1>4, <2>2, <2>3 DEF ForkRight
<1>5. ASSUME NEW p \in Process, WaitLeft(p)
      PROVE  Inv'
  <2>1. pc[p] = "wait_left" /\ Running(p)
    BY <1>5 DEF WaitLeft, Wait, Goto, Running, Ended
  <2>2. prob_size(p) > Threshold
    BY <2>1 DEF Inv, Large
  <2>3. CASE pc' = [pc EXCEPT ![p] = "failed"]
    BY <1>2, <2>1, <2>3
  <2>4. CASE pc[leftkid(p)] = "ok" /\ pc' = [pc EXCEPT ![p] = "wait_right"]
    <3>1. \A q \in Process : Born(q) /\ Inside(q, leftkid(p)) => pc[q] = "ok"
      BY <2>2, <2>4, Halves, Waited
    <3>2. \A q \in Process : Born(q) /\ Below(q, p) => Above("wait_right", p, q)
      BY <3>1 DEF Above
    <3> QED
      BY <2>1, <2>2, <2>4, <3>2, Moves DEF Points
  <2> QED
    BY <1>5, <2>3, <2>4 DEF WaitLeft, Wait, Goto, ExitedWithZero
<1>6. ASSUME NEW p \in Process, WaitRight(p)
      PROVE  Inv'
  <2>1. pc[p] = "wait_right" /\ Running(p)
    BY <1>6 DEF WaitRight, Wait, Goto, Running, Ended
  <2>2. prob_size(p) > Threshold
    BY <2>1 DEF Inv, Large
  <2>3. CASE pc' = [pc EXCEPT ![p] = "failed"]
    BY <1>2, <2>1, <2>3
  <2>4. CASE pc[rightkid(p)] = "ok" /\ pc' = [pc EXCEPT ![p] = "merge"]
    <3>1. \A q \in Process : Born(q) /\ Inside(q, rightkid(p)) => pc[q] = "ok"
      BY <2>2, <2>4, Halves, Waited
    <3>2. ASSUME NEW q \in Process, Born(q), Below(q, p)
          PROVE  Above("merge", p, q)
      <4>1. Inside(q, leftkid(p)) \/ Inside(q, rightkid(p))
        BY <2>1, <3>2 DEF Inv, Children, Born
      <4>2. Above("wait_right", p, q)
        BY <2>1, <3>2 DEF Inv, AllDone
      <4>3. pc[q] = "ok"
        BY <3>1, <3>2, <4>1, <4>2 DEF Above
      <4> QED
        BY <4>3 DEF Above
    <3> QED
      BY <2>1, <2>4, <3>2, Moves DEF Points
  <2> QED
    BY <1>6, <2>3, <2>4 DEF WaitRight, Wait, Goto, ExitedWithZero
<1>7. ASSUME NEW p \in Process, NEW x \in {"copy", "unmap", "ok"},
             pc[p] \in {"merge", "copy", "unmap"}, pc' = [pc EXCEPT ![p] = x]
      PROVE  Inv'
  <2>1. ASSUME NEW q \in Process, Born(q), Below(q, p)
        PROVE  Above(x, p, q)
    <3>1. Above(pc[p], p, q)
      BY <2>1 DEF Inv, AllDone
    <3>2. pc[q] = "ok"
      BY <1>7, <3>1 DEF Above
    <3> QED
      BY <3>2 DEF Above
  <2> QED
    BY <1>7, <2>1, Moves DEF Points, Running, Ended
<1>8. ASSUME NEW p \in Process, merge(p)
      PROVE  Inv'
  BY <1>7, <1>8 DEF merge, Goto
<1>9. ASSUME NEW p \in Process, CopyBack(p)
      PROVE  Inv'
  <2>1. CASE UNCHANGED pc
    BY <1>0, <2>1
  <2>2. CASE pc[p] = "copy" /\ pc' = [pc EXCEPT ![p] = Returned(p)]
    <3>1. Returned(p) \in {"unmap", "ok"}
      BY DEF Returned
    <3> HIDE DEF Returned
    <3> QED
      BY <1>7, <2>2, <3>1
  <2> QED
    BY <1>9, <2>1, <2>2 DEF CopyBack, Goto
<1>10. CASE Unmap
  <2>1. Root \in Process
    BY ParSortAssumption DEF Root, Process
  <2>2. pc[Root] = "unmap" /\ Running(Root)
    BY <1>10 DEF Unmap, Fails, Goto, Running, Ended
  <2> QED
    BY <1>2, <1>7, <1>10, <2>1, <2>2 DEF Unmap, Fails, Goto
<1>11. ASSUME NEW p \in Process, Killed(p)
       PROVE  Inv'
  BY <1>2, <1>11 DEF Killed
<1>12. ASSUME NEW p \in Process, WaitFails(p)
       PROVE  Inv'
  <2>1. Running(p) /\ pc' = [pc EXCEPT ![p] = "failed"]
    BY <1>12 DEF WaitFails, Fails, Goto, Running, Ended
  <2> QED
    BY <1>2, <2>1
<1> QED
  BY <1>0, <1>1, <1>3, <1>4, <1>5, <1>6, <1>8, <1>9, <1>10, <1>11, <1>12
  DEF Next, merge_sort, Finished, vars
-----------------------------------------------------------------------------
\* The shape of the tree of processes is the same at every moment.
THEOREM TreeShape == Spec => []Inv
BY InitInv, StepInv, PTL DEF Spec

\* A process that exits with 0 leaves nothing running in its part of the
\* mapping and hides no failure, whatever the length and the threshold.
THEOREM ExitCodeHonest == Spec => []ZeroMeansAllDone
<1>1. Inv => ZeroMeansAllDone
  <2> SUFFICES ASSUME Inv, NEW p \in Process, pc[p] = "ok",
                      NEW q \in Process, Within(q, p)
               PROVE  pc[q] \in {"unborn", "ok"}
    BY DEF ZeroMeansAllDone
  <2>1. Inside(q, p)
    BY InsideIsWithin
  <2> QED
    BY <2>1, Waited DEF Born
<1> QED
  BY <1>1, TreeShape, PTL

\* No two processes read or write the same cell at the same time: one of two
\* whose parts are nested waits for the other, or has ended.
THEOREM PartsDisjoint == Spec => []DisjointParts
<1>1. Inv => DisjointParts
  <2> SUFFICES ASSUME Inv, NEW p \in Process, NEW q \in Process,
                      p # q, Accesses(p), Accesses(q)
               PROVE  Cells(p) \cap Cells(q) = {}
    BY DEF DisjointParts
  <2>1. Born(p) /\ Born(q)
    BY DEF Accesses, Born
  <2>2. ASSUME NEW r \in Process, NEW s \in Process, Accesses(r), Accesses(s), Below(s, r)
        PROVE  FALSE
    <3>1. Born(s) /\ pc[s] # "ok"
      BY <2>2 DEF Accesses, Born
    <3>2. pc[r] # "call"
      BY <2>2, <3>1 DEF Inv, NotYet
    <3>3. Above(pc[r], r, s)
      BY <2>2, <3>1 DEF Inv, AllDone
    <3> QED
      BY <2>2, <3>1, <3>2, <3>3 DEF Accesses, Above
  <2>3. ~ Inside(p, q) /\ ~ Inside(q, p)
    BY <2>2 DEF Below
  <2>4. Apart(p, q)
    BY <2>1, <2>3 DEF Inv, Laminar
  <2> QED
    BY <2>4, ApartIsDisjoint
<1> QED
  BY <1>1, TreeShape, PTL
-----------------------------------------------------------------------------
(***************************************************************************)
(* Induction.  The theorems of NaturalsInduction have an operator as a     *)
(* parameter; here a property is the set of the numbers that have it.      *)
(***************************************************************************)
\* A set of naturals that is not empty has a least element.
LEMMA Least == ASSUME NEW T, T \subseteq Nat, T # {}
               PROVE  \E m \in T : \A k \in T : m <= k
<1>1. IsWellFoundedOn(OpToRel(<, Nat), Nat)
  BY NatLessThanWellFounded
<1>2. \E x \in T : \A y \in T : ~ (<<y, x>> \in OpToRel(<, Nat))
  BY <1>1, WFMin
<1>3. PICK x \in T : \A y \in T : ~ (<<y, x>> \in OpToRel(<, Nat))
  BY <1>2
<1>4. ASSUME NEW y \in T
      PROVE  x <= y
  <2>1. x \in Nat /\ y \in Nat
    OBVIOUS
  <2>2. <<y, x>> \in Nat \X Nat
    BY <2>1
  <2>3. y < x => <<y, x>> \in OpToRel(<, Nat)
    BY <2>2 DEF OpToRel
  <2>4. ~ (y < x)
    BY <1>3, <2>3, Zenon
  <2> QED
    BY <2>1, <2>4
<1> QED
  BY <1>4

\* Induction, for the set of the numbers that have a property.
LEMMA Induction == ASSUME NEW T, 0 \in T, \A n \in Nat : n \in T => n + 1 \in T
                   PROVE  \A n \in Nat : n \in T
<1> SUFFICES ASSUME NEW c \in Nat, c \notin T
             PROVE  FALSE
  OBVIOUS
<1> DEFINE S == Nat \ T
<1>1. S \subseteq Nat /\ S # {}
  OBVIOUS
<1>2. PICK m \in S : \A k \in S : m <= k
  BY <1>1, Least
<1>3. m \in Nat /\ m # 0 /\ m \notin T
  OBVIOUS
<1>4. m - 1 \in Nat /\ (m - 1) + 1 = m /\ ~ (m <= m - 1)
  BY <1>3
<1>5. m - 1 \in T
  BY <1>2, <1>4
<1> QED
  BY <1>3, <1>4, <1>5


(***************************************************************************)
(* merge.  Its loop is followed turn by turn: what holds after n turns is     *)
(* proved by induction on n.                                               *)
(***************************************************************************)
\* f puts the cells of S in the places of T.
Rearranges(f, S, T) == /\ f \in [S -> T]
                       /\ \A i, j \in S : f[i] = f[j] => i = j
                       /\ \A c \in T : \E i \in S : f[i] = c

\* Both halves are sorted.
Ordered(a, b, m, e) ==
  /\ \A i \in b .. m - 1 : i + 1 \in b .. m - 1 => a[i] <= a[i + 1]
  /\ \A i \in m .. e - 1 : i + 1 \in m .. e - 1 => a[i] <= a[i + 1]

InOrder(d, n) == \A j \in 1 .. n : j + 1 \in 1 .. n => d[j] <= d[j + 1]

\* What has been taken is not above what is left.
NotAbove(a, m, e, n, l, r, d) ==
  n > 0 => (l < m => d[n] <= a[l]) /\ (r < e => d[n] <= a[r])

\* State s of merge after n turns: dst has in it the cells that are no longer
\* there and, if the halves are sorted, is in order and not above what is left.
Has(a, b, m, e, n, s, l, r, d, f) ==
  /\ s = [left |-> l, right |-> r, dst |-> d]
  /\ l + r = b + m + n /\ Len(d) = n
  /\ Ordered(a, b, m, e) => InOrder(d, n) /\ NotAbove(a, m, e, n, l, r, d)
  /\ Rearranges(f, b .. b + n - 1, (b .. l - 1) \cup (m .. r - 1))
  /\ \A i \in b .. b + n - 1 : d[i - b + 1] = a[f[i]]

Halfway(a, b, m, e, n, s) ==
  \E l \in b .. m, r \in m .. e, d \in Seq(Values) : \E f : Has(a, b, m, e, n, s, l, r, d, f)

\* One cell more, and one place more.
LEMMA RearrangesMore ==
  ASSUME NEW b \in Nat, NEW n \in Nat, NEW T, NEW c, c \notin T, NEW f,
         Rearranges(f, b .. b + n - 1, T),
         NEW g, g = [i \in b .. b + n |-> IF i = b + n THEN c ELSE f[i]]
  PROVE  Rearranges(g, b .. b + n, T \cup {c})
<1>1. \A i \in b .. b + n : i # b + n => i \in b .. b + n - 1 /\ g[i] = f[i] /\ f[i] \in T
  BY DEF Rearranges
<1>2. b + n \in b .. b + n /\ g[b + n] = c
  OBVIOUS
<1>3. g \in [b .. b + n -> T \cup {c}]
  BY <1>1, <1>2
<1>4. ASSUME NEW i \in b .. b + n, NEW j \in b .. b + n, g[i] = g[j]
      PROVE  i = j
  BY <1>1, <1>2, <1>4 DEF Rearranges
<1>5. ASSUME NEW x \in T \cup {c}
      PROVE  \E i \in b .. b + n : g[i] = x
  <2>1. CASE x = c
    BY <1>2, <2>1
  <2>2. CASE x # c
    <3>1. PICK i \in b .. b + n - 1 : f[i] = x
      BY <2>2 DEF Rearranges
    <3>2. i \in b .. b + n /\ i # b + n
      BY <3>1
    <3> QED
      BY <1>1, <3>1, <3>2
  <2> QED
    BY <2>1, <2>2
<1> QED
  BY <1>3, <1>4, <1>5 DEF Rearranges

\* One more cell at the end.
LEMMA AppendsOne ==
  ASSUME NEW n \in Nat, NEW d \in Seq(Values), Len(d) = n, NEW x \in Values,
         NEW y, y = Append(d, x)
  PROVE  /\ y \in Seq(Values) /\ Len(y) = n + 1
         /\ y[n + 1] = x /\ \A j \in 1 .. n : y[j] = d[j]
OBVIOUS

\* What is not less than the last keeps the order when it comes behind it.
LEMMA OrderGoesOn ==
  ASSUME NEW n \in Nat, NEW d, NEW x, NEW y, InOrder(d, n), n > 0 => d[n] <= x,
         y[n + 1] = x, \A j \in 1 .. n : y[j] = d[j]
  PROVE  InOrder(y, n + 1)
<1> SUFFICES ASSUME NEW j \in 1 .. n + 1, j + 1 \in 1 .. n + 1
             PROVE  y[j] <= y[j + 1]
  BY DEF InOrder
<1>1. j \in 1 .. n
  OBVIOUS
<1>2. CASE j + 1 \in 1 .. n
  BY <1>1, <1>2 DEF InOrder
<1>3. CASE j = n
  BY <1>1, <1>3
<1> QED
  BY <1>2, <1>3

\* Take for a process whose part ends at e and has its middle at m.
Turn(a, m, e, s) ==
  IF s.left < m /\ (s.right = e \/ a[s.left] <= a[s.right])
  THEN [left |-> s.left + 1, right |-> s.right, dst |-> Append(s.dst, a[s.left])]
  ELSE [left |-> s.left, right |-> s.right + 1, dst |-> Append(s.dst, a[s.right])]

\* A turn takes the smaller cell, which is not less than any before if the
\* halves are sorted.
LEMMA TurnGoesOn ==
  ASSUME NEW a \in [0 .. Length - 1 -> Values], NEW b \in Nat, NEW m \in Nat, NEW e \in Nat,
         b <= m, m <= e, e <= Length,
         NEW n \in Nat, b + n < e, NEW s, Halfway(a, b, m, e, n, s)
  PROVE  Halfway(a, b, m, e, n + 1, Turn(a, m, e, s))
<1>1. b \in Nat /\ e \in Nat /\ e <= Length /\ Length \in Nat
  BY ParSortAssumption
<1>2. PICK l \in b .. m, r \in m .. e, d \in Seq(Values) :
        \E f : Has(a, b, m, e, n, s, l, r, d, f)
  BY DEF Halfway
<1>3. PICK f : Has(a, b, m, e, n, s, l, r, d, f)
  BY <1>2
<1>4. /\ s.left = l /\ s.right = r /\ s.dst = d
      /\ l \in Nat /\ r \in Nat /\ b <= l /\ l <= m /\ m <= r /\ r <= e
      /\ l + r = b + m + n
  BY <1>1, <1>3 DEF Has
<1>5. ASSUME NEW c \in b .. e - 1, c \notin (b .. l - 1) \cup (m .. r - 1),
             NEW l2 \in b .. m, NEW r2 \in m .. e, l2 + r2 = b + m + (n + 1),
             (b .. l - 1) \cup (m .. r - 1) \cup {c} = (b .. l2 - 1) \cup (m .. r2 - 1),
             Ordered(a, b, m, e) => /\ n > 0 => d[n] <= a[c]
                                    /\ l2 < m => a[c] <= a[l2]
                                    /\ r2 < e => a[c] <= a[r2]
      PROVE  Halfway(a, b, m, e, n + 1, [left |-> l2, right |-> r2, dst |-> Append(d, a[c])])
  <2> DEFINE y == Append(d, a[c])
             g == [i \in b .. b + n |-> IF i = b + n THEN c ELSE f[i]]
  <2>1. a[c] \in Values
    BY <1>1
  <2>3. Len(d) = n
    BY <1>3 DEF Has
  <2>4. /\ y \in Seq(Values) /\ Len(y) = n + 1
        /\ y[n + 1] = a[c] /\ \A j \in 1 .. n : y[j] = d[j]
    BY <2>1, <2>3, AppendsOne
  <2>5. Rearranges(g, b .. b + n, (b .. l2 - 1) \cup (m .. r2 - 1))
    <3> DEFINE X == (b .. l - 1) \cup (m .. r - 1)
    <3>1. Rearranges(f, b .. b + n - 1, X) /\ c \notin X
      BY <1>3, <1>5 DEF Has
    <3>2. g = [i \in b .. b + n |-> IF i = b + n THEN c ELSE f[i]]
      OBVIOUS
    <3> HIDE DEF g, X
    <3>3. Rearranges(g, b .. b + n, X \cup {c})
      BY <3>1, <3>2, RearrangesMore
    <3> QED
      BY <1>5, <3>3 DEF X
  <2>6. (b + (n + 1)) - 1 = b + n
    BY <1>1
  <2>7. ASSUME NEW i \in b .. b + n
        PROVE  y[i - b + 1] = a[g[i]]
    <3> HIDE DEF y
    <3>1. CASE i = b + n
      <4>1. i - b + 1 = n + 1 /\ g[i] = c
        BY <1>1, <3>1
      <4> QED
        BY <2>4, <4>1
    <3>2. CASE i # b + n
      <4>1. i \in b .. b + n - 1 /\ i - b + 1 \in 1 .. n /\ g[i] = f[i]
        BY <1>1, <3>2
      <4> QED
        BY <1>3, <2>4, <4>1 DEF Has
    <3> QED
      BY <3>1, <3>2
  <2> HIDE DEF y, g
  <2>8. y \in Seq(Values)
    BY <2>4
  <2>9. ASSUME Ordered(a, b, m, e)
        PROVE  InOrder(y, n + 1) /\ NotAbove(a, m, e, n + 1, l2, r2, y)
    <3>1. InOrder(d, n) /\ (n > 0 => d[n] <= a[c])
      BY <1>3, <1>5, <2>9 DEF Has
    <3>2. InOrder(y, n + 1)
      BY <2>4, <3>1, OrderGoesOn
    <3>3. NotAbove(a, m, e, n + 1, l2, r2, y)
      BY <1>5, <2>4, <2>9 DEF NotAbove
    <3> QED
      BY <3>2, <3>3
  <2>10. Halfway(a, b, m, e, n + 1, [left |-> l2, right |-> r2, dst |-> y])
    <3>1. l2 + r2 = b + m + (n + 1) /\ Len(y) = n + 1
      BY <1>5, <2>4
    <3>2. Has(a, b, m, e, n + 1, [left |-> l2, right |-> r2, dst |-> y], l2, r2, y, g)
      BY <2>5, <2>6, <2>7, <2>9, <3>1 DEF Has
    <3> QED
      BY <2>8, <3>2 DEF Halfway
  <2> QED
    BY <2>10 DEF y
<1>6. CASE l < m /\ (r = e \/ a[l] <= a[r])
  <2>1. Turn(a, m, e, s) = [left |-> l + 1, right |-> r, dst |-> Append(d, a[l])]
    BY <1>4, <1>6 DEF Turn
  <2>2. l \in b .. e - 1 /\ l \notin (b .. l - 1) \cup (m .. r - 1)
    BY <1>1, <1>4, <1>6
  <2>3. Ordered(a, b, m, e) => (n > 0 => d[n] <= a[l])
    BY <1>3, <1>6 DEF Has, NotAbove
  <2>4. l + 1 \in b .. m /\ r \in m .. e /\ l + 1 + r = b + m + (n + 1)
    BY <1>1, <1>4, <1>6
  <2>5. (b .. l - 1) \cup (m .. r - 1) \cup {l} = (b .. (l + 1) - 1) \cup (m .. r - 1)
    BY <1>1, <1>4, <1>6
  <2>6. Ordered(a, b, m, e) => (l + 1 < m => a[l] <= a[l + 1])
    BY <1>1, <1>4 DEF Ordered
  <2>7. r < e => a[l] <= a[r]
    BY <1>4, <1>6
  <2> QED
    BY ZenonT(60), <1>5, <2>1, <2>2, <2>3, <2>4, <2>5, <2>6, <2>7
<1>7. CASE ~ (l < m /\ (r = e \/ a[l] <= a[r]))
  <2>1. Turn(a, m, e, s) = [left |-> l, right |-> r + 1, dst |-> Append(d, a[r])]
    BY <1>4, <1>7 DEF Turn
  <2>2. r < e
    BY <1>1, <1>4, <1>7
  <2>3. r \in b .. e - 1 /\ r \notin (b .. l - 1) \cup (m .. r - 1)
    BY <1>1, <1>4, <2>2
  <2>4. Ordered(a, b, m, e) => (n > 0 => d[n] <= a[r])
    BY <1>3, <2>2 DEF Has, NotAbove
  <2>5. l \in b .. m /\ r + 1 \in m .. e /\ l + (r + 1) = b + m + (n + 1)
    BY <1>1, <1>4, <2>2
  <2>6. (b .. l - 1) \cup (m .. r - 1) \cup {r} = (b .. l - 1) \cup (m .. (r + 1) - 1)
    BY <1>1, <1>4
  <2>7. Ordered(a, b, m, e) => (r + 1 < e => a[r] <= a[r + 1])
    BY <1>1, <1>4 DEF Ordered
  <2>8. l < m => a[r] <= a[l]
    <3>1. l < m => l \in 0 .. Length - 1 /\ r \in 0 .. Length - 1
      BY <1>1, <1>4, <2>2
    <3>2. l < m => a[l] \in Nat /\ a[r] \in Nat
      BY <3>1, ParSortAssumption
    <3> QED
      BY <1>7, <2>2, <3>2
  <2> QED
    BY ZenonT(60), <1>5, <2>1, <2>3, <2>4, <2>5, <2>6, <2>7, <2>8
<1> QED
  BY <1>6, <1>7

\* merge is a loop: the state of it after n turns.
After(a, p) ==
  CHOOSE after : after = [n \in 0 .. prob_size(p) |->
                            IF n = 0 THEN [left |-> begin(p), right |-> mid(p), dst |-> << >>]
                            ELSE Take(a, p, after[n - 1])]

\* merge ends with what there is after as many turns as there are cells.
LEMMA MergedIsAfter ==
  ASSUME NEW a, NEW p
  PROVE  Merged(a, p) = After(a, p)[prob_size(p)].dst
BY DEF Merged, After

\* There is such a function, and After is one.
LEMMA AfterExists ==
  ASSUME NEW a, NEW p \in Process
  PROVE  After(a, p) = [n \in 0 .. prob_size(p) |->
                          IF n = 0 THEN [left |-> begin(p), right |-> mid(p), dst |-> << >>]
                          ELSE Take(a, p, After(a, p)[n - 1])]
<1> DEFINE s0 == [left |-> begin(p), right |-> mid(p), dst |-> << >>]
           Is(g, N) == g = [n \in 0 .. N |-> IF n = 0 THEN s0 ELSE Take(a, p, g[n - 1])]
           T == {N \in Nat : \E g : Is(g, N)}
<1> HIDE DEF s0
<1>1. 0 \in T
  <2> DEFINE g == [n \in 0 .. 0 |-> s0]
  <2>1. Is(g, 0)
    OBVIOUS
  <2> HIDE DEF Is
  <2> QED
    BY <2>1
<1>2. ASSUME NEW N \in Nat, N \in T
      PROVE  N + 1 \in T
  <2>1. PICK g : Is(g, N)
    BY <1>2
  <2> DEFINE h == [n \in 0 .. N + 1 |-> IF n = N + 1 THEN Take(a, p, g[N]) ELSE g[n]]
  <2>2. ASSUME NEW n \in 0 .. N + 1
        PROVE  h[n] = IF n = 0 THEN s0 ELSE Take(a, p, h[n - 1])
    <3>1. CASE n = 0
      BY <2>1, <3>1
    <3>2. CASE n = N + 1
      <4>1. N \in 0 .. N + 1 /\ N # N + 1 /\ n - 1 = N /\ n # 0
        BY <3>2
      <4>2. h[N] = g[N]
        BY <4>1
      <4> QED
        BY <3>2, <4>1, <4>2
    <3>3. CASE n # 0 /\ n # N + 1
      <4>1. n \in 0 .. N /\ n - 1 \in 0 .. N + 1 /\ n - 1 # N + 1
        BY <3>3
      <4>2. h[n] = g[n] /\ h[n - 1] = g[n - 1]
        BY <3>3, <4>1
      <4>3. g[n] = Take(a, p, g[n - 1])
        BY <2>1, <3>3, <4>1
      <4> QED
        BY <3>3, <4>2, <4>3
    <3> QED
      BY <3>1, <3>2, <3>3
  <2>3. h = [n \in 0 .. N + 1 |-> h[n]]
    OBVIOUS
  <2> HIDE DEF h
  <2>4. Is(h, N + 1)
    BY <2>2, <2>3
  <2> HIDE DEF Is
  <2> QED
    BY <2>4
<1>3. prob_size(p) \in Nat
  BY Ends, ParSortAssumption DEF prob_size, begin, end
<1>4. prob_size(p) \in T
  <2> HIDE DEF T
  <2> QED
    BY <1>1, <1>2, <1>3, Induction
<1>5. \E g : Is(g, prob_size(p))
  BY <1>4
<1> QED
  BY <1>5 DEF After, s0

\* merge fills temp with the cells of the two halves, each once, and in order if
\* the halves are sorted.
LEMMA MergedRight ==
  ASSUME NEW a \in [0 .. Length - 1 -> Values], NEW p \in Process, prob_size(p) > Threshold
  PROVE  /\ Merged(a, p) \in Seq(Values) /\ Len(Merged(a, p)) = prob_size(p)
         /\ Sorted(a, leftkid(p)) /\ Sorted(a, rightkid(p)) => InOrder(Merged(a, p), prob_size(p))
         /\ \E f : /\ Rearranges(f, Cells(p), Cells(p))
                   /\ \A i \in Cells(p) : Merged(a, p)[i - begin(p) + 1] = a[f[i]]
<1> DEFINE b == begin(p)
           m == mid(p)
           e == end(p)
           F == After(a, p)
<1>1. b \in Nat /\ e \in Nat /\ b < e /\ prob_size(p) = e - b
  BY Ends, ParSortAssumption DEF begin, end, prob_size
<1>2. /\ leftkid(p)[1] = b /\ leftkid(p)[2] = m
      /\ rightkid(p)[1] = m /\ rightkid(p)[2] = e
      /\ b < m /\ m < e
  BY Halves DEF leftkid, begin, end
<1>3. m \in Nat
  BY <1>2, Middle
<1>4. Sorted(a, leftkid(p)) /\ Sorted(a, rightkid(p)) => Ordered(a, b, m, e)
  BY <1>2 DEF Sorted, Cells, begin, end, Ordered
<1>5. F = [n \in 0 .. prob_size(p) |->
             IF n = 0 THEN [left |-> b, right |-> m, dst |-> << >>] ELSE Take(a, p, F[n - 1])]
  BY AfterExists
<1> DEFINE T == {n \in Nat : n <= prob_size(p) => Halfway(a, b, m, e, n, F[n])}
<1>6. 0 \in T
  <2>1. F[0] = [left |-> b, right |-> m, dst |-> << >>]
    BY <1>1, <1>5
  <2>2. Rearranges(<< >>, b .. b + 0 - 1, (b .. b - 1) \cup (m .. m - 1))
    BY <1>1, <1>3 DEF Rearranges
  <2>3. b \in b .. m /\ m \in m .. e /\ << >> \in Seq(Values) /\ Len(<< >>) = 0
    BY <1>1, <1>2, <1>3
  <2> HIDE DEF b, m, e, F
  <2>4. Halfway(a, b, m, e, 0, F[0])
    <3>1. /\ b + m = b + m + 0
          /\ InOrder(<< >>, 0) /\ NotAbove(a, m, e, 0, b, m, << >>)
          /\ \A i \in b .. b + 0 - 1 : FALSE
      BY <1>1, <1>3 DEF InOrder, NotAbove
    <3> QED
      <4>1. Has(a, b, m, e, 0, F[0], b, m, << >>, << >>)
        BY <2>1, <2>2, <2>3, <3>1 DEF Has
      <4> QED
        BY <2>3, <4>1 DEF Halfway
  <2> QED
    BY <2>4
<1>7. ASSUME NEW n \in Nat, n \in T
      PROVE  n + 1 \in T
  <2> SUFFICES ASSUME n + 1 <= prob_size(p)
               PROVE  Halfway(a, b, m, e, n + 1, F[n + 1])
    OBVIOUS
  <2>1. n <= prob_size(p) /\ b + n < e /\ n + 1 \in 0 .. prob_size(p) /\ n + 1 # 0
        /\ (n + 1) - 1 = n
    BY <1>1
  <2>2. F[n + 1] = Take(a, p, F[n])
    BY <1>5, <2>1
  <2>3. Halfway(a, b, m, e, n, F[n])
    BY <1>7, <2>1
  <2>4. b <= m /\ m <= e /\ e <= Length
    BY <1>1, <1>2, <1>3, Ends, ParSortAssumption DEF end
  <2>5. F[n + 1] = Turn(a, m, e, F[n])
    BY <2>2 DEF Take, Turn
  <2> HIDE DEF F, T, b, m, e
  <2> QED
    BY <1>1, <1>3, <2>1, <2>3, <2>4, <2>5, TurnGoesOn
<1>8. prob_size(p) \in T
  <2> HIDE DEF T
  <2>1. prob_size(p) \in Nat
    BY <1>1
  <2> QED
    BY <1>6, <1>7, <2>1, Induction
<1> DEFINE N == prob_size(p)
<1>9. Halfway(a, b, m, e, N, F[N])
  BY <1>8
<1>10. PICK l \in b .. m, r \in m .. e, d \in Seq(Values) :
         \E f : Has(a, b, m, e, N, F[N], l, r, d, f)
  <2> HIDE DEF F, N, b, m, e
  <2> QED
    BY <1>9 DEF Halfway
<1> HIDE DEF F, N, b, m, e
<1>11. PICK f : Has(a, b, m, e, N, F[N], l, r, d, f)
  BY <1>10
<1>12. Merged(a, p) = d
  <2>1. F[N].dst = d
    BY <1>11 DEF Has
  <2> QED
    BY <2>1, MergedIsAfter DEF F, N
<1>13. l = m /\ r = e
  <2>1. l + r = b + m + N
    BY <1>11 DEF Has
  <2>2. N = e - b
    BY <1>1 DEF N
  <2> QED
    BY <1>1, <1>3, <2>1, <2>2
<1>14. /\ b .. b + N - 1 = Cells(p)
       /\ (b .. m - 1) \cup (m .. e - 1) = Cells(p)
  <2>1. Cells(p) = b .. e - 1
    BY DEF Cells, b, e
  <2>2. N = e - b
    BY <1>1 DEF N
  <2> QED
    BY <1>1, <1>2, <1>3, <2>1, <2>2
<1>15. d \in Seq(Values) /\ Len(d) = N
  BY <1>11 DEF Has
<1>16. /\ Rearranges(f, Cells(p), Cells(p))
       /\ \A i \in Cells(p) : d[i - b + 1] = a[f[i]]
  BY <1>11, <1>13, <1>14 DEF Has
<1>17. Ordered(a, b, m, e) => InOrder(d, N)
  BY <1>11 DEF Has
<1> QED
  BY <1>4, <1>12, <1>15, <1>16, <1>17 DEF N, b
-----------------------------------------------------------------------------
(***************************************************************************)
(* is_sorted, and how often a value occurs.                                *)
(***************************************************************************)
\* is_sorted is a loop that goes up: what it finds from cell i - 1 on.
Scan(a) == CHOOSE from : from = [i \in 1 .. Length |->
                                   i = Length \/ (a[i] >= a[i - 1] /\ from[i + 1])]

\* Neighbours in order is what Sorted says.
LEMMA IsSortedRight ==
  ASSUME NEW a \in [0 .. Length - 1 -> Values]
  PROVE  is_sorted(a) <=> Sorted(a, Root)
<1>1. Length \in Nat /\ Length >= 1
  BY ParSortAssumption
<1> DEFINE Rest(i) == \A j \in i .. Length - 1 : a[j] >= a[j - 1]
           F == Scan(a)
<1>2. is_sorted(a) = F[1]
  BY DEF is_sorted, Scan
<1>3. F = [i \in 1 .. Length |-> i = Length \/ (a[i] >= a[i - 1] /\ F[i + 1])]
  <2> DEFINE g == [i \in 1 .. Length |-> Rest(i)]
  <2>1. ASSUME NEW i \in 1 .. Length
        PROVE  g[i] = (i = Length \/ (a[i] >= a[i - 1] /\ g[i + 1]))
    <3>1. CASE i = Length
      <4>1. \A j \in i .. Length - 1 : FALSE
        BY <1>1, <3>1
      <4> QED
        BY <3>1, <4>1
    <3>2. CASE i # Length
      <4>1. i + 1 \in 1 .. Length /\ i \in i .. Length - 1
        BY <1>1, <3>2
      <4>2. g[i + 1] = Rest(i + 1)
        BY <4>1
      <4>3. \A j : j \in i .. Length - 1 <=> j = i \/ j \in i + 1 .. Length - 1
        BY <1>1, <3>2
      <4>4. Rest(i) <=> a[i] >= a[i - 1] /\ Rest(i + 1)
        BY <4>3
      <4> HIDE DEF Rest
      <4>5. Rest(i) \in BOOLEAN
        BY DEF Rest
      <4>6. g[i] = Rest(i)
        OBVIOUS
      <4> QED
        BY <3>2, <4>2, <4>4, <4>5, <4>6
    <3> QED
      BY <3>1, <3>2
  <2>2. g = [i \in 1 .. Length |-> g[i]]
    OBVIOUS
  <2> HIDE DEF g
  <2>3. g = [i \in 1 .. Length |-> i = Length \/ (a[i] >= a[i - 1] /\ g[i + 1])]
    BY <2>1, <2>2
  <2> QED
    BY <2>3 DEF Scan
<1> HIDE DEF F
<1> DEFINE T == {n \in Nat : n < Length => (F[Length - n] <=> Rest(Length - n))}
<1>4. 0 \in T
  <2>1. Length - 0 = Length /\ Length \in 1 .. Length
    BY <1>1
  <2>2. \A j \in Length .. Length - 1 : FALSE
    BY <1>1
  <2>3. F[Length]
    BY <1>3, <2>1
  <2> QED
    BY <2>1, <2>2, <2>3
<1>5. ASSUME NEW n \in Nat, n \in T
      PROVE  n + 1 \in T
  <2> SUFFICES ASSUME n + 1 < Length
               PROVE  F[Length - (n + 1)] <=> Rest(Length - (n + 1))
    OBVIOUS
  <2> DEFINE i == Length - (n + 1)
  <2>1. i \in 1 .. Length /\ i # Length /\ i + 1 = Length - n /\ n < Length
    BY <1>1
  <2>2. F[i + 1] <=> Rest(i + 1)
    BY <1>5, <2>1
  <2>3. F[i] <=> a[i] >= a[i - 1] /\ F[i + 1]
    <3> HIDE DEF i
    <3> QED
      BY <1>3, <2>1
  <2>4. \A j : j \in i .. Length - 1 <=> j = i \/ j \in i + 1 .. Length - 1
    <3> HIDE DEF i
    <3> QED
      BY <1>1, <2>1
  <2>5. Rest(i) <=> a[i] >= a[i - 1] /\ Rest(i + 1)
    BY <2>4
  <2> HIDE DEF Rest
  <2> QED
    BY <2>2, <2>3, <2>5
<1>6. F[1] <=> Rest(1)
  <2>1. Length - 1 \in Nat /\ Length - 1 < Length /\ Length - (Length - 1) = 1
    BY <1>1
  <2>2. Length - 1 \in T
    <3> HIDE DEF T
    <3> QED
      BY <1>4, <1>5, <2>1, Induction
  <2> HIDE DEF Rest
  <2> QED
    BY <2>1, <2>2
<1>7. Rest(1) <=> Sorted(a, Root)
  <2>1. Cells(Root) = 0 .. Length - 1
    BY DEF Cells, Root, begin, end
  <2>2. \A i \in 0 .. Length - 1 : a[i] \in Nat
    BY ParSortAssumption
  <2>3. ASSUME Rest(1), NEW i \in 0 .. Length - 1, i + 1 \in 0 .. Length - 1
        PROVE  a[i] <= a[i + 1]
    <3>1. i + 1 \in 1 .. Length - 1 /\ (i + 1) - 1 = i
      BY <1>1, <2>3
    <3>2. a[i + 1] >= a[(i + 1) - 1]
      BY <2>3, <3>1
    <3> QED
      BY <2>2, <2>3, <3>1, <3>2
  <2>4. ASSUME Sorted(a, Root), NEW j \in 1 .. Length - 1
        PROVE  a[j] >= a[j - 1]
    <3>1. j - 1 \in 0 .. Length - 1 /\ (j - 1) + 1 = j /\ j \in 0 .. Length - 1
      BY <1>1
    <3>2. a[j - 1] <= a[(j - 1) + 1]
      BY <2>1, <2>4, <3>1 DEF Sorted
    <3> QED
      BY <2>2, <3>1, <3>2
  <2> QED
    BY <2>1, <2>3, <2>4 DEF Sorted
<1> QED
  BY <1>2, <1>6, <1>7

\* A part has finitely many cells.
LEMMA CellsFinite == ASSUME NEW p \in Process
                     PROVE  IsFiniteSet(Cells(p))
<1>1. p[1] \in Int /\ p[2] - 1 \in Int
  BY Ends, ParSortAssumption
<1> QED
  BY <1>1, FS_Interval DEF Cells, begin, end

\* How often a value occurs is a number.
LEMMA CopiesCount ==
  ASSUME NEW p \in Process, NEW a, NEW v
  PROVE  IsFiniteSet({i \in Cells(p) : a[i] = v}) /\ Copies(a, p, v) \in Nat
<1>2. IsFiniteSet(Cells(p))
  BY CellsFinite
<1>3. IsFiniteSet({i \in Cells(p) : a[i] = v})
  BY <1>2, FS_Subset
<1> QED
  BY <1>3, FS_CardinalityType DEF Copies

\* What is said of an array speaks of the cells only.
LEMMA SameCells ==
  ASSUME NEW p, NEW a, NEW b, \A i \in Cells(p) : a[i] = b[i]
  PROVE  /\ Sorted(a, p) <=> Sorted(b, p)
         /\ \A v : Copies(a, p, v) = Copies(b, p, v)
<1>1. \A v : {i \in Cells(p) : a[i] = v} = {i \in Cells(p) : b[i] = v}
  OBVIOUS
<1> QED
  BY <1>1 DEF Sorted, Copies

\* Cells that change places are as many as before.
LEMMA CopiesRearranged ==
  ASSUME NEW p \in Process, NEW a, NEW b, NEW f, Rearranges(f, Cells(p), Cells(p)),
         \A i \in Cells(p) : b[i] = a[f[i]], NEW v
  PROVE  Copies(b, p, v) = Copies(a, p, v)
<1> DEFINE S == {i \in Cells(p) : b[i] = v}
           T == {i \in Cells(p) : a[i] = v}
           g == [i \in S |-> f[i]]
<1>1. g \in [S -> T]
  BY DEF Rearranges
<1>2. \A i, j \in S : g[i] = g[j] => i = j
  BY DEF Rearranges
<1>3. ASSUME NEW c \in T
      PROVE  \E i \in S : g[i] = c
  <2>1. PICK i \in Cells(p) : f[i] = c
    BY DEF Rearranges
  <2>2. i \in S
    BY <2>1
  <2> QED
    BY <2>1, <2>2
<1>4. IsFiniteSet(S)
  <2>1. S \in SUBSET Cells(p) /\ IsFiniteSet(Cells(p))
    BY CellsFinite
  <2> HIDE DEF S
  <2> QED
    BY <2>1, FS_Subset
<1> HIDE DEF S, T, g
<1>5. g \in Bijection(S, T)
  <2>1. g \in Injection(S, T)
    BY <1>1, <1>2 DEF Injection, IsInjective
  <2>2. g \in Surjection(S, T)
    BY <1>1, <1>3 DEF Surjection
  <2> QED
    BY <2>1, <2>2 DEF Bijection
<1>6. Cardinality(T) = Cardinality(S)
  BY <1>4, <1>5, FS_Bijection DEF ExistsBijection
<1> QED
  BY <1>6 DEF Copies, S, T

\* A value occurs in a part as often as in both halves together.
LEMMA CopiesOfHalves ==
  ASSUME NEW p \in Process, prob_size(p) > Threshold, NEW a, NEW v
  PROVE  Copies(a, p, v) = Copies(a, leftkid(p), v) + Copies(a, rightkid(p), v)
<1>1. /\ leftkid(p) \in Process /\ rightkid(p) \in Process
      /\ leftkid(p)[1] = p[1] /\ leftkid(p)[2] = rightkid(p)[1]
      /\ rightkid(p)[2] = p[2]
      /\ p[1] < leftkid(p)[2] /\ leftkid(p)[2] < p[2]
      /\ p[1] \in Nat /\ p[2] \in Nat /\ leftkid(p)[2] \in Nat
  BY Halves, Middle, Ends, ParSortAssumption
<1>2. /\ \A i : i \in Cells(p) <=> i \in Cells(leftkid(p)) \/ i \in Cells(rightkid(p))
      /\ \A i : ~ (i \in Cells(leftkid(p)) /\ i \in Cells(rightkid(p)))
  BY <1>1 DEF Cells, begin, end
<1> DEFINE S == {i \in Cells(p) : a[i] = v}
           L == {i \in Cells(leftkid(p)) : a[i] = v}
           R == {i \in Cells(rightkid(p)) : a[i] = v}
<1>3. S = L \cup R /\ L \cap R = {}
  BY <1>2
<1>4. IsFiniteSet(L) /\ IsFiniteSet(R) /\ Cardinality(L) \in Nat /\ Cardinality(R) \in Nat
  <2>1. IsFiniteSet(L) /\ Copies(a, leftkid(p), v) \in Nat
    BY <1>1, CopiesCount, Zenon
  <2>2. IsFiniteSet(R) /\ Copies(a, rightkid(p), v) \in Nat
    BY <1>1, CopiesCount, Zenon
  <2> QED
    BY <2>1, <2>2 DEF Copies
<1> HIDE DEF S, L, R
<1>5. Cardinality(L \cup R) = Cardinality(L) + Cardinality(R) - Cardinality(L \cap R)
  BY <1>4, FS_Union
<1>6. Cardinality(L \cap R) = 0
  BY <1>3, FS_EmptySet
<1>7. Cardinality(S) = Cardinality(L) + Cardinality(R)
  BY <1>3, <1>4, <1>5, <1>6
<1> QED
  BY <1>7 DEF Copies, S, L, R
-----------------------------------------------------------------------------
(***************************************************************************)
(* What is in the mapping, at each point of each process: the part is as   *)
(* it was in the file, or its halves are sorted, or it is; and what has    *)
(* been copied back is the beginning of temp.                              *)
(***************************************************************************)
Fresh(q) == \A i \in Cells(q) : mapped[i] = input[i]
\* Promised only of a part whose cells an int can count.
Done(q) == CountFits(q) => Sorted(mapped, q) /\ Permuted(mapped, input, q)
\* What a process knows of a child it waits for.
Kept(q) == pc[q] = "ok" => Done(q)
\* The array temp, over the cells it is copied to.
Result(p) == [i \in Cells(p) |-> temp[p][i - begin(p) + 1]]

Waits == {"wait_left", "wait_right"}
Returns(p) == pc[p] = "unmap" \/ (pc[p] = "ok" /\ p = Root)

CopyOK(p) ==
  /\ prob_size(p) > Threshold
  /\ Len(temp[p]) = prob_size(p)
  /\ CountFits(p) => Sorted(Result(p), p) /\ Permuted(Result(p), input, p)
  /\ \A i \in Cells(p) : i < begin(p) + copied[p] => mapped[i] = Result(p)[i]

Stage(p) ==
  /\ pc[p] = "call" => Fresh(p)
  /\ pc[p] = "fork_right" => Fresh(rightkid(p))
  /\ pc[p] \in {"fork_right"} \cup Waits => Kept(leftkid(p))
  /\ pc[p] \in Waits => Kept(rightkid(p))
  /\ pc[p] = "wait_right" => pc[leftkid(p)] = "ok"
  /\ pc[p] = "merge" => prob_size(p) > Threshold /\ Done(leftkid(p)) /\ Done(rightkid(p))
  /\ pc[p] = "copy" => CopyOK(p)
  /\ Returns(p) => Done(p)
  /\ pc[p] \notin {"copy", "ok", "failed", "killed"} => copied[p] = 0

Types == /\ input \in Inputs
         /\ mapped \in [0 .. Length - 1 -> Values]
         /\ temp \in [Process -> Seq(Values)]
         /\ copied \in [Process -> Nat]
         /\ \A p \in Process : copied[p] <= prob_size(p) /\ copied[p] <= IntMax + 1
         /\ faulty \in BOOLEAN

Data == Inv /\ Types /\ \A p \in Process : Stage(p)

Untouched(q) == \A i \in Cells(q) : mapped'[i] = mapped[i]

\* A child that is waited for has not changed, or is sorted.
StillKept(k) == pc'[k] = "ok" => (pc[k] = "ok" /\ Untouched(k)) \/ Done(k)'

\* A part that is sorted stays so while nobody writes it.
LEMMA DoneStays ==
  ASSUME NEW q, Done(q), Untouched(q), input' = input
  PROVE  Done(q)'
<1>1. /\ Sorted(mapped, q) <=> Sorted(mapped', q)
      /\ \A v : Copies(mapped, q, v) = Copies(mapped', q, v)
  <2> DEFINE a == mapped
             b == mapped'
  <2>1. \A i \in Cells(q) : a[i] = b[i]
    BY DEF Untouched
  <2> HIDE DEF a, b
  <2>2. /\ Sorted(a, q) <=> Sorted(b, q)
        /\ \A v : Copies(a, q, v) = Copies(b, q, v)
    BY <2>1, SameCells
  <2> QED
    BY <2>2 DEF a, b
<1> QED
  BY <1>1 DEF Done, Permuted

LEMMA KeptStays ==
  ASSUME NEW k, Kept(k), StillKept(k), input' = input
  PROVE  Kept(k)'
BY DoneStays DEF Kept, StillKept

\* What has to be the same for what is known at a point to be true still.
LEMMA StageStays ==
  ASSUME NEW p \in Process, Stage(p), pc'[p] = pc[p], temp'[p] = temp[p],
         copied'[p] = copied[p], input' = input,
         pc[p] \in {"call", "copy"} \/ Returns(p) => Untouched(p),
         pc[p] = "fork_right" => Untouched(rightkid(p)),
         pc[p] \in {"fork_right"} \cup Waits => StillKept(leftkid(p)),
         pc[p] \in Waits => StillKept(rightkid(p)),
         pc[p] = "wait_right" => pc'[leftkid(p)] = pc[leftkid(p)],
         pc[p] = "merge" => Untouched(leftkid(p)) /\ Untouched(rightkid(p))
  PROVE  Stage(p)'
<1>1. pc'[p] = "call" => Fresh(p)'
  BY DEF Stage, Fresh, Untouched
<1>2. pc'[p] = "fork_right" => Fresh(rightkid(p))'
  BY DEF Stage, Fresh, Untouched
<1>3. pc'[p] \in {"fork_right"} \cup Waits => Kept(leftkid(p))'
  BY KeptStays DEF Stage
<1>4. pc'[p] \in Waits => Kept(rightkid(p))'
  BY KeptStays DEF Stage
<1>5. pc'[p] = "wait_right" => pc'[leftkid(p)] = "ok"
  BY DEF Stage
<1>6. pc'[p] = "merge" => Done(leftkid(p))' /\ Done(rightkid(p))' /\ prob_size(p) > Threshold
  BY DoneStays DEF Stage
<1>7. pc'[p] = "copy" => CopyOK(p)'
  <2> SUFFICES ASSUME pc[p] = "copy"
               PROVE  CopyOK(p)'
    OBVIOUS
  <2>1. CopyOK(p) /\ Untouched(p)
    BY DEF Stage
  <2>2. Result(p)' = Result(p)
    BY DEF Result
  <2>3. input' = input /\ temp'[p] = temp[p] /\ copied'[p] = copied[p]
    OBVIOUS
  <2> QED
    BY <2>1, <2>2, <2>3 DEF CopyOK, Untouched
<1>8. Returns(p)' => Done(p)'
  BY DoneStays DEF Stage, Returns
<1>9. pc'[p] \notin {"copy", "ok", "failed", "killed"} => copied'[p] = 0
  BY DEF Stage
<1> QED
  BY <1>1, <1>2, <1>3, <1>4, <1>5, <1>6, <1>7, <1>8, <1>9 DEF Stage

\* Who has forked has a part large enough to have children.
LEMMA Kids == ASSUME Inv, NEW p \in Process, pc[p] \in {"fork_right"} \cup Waits
              PROVE  prob_size(p) > Threshold /\ leftkid(p) \in Process /\ rightkid(p) \in Process
<1>1. prob_size(p) > Threshold
  BY DEF Inv, Large, Waits
<1> QED
  BY <1>1, Halves

\* Nothing is written, and nobody ends with 0 unless its part is sorted.
LEMMA StageQuiet ==
  ASSUME Inv, NEW p \in Process, Stage(p), pc'[p] = pc[p], temp'[p] = temp[p],
         copied'[p] = copied[p], input' = input, mapped' = mapped,
         \A k \in Process : pc[k] = "ok" => pc'[k] = "ok",
         \A k \in Process : pc'[k] = "ok" => pc[k] = "ok" \/ Done(k)'
  PROVE  Stage(p)'
<1>1. \A k : Untouched(k)
  BY DEF Untouched
<1>2. \A k \in Process : StillKept(k)
  BY <1>1 DEF StillKept
<1>3. pc[p] \in {"fork_right"} \cup Waits => StillKept(leftkid(p)) /\ StillKept(rightkid(p))
  BY <1>2, Kids
<1>4. pc[p] = "wait_right" => pc'[leftkid(p)] = pc[leftkid(p)]
  <2> SUFFICES ASSUME pc[p] = "wait_right"
               PROVE  pc'[leftkid(p)] = pc[leftkid(p)]
    OBVIOUS
  <2>1. leftkid(p) \in Process /\ pc[leftkid(p)] = "ok"
    BY Kids DEF Stage, Waits
  <2> QED
    BY <2>1
<1> HIDE DEF Waits
<1> QED
  BY <1>1, <1>3, <1>4, StageStays DEF Waits

\* The parts of the children are in the part of the process, and apart.
LEMMA KidsInside ==
  ASSUME NEW p \in Process, prob_size(p) > Threshold
  PROVE  /\ Cells(leftkid(p)) \subseteq Cells(p)
         /\ Cells(rightkid(p)) \subseteq Cells(p)
         /\ Cells(leftkid(p)) \cap Cells(rightkid(p)) = {}
<1>1. /\ leftkid(p)[1] = p[1] /\ leftkid(p)[2] = rightkid(p)[1]
      /\ rightkid(p)[2] = p[2]
      /\ p[1] < leftkid(p)[2] /\ leftkid(p)[2] < p[2]
      /\ p[1] \in Nat /\ p[2] \in Nat /\ leftkid(p)[2] \in Nat
  BY Halves, Middle, Ends, ParSortAssumption
<1> QED
  BY <1>1 DEF Cells, begin, end

\* If an int can count the cells of a part, then those of its halves.
LEMMA KidsFit ==
  ASSUME NEW p \in Process, prob_size(p) > Threshold, CountFits(p)
  PROVE  CountFits(leftkid(p)) /\ CountFits(rightkid(p))
<1>1. /\ leftkid(p)[1] = p[1] /\ leftkid(p)[2] = rightkid(p)[1]
      /\ rightkid(p)[2] = p[2]
      /\ p[1] < leftkid(p)[2] /\ leftkid(p)[2] < p[2]
      /\ p[1] \in Nat /\ p[2] \in Nat /\ leftkid(p)[2] \in Nat
  BY Halves, Middle, Ends, ParSortAssumption
<1> QED
  BY <1>1, ParSortAssumption DEF CountFits, prob_size, begin, end

\* A part inside another has its cells.
LEMMA InsideCells ==
  ASSUME NEW p \in Process, NEW q \in Process, Inside(q, p)
  PROVE  Cells(q) \subseteq Cells(p)
<1>1. /\ p[1] \in Nat /\ p[2] \in Nat /\ q[1] \in Nat /\ q[2] \in Nat
  BY Ends, ParSortAssumption
<1> QED
  BY <1>1 DEF Inside, Cells, begin, end

\* A process that sorts or copies writes its own part, and spoils nothing for
\* the others.
LEMMA StageElsewhere ==
  ASSUME Inv, NEW q \in Process, pc[q] \in {"call", "copy"},
         \A i \in 0 .. Length - 1 : i \notin Cells(q) => mapped'[i] = mapped[i],
         input' = input, NEW x, pc' = [pc EXCEPT ![q] = x],
         pc'[q] = "ok" => Done(q)',
         NEW p \in Process, p # q, Stage(p), temp'[p] = temp[p], copied'[p] = copied[p]
  PROVE  Stage(p)'
<1>1. \A k \in Process : k # q => pc'[k] = pc[k]
  BY DEF Inv, PcOK
<1>2. \A k \in Process : Cells(k) \cap Cells(q) = {} => Untouched(k)
  <2> SUFFICES ASSUME NEW k \in Process, Cells(k) \cap Cells(q) = {}, NEW i \in Cells(k)
               PROVE  mapped'[i] = mapped[i]
    BY DEF Untouched
  <2>1. i \in 0 .. Length - 1 /\ i \notin Cells(q)
    <3>1. k[1] \in 0 .. Length /\ k[2] \in 0 .. Length
      BY Ends
    <3> QED
      BY <3>1, ParSortAssumption DEF Cells, begin, end
  <2> QED
    BY <2>1
<1>3. Born(q)
  BY DEF Born
<1>4. pc'[p] = pc[p]
  BY <1>1
<1>5. CASE ~ Born(p)
  <2>1. pc[p] = "unborn"
    BY <1>5 DEF Born
  <2> QED
    BY <2>1, <1>4, StageStays DEF Waits, Returns
<1>6. CASE Born(p) /\ Inside(p, q)
  <2>1. Below(p, q)
    BY <1>6 DEF Below
  <2>2. pc[q] = "copy"
    BY <1>6, <2>1 DEF Inv, NotYet
  <2>3. Above(pc[q], q, p)
    BY <1>6, <2>1 DEF Inv, AllDone
  <2>4. pc[p] = "ok"
    BY <2>2, <2>3 DEF Above
  <2>5. p # Root
    <3> SUFFICES ASSUME p = Root
                 PROVE  FALSE
      OBVIOUS
    <3>1. q[1] <= 0 /\ Length <= q[2] /\ q[1] \in 0 .. Length /\ q[2] \in 0 .. Length
          /\ q = <<q[1], q[2]>>
      BY <1>6, Ends DEF Inside, Root
    <3>2. q = <<0, Length>>
      BY <3>1, ParSortAssumption
    <3> QED
      BY <3>2 DEF Root
  <2> QED
    BY <2>4, <2>5, <1>4, StageStays DEF Waits, Returns
<1>7. CASE Born(p) /\ ~ Inside(p, q) /\ ~ Inside(q, p)
  <2>1. Apart(p, q)
    BY <1>3, <1>7 DEF Inv, Laminar
  <2>2. Cells(p) \cap Cells(q) = {}
    BY <2>1, ApartIsDisjoint
  <2>3. Untouched(p)
    BY <1>2, <2>2
  <2>4. ASSUME prob_size(p) > Threshold, NEW k \in {leftkid(p), rightkid(p)}
        PROVE  Untouched(k) /\ StillKept(k) /\ pc'[k] = pc[k]
    <3>1. k \in Process /\ Cells(k) \subseteq Cells(p)
      BY <2>4, Halves, KidsInside
    <3>2. Untouched(k)
      BY <1>2, <2>2, <3>1
    <3>3. k # q
      <4>1. q[1] \in Cells(q)
        <5>1. q[1] \in Nat /\ q[2] \in Nat /\ q[1] < q[2]
          BY Ends, ParSortAssumption
        <5> QED
          BY <5>1 DEF Cells, begin, end
      <4> QED
        BY <2>2, <3>1, <4>1
    <3> QED
      BY <1>1, <3>1, <3>2, <3>3 DEF StillKept
  <2>5. pc[p] \in {"fork_right", "merge"} \cup Waits => prob_size(p) > Threshold
    BY Kids DEF Stage
  <2> HIDE DEF Waits
  <2> QED
    BY <1>4, <2>3, <2>4, <2>5, StageStays DEF Waits
<1>8. CASE Born(p) /\ Inside(q, p)
  <2>1. Below(q, p)
    BY <1>8 DEF Below
  <2>2. pc[p] # "call"
    BY <1>3, <2>1 DEF Inv, NotYet
  <2>3. pc[p] \notin {"merge", "copy", "unmap", "ok"}
    <3>1. Above(pc[p], p, q)
      BY <1>3, <2>1 DEF Inv, AllDone
    <3> QED
      BY <3>1 DEF Above
  <2>4. ASSUME pc[p] \in {"fork_right"} \cup Waits, NEW k \in {leftkid(p), rightkid(p)}
        PROVE  StillKept(k)
    <3>1. k \in Process
      BY <2>4, Kids
    <3>2. CASE k = q
      BY <3>2 DEF StillKept
    <3>3. CASE k # q /\ Inside(q, k)
      <4>1. pc'[k] = pc[k] /\ Below(q, k)
        BY <1>1, <3>1, <3>3 DEF Below
      <4>2. Above(pc[k], k, q)
        BY <1>3, <3>1, <4>1 DEF Inv, AllDone
      <4>3. pc[k] # "ok"
        BY <4>2 DEF Above
      <4> QED
        BY <4>1, <4>3 DEF StillKept
    <3>4. CASE ~ Inside(q, k)
      <4>1. Inside(q, leftkid(p)) \/ Inside(q, rightkid(p))
        BY <1>3, <1>8, <2>1 DEF Inv, Children
      <4>2. prob_size(p) > Threshold
        BY <2>4, Kids
      <4>3. PICK o \in {leftkid(p), rightkid(p)} : Inside(q, o) /\ o # k
        BY <3>4, <4>1
      <4>4. Cells(o) \cap Cells(k) = {}
        BY <4>2, <4>3, KidsInside
      <4>5. Cells(q) \subseteq Cells(o)
        <5>1. o \in Process
          BY <2>4, Kids
        <5> QED
          BY <4>3, <5>1, InsideCells
      <4>6. Untouched(k)
        BY <1>2, <3>1, <4>4, <4>5
      <4>7. k # q
        <5>1. k[1] \in Nat /\ k[2] \in Nat
          BY <3>1, Ends, ParSortAssumption
        <5> QED
          BY <3>4, <5>1 DEF Inside
      <4> QED
        BY <1>1, <3>1, <4>6, <4>7 DEF StillKept
    <3> QED
      BY <3>2, <3>3, <3>4
  <2>5. pc[p] = "fork_right" => Untouched(rightkid(p))
    <3> SUFFICES ASSUME pc[p] = "fork_right"
                 PROVE  Untouched(rightkid(p))
      OBVIOUS
    <3>1. ~ Inside(q, rightkid(p))
      BY <1>3, <2>1 DEF Inv, NotYet
    <3>2. Inside(q, leftkid(p))
      BY <1>3, <1>8, <2>1, <3>1 DEF Inv, Children
    <3>3. prob_size(p) > Threshold /\ leftkid(p) \in Process /\ rightkid(p) \in Process
      BY Kids
    <3>4. Cells(q) \subseteq Cells(leftkid(p))
      BY <3>2, <3>3, InsideCells
    <3> QED
      BY <1>2, <3>3, <3>4, KidsInside
  <2>6. pc[p] = "wait_right" => pc'[leftkid(p)] = pc[leftkid(p)]
    <3> SUFFICES ASSUME pc[p] = "wait_right"
                 PROVE  pc'[leftkid(p)] = pc[leftkid(p)]
      OBVIOUS
    <3>1. leftkid(p) \in Process /\ pc[leftkid(p)] = "ok"
      BY Kids DEF Stage, Waits
    <3> QED
      BY <1>1, <3>1
  <2> QED
    BY <1>4, <2>2, <2>3, <2>4, <2>5, <2>6, StageStays DEF Waits, Returns
<1> QED
  BY <1>5, <1>6, <1>7, <1>8
-----------------------------------------------------------------------------
(***************************************************************************)
(* The steps, again.                                                       *)
(***************************************************************************)
LEMMA InitData == Init => Data
<1> SUFFICES ASSUME Init
             PROVE  Data
  OBVIOUS
<1>1. Inv
  BY InitInv
<1>2. /\ pc = [p \in Process |-> IF p = Root THEN "call" ELSE "unborn"]
      /\ temp = [p \in Process |-> << >>] /\ copied = [p \in Process |-> 0]
      /\ input \in Inputs /\ mapped = input /\ faulty = FALSE
  BY DEF Init
<1>3. Types
  <2>1. \A p \in Process : prob_size(p) \in Nat
    BY Ends, ParSortAssumption DEF prob_size, begin, end
  <2>2. \A p \in Process : copied[p] <= prob_size(p) /\ copied[p] <= IntMax + 1
    BY <1>2, <2>1, ParSortAssumption
  <2>3. mapped \in [0 .. Length - 1 -> Values]
    BY <1>2, ParSortAssumption
  <2>4. temp \in [Process -> Seq(Values)]
    <3>1. << >> \in Seq(Values)
      OBVIOUS
    <3> QED
      BY <1>2, <3>1
  <2>5. copied \in [Process -> Nat]
    BY <1>2
  <2> QED
    BY <1>2, <2>2, <2>3, <2>4, <2>5 DEF Types
<1>4. ASSUME NEW p \in Process
      PROVE  Stage(p)
  <2>1. Fresh(p) /\ copied[p] = 0 /\ pc[p] \in {"call", "unborn"}
    BY <1>2 DEF Fresh
  <2> QED
    BY <2>1 DEF Stage, Waits, Returns
<1> QED
  BY <1>1, <1>3, <1>4 DEF Data

\* The part of a process begins, ends and lies in the mapping.
LEMMA Sizes == ASSUME NEW p \in Process
               PROVE  /\ prob_size(p) \in Nat /\ begin(p) \in Nat /\ end(p) \in Nat
                      /\ end(p) = begin(p) + prob_size(p) /\ prob_size(p) > 0
                      /\ Cells(p) \subseteq 0 .. Length - 1
<1>1. p[1] \in Nat /\ p[2] \in Nat /\ p[1] < p[2] /\ p[2] <= Length
  BY Ends, ParSortAssumption
<1> QED
  BY <1>1, ParSortAssumption DEF prob_size, begin, end, Cells

\* A process goes to x and does nothing else.
LEMMA StepMoves ==
  ASSUME Data, Inv', NEW p \in Process, NEW x, pc' = [pc EXCEPT ![p] = x],
         pc[p] # "ok", x = "ok" => Done(p),
         Stage(p)', input' = input, mapped' = mapped, temp' = temp, copied' = copied,
         faulty' \in BOOLEAN
  PROVE  Data'
<1>1. \A k \in Process : pc'[k] = IF k = p THEN x ELSE pc[k]
  BY DEF Data, Inv, PcOK
<1>2. Types'
  BY DEF Data, Types
<1>3. Done(p)' <=> Done(p)
  BY DEF Done, Permuted
<1>4. ASSUME NEW q \in Process, q # p
      PROVE  Stage(q)'
  <2>1. /\ \A k \in Process : pc[k] = "ok" => pc'[k] = "ok"
        /\ \A k \in Process : pc'[k] = "ok" => pc[k] = "ok" \/ Done(k)'
    BY <1>1, <1>3
  <2>2. Inv /\ Stage(q) /\ pc'[q] = pc[q]
    BY <1>1, <1>4 DEF Data
  <2> QED
    BY <2>1, <2>2, StageQuiet
<1> QED
  BY <1>2, <1>4 DEF Data

\* A process ends, with an error.
LEMMA StepEnds ==
  ASSUME Data, Inv', NEW p \in Process, NEW x \in {"failed", "killed"},
         pc' = [pc EXCEPT ![p] = x], pc[p] # "ok",
         input' = input, mapped' = mapped, temp' = temp, copied' = copied, faulty' \in BOOLEAN
  PROVE  Data'
<1>1. pc'[p] = x
  BY DEF Data, Inv, PcOK
<1>2. Stage(p)'
  BY <1>1 DEF Stage, Waits, Returns
<1> QED
  BY <1>2, StepMoves

\* A child starts on cells that are as they were in the file.
LEMMA StepForks ==
  ASSUME Data, Inv', NEW p \in Process, prob_size(p) > Threshold, NEW kid, NEW next,
         \/ pc[p] = "call" /\ next = "fork_right" /\ kid = leftkid(p)
         \/ pc[p] = "fork_right" /\ next = "wait_left" /\ kid = rightkid(p),
         pc' = [pc EXCEPT ![p] = next, ![kid] = "call"],
         UNCHANGED <<input, mapped, temp, copied, faulty>>
  PROVE  Data'
<1>1. /\ kid \in Process /\ kid # p
      /\ leftkid(p) \in Process /\ rightkid(p) \in Process
      /\ leftkid(p) # p /\ rightkid(p) # p /\ Inside(kid, p)
  <2>1. p[1] \in Nat /\ p[2] \in Nat
    BY Ends, ParSortAssumption
  <2> QED
    BY <2>1, Halves, Middle DEF Inside
<1>2. leftkid(p) # rightkid(p)
  BY Halves, Middle
<1>3. pc[kid] = "unborn"
  <2> SUFFICES ASSUME Born(kid)
               PROVE  FALSE
    BY DEF Born
  <2>1. Below(kid, p)
    BY <1>1 DEF Below
  <2>2. kid = rightkid(p)
    BY <2>1, <1>1 DEF Data, Inv, NotYet
  <2>3. ~ Inside(kid, rightkid(p))
    BY <2>1, <2>2, <1>1 DEF Data, Inv, NotYet
  <2>4. kid[1] \in Nat /\ kid[2] \in Nat
    BY <1>1, Ends, ParSortAssumption
  <2> QED
    BY <2>2, <2>3, <2>4 DEF Inside
<1>4. \A q \in Process : pc'[q] = IF q = kid THEN "call" ELSE IF q = p THEN next ELSE pc[q]
  BY <1>1 DEF Data, Inv, PcOK
<1>5. Types'
  BY DEF Data, Types
<1>6. \A q : (Fresh(q)' <=> Fresh(q)) /\ (Done(q)' <=> Done(q))
  BY DEF Fresh, Done, Permuted
<1>7. Stage(p) /\ Stage(kid)
  BY <1>1 DEF Data
<1>8. Fresh(kid)
  <2>1. CASE pc[p] = "call"
    <3>1. Fresh(p) /\ kid = leftkid(p)
      BY <1>7, <2>1 DEF Stage
    <3> QED
      BY <3>1, KidsInside DEF Fresh
  <2>2. CASE pc[p] = "fork_right"
    BY <1>7, <2>2 DEF Stage
  <2> QED
    BY <2>1, <2>2
<1>9. Stage(kid)'
  <2>1. pc'[kid] = "call" /\ copied'[kid] = 0
    BY <1>3, <1>4, <1>1, <1>7 DEF Stage
  <2> QED
    BY <1>6, <1>8, <2>1 DEF Stage, Waits, Returns
<1>10. Stage(p)'
  <2>1. pc'[p] = next /\ copied'[p] = 0
    BY <1>1, <1>4, <1>7 DEF Stage
  <2>2. CASE next = "fork_right"
    <3>1. Fresh(rightkid(p))
      BY <1>7, <2>2, KidsInside DEF Stage, Fresh
    <3>2. Kept(leftkid(p))'
      BY <1>1, <1>4, <2>2 DEF Kept
    <3> QED
      BY <1>6, <2>1, <2>2, <3>1, <3>2 DEF Stage, Waits, Returns
  <2>3. CASE next = "wait_left"
    <3>1. Kept(leftkid(p))' /\ Kept(rightkid(p))'
      <4>1. Kept(leftkid(p))
        BY <1>7, <2>3 DEF Stage
      <4>2. pc'[rightkid(p)] = "call" /\ pc'[leftkid(p)] = pc[leftkid(p)]
        BY <1>1, <1>2, <1>4, <2>3
      <4> QED
        BY <1>6, <4>1, <4>2 DEF Kept
    <3> QED
      BY <1>6, <2>1, <2>3, <3>1 DEF Stage, Waits, Returns
  <2> QED
    BY <2>2, <2>3
<1>11. ASSUME NEW q \in Process, q # p, q # kid
       PROVE  Stage(q)'
  <2>1. ASSUME NEW k \in Process
        PROVE  pc[k] = "ok" <=> pc'[k] = "ok"
    <3>1. pc[p] # "ok" /\ next # "ok"
      OBVIOUS
    <3>2. CASE k = kid
      <4>1. pc[k] = "unborn" /\ pc'[k] = "call"
        BY <1>3, <1>4, <3>2
      <4> QED
        BY <4>1
    <3>3. CASE k # kid
      BY <1>4, <3>1, <3>3
    <3> QED
      BY <3>2, <3>3
  <2>2. Inv /\ Stage(q) /\ pc'[q] = pc[q]
    BY <1>4, <1>11 DEF Data
  <2> QED
    BY <2>1, <2>2, StageQuiet
<1> QED
  BY <1>5, <1>9, <1>10, <1>11 DEF Data

\* qsort leaves the part sorted.
LEMMA StepSorts ==
  ASSUME Data, Inv', NEW p \in Process, SortSequentially(p)
  PROVE  Data'
<1>1. /\ pc[p] = "call" /\ pc' = [pc EXCEPT ![p] = Returned(p)]
      /\ UNCHANGED <<input, temp, copied, faulty>>
  BY DEF SortSequentially, Goto
<1>2. PICK part \in [Cells(p) -> Values] :
        /\ Sorted(part, p) /\ Permuted(part, mapped, p)
        /\ mapped' = [i \in DOMAIN mapped |-> IF i \in Cells(p) THEN part[i] ELSE mapped[i]]
  BY DEF SortSequentially, qsort
<1>3. Stage(p) /\ Inv /\ Types
  BY DEF Data
<1>4. /\ mapped \in [0 .. Length - 1 -> Values]
      /\ mapped' \in [0 .. Length - 1 -> Values]
      /\ \A i \in Cells(p) : mapped'[i] = part[i]
      /\ \A i \in 0 .. Length - 1 : i \notin Cells(p) => mapped'[i] = mapped[i]
  <2>1. mapped \in [0 .. Length - 1 -> Values] /\ Cells(p) \subseteq 0 .. Length - 1
    BY <1>3, Sizes DEF Types
  <2> QED
    BY <1>2, <2>1
<1>5. Done(p)'
  <2> DEFINE b == mapped'
  <2>1. \A i \in Cells(p) : b[i] = part[i]
    BY <1>4
  <2>2. \A i \in Cells(p) : mapped[i] = input[i]
    BY <1>1, <1>3 DEF Stage, Fresh
  <2> HIDE DEF b
  <2>3. /\ Sorted(b, p) <=> Sorted(part, p)
        /\ \A v : Copies(b, p, v) = Copies(part, p, v)
    BY <2>1, SameCells
  <2>4. \A v : Copies(mapped, p, v) = Copies(input, p, v)
    BY <2>2, SameCells
  <2>5. Sorted(b, p) /\ Permuted(b, input, p)
    BY <1>2, <2>3, <2>4 DEF Permuted
  <2> QED
    BY <1>1, <2>5 DEF Done, b, Permuted
<1>6. pc'[p] = Returned(p) /\ Returned(p) \in {"unmap", "ok"}
  BY <1>1, <1>3 DEF Returned, Inv, PcOK
<1>7. Stage(p)'
  <2>1. copied'[p] = 0
    BY <1>1, <1>3 DEF Stage
  <2> QED
    BY <1>5, <1>6, <2>1 DEF Stage, Waits
<1>8. ASSUME NEW q \in Process, q # p
      PROVE  Stage(q)'
  <2>1. Stage(q) /\ pc[p] \in {"call", "copy"} /\ temp'[q] = temp[q] /\ copied'[q] = copied[q]
        /\ input' = input
    BY <1>1 DEF Data
  <2> HIDE DEF Returned
  <2> QED
    BY <1>1, <1>3, <1>4, <1>5, <1>8, <2>1, StageElsewhere
<1>9. Types'
  BY <1>1, <1>3, <1>4 DEF Types
<1> QED
  BY <1>7, <1>8, <1>9 DEF Data

\* After merge, temp is what the part will be.
LEMMA StepMerges ==
  ASSUME Data, Inv', NEW p \in Process, merge(p)
  PROVE  Data'
<1>1. /\ pc[p] = "merge" /\ pc' = [pc EXCEPT ![p] = "copy"]
      /\ temp' = [temp EXCEPT ![p] = Merged(mapped, p)]
      /\ UNCHANGED <<input, mapped, copied, faulty>>
  BY DEF merge, Goto
<1>2. Stage(p) /\ Inv /\ Types
  BY DEF Data
<1>3. /\ prob_size(p) > Threshold
      /\ Done(leftkid(p)) /\ Done(rightkid(p)) /\ copied[p] = 0
  BY <1>1, <1>2 DEF Stage
<1>4. mapped \in [0 .. Length - 1 -> Values]
  BY <1>2 DEF Types
<1> DEFINE d == Merged(mapped, p)
           N == prob_size(p)
           b == begin(p)
<1>5. /\ d \in Seq(Values) /\ Len(d) = N
      /\ CountFits(p) => InOrder(d, N)
      /\ \E f : /\ Rearranges(f, Cells(p), Cells(p))
                /\ \A i \in Cells(p) : d[i - b + 1] = mapped[f[i]]
  <2>1. CountFits(p) => Sorted(mapped, leftkid(p)) /\ Sorted(mapped, rightkid(p))
    BY <1>3, KidsFit DEF Done
  <2> QED
    BY <1>3, <1>4, <2>1, MergedRight
<1>6. temp'[p] = d /\ \A q \in Process : q # p => temp'[q] = temp[q]
  BY <1>1, <1>2 DEF Types
<1> HIDE DEF d
<1> DEFINE R == [i \in Cells(p) |-> d[i - b + 1]]
<1>7. Result(p)' = R
  BY <1>6 DEF Result
<1>8. CountFits(p) => Sorted(R, p)
  <2> SUFFICES ASSUME CountFits(p), NEW i \in Cells(p), i + 1 \in Cells(p)
               PROVE  R[i] <= R[i + 1]
    BY DEF Sorted
  <2>1. /\ i - b + 1 \in 1 .. N /\ (i - b + 1) + 1 \in 1 .. N
        /\ (i + 1) - b + 1 = (i - b + 1) + 1
    <3>1. b \in Nat /\ N \in Nat /\ Cells(p) = b .. b + N - 1
      BY Sizes DEF Cells
    <3> HIDE DEF b, N
    <3> QED
      BY <3>1
  <2>2. d[i - b + 1] <= d[(i - b + 1) + 1]
    BY <1>5, <2>1 DEF InOrder
  <2> QED
    BY <2>1, <2>2
<1>9. CountFits(p) => Permuted(R, input, p)
  <2> SUFFICES ASSUME CountFits(p), NEW v \in Values
               PROVE  Copies(R, p, v) = Copies(input, p, v)
    BY DEF Permuted
  <2>1. Copies(R, p, v) = Copies(mapped, p, v)
    <3>1. PICK f : /\ Rearranges(f, Cells(p), Cells(p))
                   /\ \A i \in Cells(p) : d[i - b + 1] = mapped[f[i]]
      BY <1>5
    <3>2. \A i \in Cells(p) : R[i] = mapped[f[i]]
      BY <3>1
    <3> HIDE DEF R
    <3> QED
      BY <3>1, <3>2, CopiesRearranged
  <2>2. /\ Copies(mapped, leftkid(p), v) = Copies(input, leftkid(p), v)
        /\ Copies(mapped, rightkid(p), v) = Copies(input, rightkid(p), v)
    BY <1>3, KidsFit DEF Done, Permuted
  <2>3. /\ Copies(mapped, p, v) = Copies(mapped, leftkid(p), v) + Copies(mapped, rightkid(p), v)
        /\ Copies(input, p, v) = Copies(input, leftkid(p), v) + Copies(input, rightkid(p), v)
    BY <1>3, CopiesOfHalves
  <2> QED
    BY <2>1, <2>2, <2>3
<1>10. CopyOK(p)'
  <2>1. Len(temp'[p]) = prob_size(p)
    BY <1>5, <1>6
  <2>2. \A i \in Cells(p) : ~ (i < begin(p) + copied'[p])
    BY <1>1, <1>3, Sizes DEF Cells
  <2>3. CountFits(p) => Sorted(Result(p), p)' /\ Permuted(Result(p), input, p)'
    <3> HIDE DEF R
    <3>1. input' = input
      BY <1>1
    <3> QED
      BY <1>7, <1>8, <1>9, <3>1 DEF Sorted, Permuted, Copies
  <2> QED
    BY <1>3, <2>1, <2>2, <2>3 DEF CopyOK
<1>11. Stage(p)'
  <2>1. pc'[p] = "copy"
    BY <1>1, <1>2 DEF Inv, PcOK
  <2> QED
    BY <1>10, <2>1 DEF Stage, Waits, Returns
<1>12. ASSUME NEW q \in Process, q # p
       PROVE  Stage(q)'
  <2>1. \A k \in Process : (pc'[k] = "ok" => pc[k] = "ok") /\ (pc[k] = "ok" => pc'[k] = "ok")
    BY <1>1, <1>2 DEF Inv, PcOK
  <2>2. Stage(q) /\ pc'[q] = pc[q] /\ temp'[q] = temp[q] /\ copied'[q] = copied[q]
    BY <1>1, <1>2, <1>6, <1>12 DEF Data, Inv, PcOK
  <2> QED
    BY <1>1, <1>2, <2>1, <2>2, StageQuiet
<1>13. Types'
  <2>1. temp' \in [Process -> Seq(Values)]
    BY <1>1, <1>2, <1>5 DEF Types, d
  <2> QED
    BY <1>1, <1>2, <2>1 DEF Types
<1> QED
  BY <1>11, <1>12, <1>13 DEF Data

\* A cell is copied back, and it is what is known of the part that grows.
LEMMA StepCopies ==
  ASSUME Data, Inv', NEW p \in Process, CopyBack(p), ~ LoopEnds(p), pc' = pc
  PROVE  Data'
<1>1. Stage(p) /\ Inv /\ Types
  BY DEF Data
<1>2. pc[p] = "copy" /\ UNCHANGED <<input, faulty>>
  BY DEF CopyBack, Goto
<1>3. /\ mapped' = [mapped EXCEPT ![begin(p) + copied[p]] = temp[p][copied[p] + 1]]
      /\ copied' = [copied EXCEPT ![p] = copied[p] + 1]
      /\ temp' = temp
  BY DEF CopyBack
<1>4. CopyOK(p)
  BY <1>1, <1>2 DEF Stage
<1> DEFINE c == copied[p]
           b == begin(p)
           N == prob_size(p)
<1>5. c \in Nat /\ b \in Nat /\ N \in Nat /\ c < N /\ c < IntMax + 1
  BY <1>1, Sizes, ParSortAssumption DEF Types, LoopEnds
<1>6. b + c \in Cells(p) /\ (b + c) - b + 1 = c + 1 /\ c + 1 \in 1 .. N
  <2>1. Cells(p) = b .. b + N - 1
    BY Sizes DEF Cells
  <2> HIDE DEF b, c, N
  <2> QED
    BY <1>5, <2>1
<1>7. temp[p][c + 1] \in Values
  <2>1. temp[p] \in Seq(Values) /\ Len(temp[p]) = N
    BY <1>1, <1>4 DEF Types, CopyOK
  <2> HIDE DEF c, N
  <2> QED
    BY <1>6, <2>1
<1>8. b + c \in 0 .. Length - 1
  BY <1>6, Sizes
<1>9. /\ mapped' \in [0 .. Length - 1 -> Values]
      /\ mapped'[b + c] = temp[p][c + 1]
      /\ \A i \in 0 .. Length - 1 : i # b + c => mapped'[i] = mapped[i]
  <2>1. mapped \in [0 .. Length - 1 -> Values]
    BY <1>1 DEF Types
  <2> QED
    BY <1>3, <1>7, <1>8, <2>1
<1>10. Types'
  <2>1. copied' \in [Process -> Nat]
    BY <1>1, <1>3 DEF Types
  <2>2. ASSUME NEW q \in Process
        PROVE  copied'[q] <= prob_size(q) /\ copied'[q] <= IntMax + 1
    BY <1>1, <1>3, <1>5, ParSortAssumption DEF Types
  <2> QED
    BY <1>1, <1>2, <1>3, <1>9, <2>1, <2>2 DEF Types
<1>11. CopyOK(p)'
  <2>1. Result(p)' = Result(p)
    BY <1>3 DEF Result
  <2>2. ASSUME NEW i \in Cells(p), i < b + copied'[p]
        PROVE  mapped'[i] = Result(p)[i]
    <3>1. copied'[p] = c + 1
      BY <1>1, <1>3 DEF Types
    <3>2. CASE i = b + c
      BY <1>6, <1>9, <3>2 DEF Result
    <3>3. CASE i # b + c
      <4>1. i < b + c /\ i \in 0 .. Length - 1
        <5>1. i \in 0 .. Length - 1
          BY Sizes
        <5> HIDE DEF b, c
        <5> QED
          BY <1>5, <2>2, <3>1, <3>3, <5>1
      <4>2. mapped[i] = Result(p)[i]
        BY <1>4, <4>1 DEF CopyOK
      <4> QED
        BY <1>9, <3>3, <4>1, <4>2
    <3> QED
      BY <3>2, <3>3
  <2>3. /\ Len(temp'[p]) = prob_size(p)
        /\ CountFits(p) => Sorted(Result(p), p) /\ Permuted(Result(p), input, p)
    BY <1>3, <1>4 DEF CopyOK
  <2> HIDE DEF Result
  <2>4. CountFits(p) => Sorted(Result(p), p)' /\ Permuted(Result(p), input, p)'
    BY <1>2, <2>1, <2>3 DEF Sorted, Permuted, Copies
  <2> QED
    BY <1>4, <2>1, <2>2, <2>3, <2>4 DEF CopyOK
<1>12. Stage(p)'
  BY <1>2, <1>11 DEF Stage, Waits, Returns
<1>13. ASSUME NEW q \in Process, q # p
       PROVE  Stage(q)'
  <2>1. \A i \in 0 .. Length - 1 : i \notin Cells(p) => mapped'[i] = mapped[i]
    BY <1>6, <1>9
  <2>2. pc' = [pc EXCEPT ![p] = "copy"] /\ pc'[p] # "ok"
    BY <1>1, <1>2 DEF Inv, PcOK
  <2>3. Stage(q) /\ temp'[q] = temp[q] /\ copied'[q] = copied[q]
    BY <1>1, <1>3, <1>13 DEF Data, Types
  <2> QED
    BY <1>1, <1>2, <1>13, <2>1, <2>2, <2>3, StageElsewhere
<1> QED
  BY <1>10, <1>12, <1>13 DEF Data

\* The loop ends: all cells are copied, if an int can count them.
LEMMA StepReturns ==
  ASSUME Data, Inv', NEW p \in Process, CopyBack(p), LoopEnds(p)
  PROVE  Data'
<1>1. Stage(p) /\ Inv /\ Types
  BY DEF Data
<1>2. /\ pc[p] = "copy" /\ pc' = [pc EXCEPT ![p] = Returned(p)]
      /\ temp' = [temp EXCEPT ![p] = << >>]
      /\ copied' = [copied EXCEPT ![p] = 0]
      /\ mapped' = mapped /\ UNCHANGED <<input, faulty>>
  BY DEF CopyBack, Goto
<1>3. CopyOK(p)
  BY <1>1, <1>2 DEF Stage
<1>4. Done(p)
  <2> SUFFICES ASSUME CountFits(p)
               PROVE  Sorted(mapped, p) /\ Permuted(mapped, input, p)
    BY DEF Done
  <2>6. copied[p] = prob_size(p)
    <3>1. prob_size(p) > Threshold
      BY <1>3 DEF CopyOK
    <3> QED
      BY <1>1, <3>1, Sizes, ParSortAssumption DEF CountFits, LoopEnds, Types
  <2> DEFINE R == Result(p)
  <2>1. ASSUME NEW i \in Cells(p)
        PROVE  R[i] = mapped[i]
    <3>1. i < begin(p) + copied[p]
      <4>1. Cells(p) = begin(p) .. begin(p) + prob_size(p) - 1
        BY Sizes DEF Cells
      <4> QED
        BY <2>6, <4>1, Sizes
    <3> QED
      BY <1>3, <3>1 DEF CopyOK
  <2>2. Sorted(R, p) /\ Permuted(R, input, p)
    BY <1>3 DEF CopyOK
  <2> DEFINE a == mapped
  <2>3. \A i \in Cells(p) : R[i] = a[i]
    BY <2>1
  <2> HIDE DEF R, a
  <2>4. /\ Sorted(R, p) <=> Sorted(a, p)
        /\ \A v : Copies(R, p, v) = Copies(a, p, v)
    BY <2>3, SameCells
  <2>5. Sorted(a, p) /\ Permuted(a, input, p)
    BY <2>2, <2>4 DEF Permuted
  <2> QED
    BY <2>5 DEF a
<1>5. Done(p)'
  BY <1>2, <1>4 DEF Done, Permuted
<1>6. pc'[p] = Returned(p) /\ Returned(p) \in {"unmap", "ok"} /\ copied'[p] = 0
  BY <1>1, <1>2 DEF Returned, Inv, PcOK, Types
<1>7. Stage(p)'
  BY <1>5, <1>6 DEF Stage, Waits
<1>8. ASSUME NEW q \in Process, q # p
      PROVE  Stage(q)'
  <2>1. Stage(q) /\ temp'[q] = temp[q] /\ copied'[q] = copied[q]
    BY <1>1, <1>2, <1>8 DEF Data, Types
  <2> HIDE DEF Returned
  <2> QED
    BY <1>1, <1>2, <1>5, <1>8, <2>1, StageElsewhere
<1>9. Types'
  <2>1. temp' \in [Process -> Seq(Values)]
    <3>1. << >> \in Seq(Values)
      OBVIOUS
    <3> QED
      BY <1>1, <1>2, <3>1 DEF Types
  <2>2. copied' \in [Process -> Nat]
    BY <1>1, <1>2 DEF Types
  <2>3. \A q \in Process : copied'[q] <= prob_size(q) /\ copied'[q] <= IntMax + 1
    BY <1>1, <1>2, Sizes, ParSortAssumption DEF Types
  <2> QED
    BY <1>1, <1>2, <2>1, <2>2, <2>3 DEF Types
<1> QED
  BY <1>7, <1>8, <1>9 DEF Data

\* A process waits for a child that has ended.
LEMMA StepWaits ==
  ASSUME Data, Inv', NEW p \in Process, WaitLeft(p) \/ WaitRight(p)
  PROVE  Data'
<1>1. Stage(p) /\ Inv /\ Types
  BY DEF Data
<1>2. /\ UNCHANGED <<input, mapped, temp, copied, faulty>>
      /\ \/ pc' = [pc EXCEPT ![p] = "failed"]
         \/ /\ pc[p] = "wait_left" /\ pc[leftkid(p)] = "ok"
            /\ pc' = [pc EXCEPT ![p] = "wait_right"]
         \/ /\ pc[p] = "wait_right" /\ pc[rightkid(p)] = "ok"
            /\ pc' = [pc EXCEPT ![p] = "merge"]
      /\ pc[p] \in Waits
  BY DEF WaitLeft, WaitRight, Wait, Goto, ExitedWithZero, Waits
<1>3. /\ pc[p] # "ok" /\ faulty' \in BOOLEAN
      /\ input' = input /\ mapped' = mapped /\ temp' = temp /\ copied' = copied
  BY <1>1, <1>2 DEF Waits, Types
<1>4. CASE pc' = [pc EXCEPT ![p] = "failed"]
  BY <1>3, <1>4, StepEnds
<1>5. /\ prob_size(p) > Threshold /\ leftkid(p) \in Process /\ rightkid(p) \in Process
      /\ leftkid(p) # p /\ rightkid(p) # p
  BY <1>1, <1>2, Kids, Halves
<1>6. \A q : Done(q)' <=> Done(q)
  BY <1>3 DEF Done, Permuted
<1>7. \A k \in Process : k # p => pc'[k] = pc[k]
  BY <1>1, <1>2 DEF Inv, PcOK
<1>8. CASE /\ pc[p] = "wait_left" /\ pc[leftkid(p)] = "ok"
           /\ pc' = [pc EXCEPT ![p] = "wait_right"]
  <2>1. pc'[p] = "wait_right" /\ pc'[leftkid(p)] = "ok" /\ copied'[p] = 0
    BY <1>1, <1>3, <1>5, <1>7, <1>8 DEF Inv, PcOK, Stage
  <2>2. Kept(leftkid(p))' /\ Kept(rightkid(p))'
    BY <1>1, <1>2, <1>5, <1>6, <1>7 DEF Stage, Kept
  <2>3. Stage(p)'
    BY <2>1, <2>2 DEF Stage, Waits, Returns
  <2> QED
    BY <1>3, <1>8, <2>3, StepMoves
<1>9. CASE /\ pc[p] = "wait_right" /\ pc[rightkid(p)] = "ok"
           /\ pc' = [pc EXCEPT ![p] = "merge"]
  <2>1. pc'[p] = "merge" /\ copied'[p] = 0
    BY <1>1, <1>3, <1>9 DEF Inv, PcOK, Stage
  <2>2. Done(leftkid(p))' /\ Done(rightkid(p))'
    BY <1>1, <1>2, <1>6, <1>9 DEF Stage, Kept
  <2>3. Stage(p)'
    BY <1>5, <2>1, <2>2 DEF Stage, Waits, Returns
  <2> QED
    BY <1>3, <1>9, <2>3, StepMoves
<1> QED
  BY <1>2, <1>4, <1>8, <1>9

LEMMA StepData == Data /\ [Next]_vars => Data'
<1> SUFFICES ASSUME Data, [Next]_vars
             PROVE  Data'
  OBVIOUS
<1>0. Inv /\ Inv' /\ Types
  BY StepInv DEF Data
<1>1. CASE UNCHANGED vars
  <2>1. Types'
    BY <1>0, <1>1 DEF Types, vars
  <2>2. ASSUME NEW p \in Process
        PROVE  Stage(p)'
    <3>1. /\ pc' = pc /\ temp' = temp /\ copied' = copied
          /\ input' = input /\ mapped' = mapped /\ Stage(p)
      BY <1>1 DEF vars, Data
    <3> QED
      BY <1>0, <3>1, StageQuiet
  <2> QED
    BY <1>0, <2>1, <2>2 DEF Data
<1>2. ASSUME NEW p \in Process, NEW from, Fails(p, from), from # "ok"
      PROVE  Data'
  <2>1. /\ pc[p] # "ok" /\ pc' = [pc EXCEPT ![p] = "failed"]
        /\ faulty' \in BOOLEAN
        /\ input' = input /\ mapped' = mapped /\ temp' = temp /\ copied' = copied
    BY <1>2 DEF Fails, Goto
  <2> QED
    BY <1>0, <2>1, StepEnds
<1>3. ASSUME NEW p \in Process, SortSequentially(p)
      PROVE  Data'
  BY <1>0, <1>3, StepSorts
<1>4. ASSUME NEW p \in Process, ForkLeft(p)
      PROVE  Data'
  <2>1. CASE Fork(p, "call", leftkid(p), "fork_right")
    <3>1. /\ pc[p] = "call" /\ prob_size(p) > Threshold
          /\ pc' = [pc EXCEPT ![p] = "fork_right", ![leftkid(p)] = "call"]
          /\ UNCHANGED <<input, mapped, temp, copied, faulty>>
      BY <1>4, <2>1 DEF ForkLeft, Fork
    <3> QED
      BY <1>0, <3>1, StepForks
  <2>2. CASE Fails(p, "call")
    BY <1>2, <2>2
  <2> QED
    BY <1>4, <2>1, <2>2 DEF ForkLeft
<1>5. ASSUME NEW p \in Process, ForkRight(p)
      PROVE  Data'
  <2>1. CASE Fork(p, "fork_right", rightkid(p), "wait_left")
    <3>1. /\ pc[p] = "fork_right"
          /\ pc' = [pc EXCEPT ![p] = "wait_left", ![rightkid(p)] = "call"]
          /\ UNCHANGED <<input, mapped, temp, copied, faulty>>
      BY <2>1 DEF Fork
    <3>2. prob_size(p) > Threshold
      BY <1>0, <3>1 DEF Inv, Large
    <3> QED
      BY <1>0, <3>1, <3>2, StepForks
  <2>2. CASE Fails(p, "fork_right")
    BY <1>2, <2>2
  <2> QED
    BY <1>5, <2>1, <2>2 DEF ForkRight
<1>6. ASSUME NEW p \in Process, WaitLeft(p) \/ WaitRight(p)
      PROVE  Data'
  BY <1>0, <1>6, StepWaits
<1>7. ASSUME NEW p \in Process, merge(p)
      PROVE  Data'
  BY <1>0, <1>7, StepMerges
<1>8. ASSUME NEW p \in Process, CopyBack(p)
      PROVE  Data'
  <2>1. CASE ~ LoopEnds(p)
    <3>1. pc' = pc
      BY <1>8, <2>1 DEF CopyBack
    <3> QED
      BY <1>0, <1>8, <2>1, <3>1, StepCopies
  <2>2. CASE LoopEnds(p)
    BY <1>0, <1>8, <2>2, StepReturns
  <2> QED
    BY <2>1, <2>2
<1>9. CASE Unmap
  <2>1. Root \in Process
    BY ParSortAssumption DEF Root, Process
  <2>2. CASE Fails(Root, "unmap")
    BY <1>2, <2>1, <2>2
  <2>3. CASE Goto(Root, "unmap", "ok") /\ UNCHANGED <<input, mapped, temp, copied, faulty>>
    <3>1. Stage(Root) /\ pc[Root] = "unmap" /\ pc' = [pc EXCEPT ![Root] = "ok"]
      BY <2>1, <2>3 DEF Data, Goto
    <3>2. Done(Root)
      BY <3>1 DEF Stage, Returns
    <3>3. pc'[Root] = "ok"
      BY <1>0, <2>1, <3>1 DEF Inv, PcOK
    <3>4. Done(Root)'
      BY <2>3, <3>2 DEF Done, Permuted
    <3>5. Stage(Root)'
      BY <3>3, <3>4 DEF Stage, Waits
    <3>6. /\ input' = input /\ mapped' = mapped /\ temp' = temp /\ copied' = copied
          /\ faulty' \in BOOLEAN
      BY <1>0, <2>3 DEF Types
    <3> QED
      BY <1>0, <2>1, <3>1, <3>2, <3>5, <3>6, StepMoves
  <2> QED
    BY <1>9, <2>2, <2>3 DEF Unmap
<1>10. ASSUME NEW p \in Process, WaitFails(p)
       PROVE  Data'
  BY <1>2, <1>10 DEF WaitFails
<1>11. ASSUME NEW p \in Process, Killed(p)
       PROVE  Data'
  <2>1. /\ pc[p] # "ok" /\ pc' = [pc EXCEPT ![p] = "killed"]
        /\ faulty' \in BOOLEAN
        /\ input' = input /\ mapped' = mapped /\ temp' = temp /\ copied' = copied
    BY <1>11 DEF Killed, Running, Ended
  <2> QED
    BY <1>0, <2>1, StepEnds
<1> QED
  BY <1>1, <1>3, <1>4, <1>5, <1>6, <1>7, <1>8, <1>9, <1>10, <1>11
  DEF Next, merge_sort, Finished

\* What Stage says of each process is the case at every moment.
THEOREM DataRight == Spec => []Data
BY InitData, StepData, PTL DEF Spec

\* Every variable keeps its type: merge fills the array temp of malloc exactly,
\* and the copy back neither leaves temp nor the part.
THEOREM TypeCorrect == Spec => []TypeOK
<1>1. Data => TypeOK
  <2> SUFFICES ASSUME Data
               PROVE  TypeOK
    OBVIOUS
  <2>1. pc \in [Process -> {"unborn", "call", "fork_right", "wait_left", "wait_right",
                            "merge", "copy", "unmap"} \cup Ended]
    BY DEF Data, Inv, PcOK, Points, Ended
  <2>2. ASSUME NEW p \in Process
        PROVE  /\ temp[p] \in Seq(Values)
               /\ copied[p] \in 0 .. prob_size(p) /\ copied[p] <= IntMax + 1
               /\ pc[p] = "copy" => Len(temp[p]) = prob_size(p)
    BY Sizes DEF Data, Types, Stage, CopyOK
  <2> QED
    BY <2>1, <2>2 DEF Data, Types, TypeOK
<1> QED
  BY <1>1, DataRight, PTL

\* Exit code 0 means that the file is sorted and has in it what it had before,
\* for every threshold, every content and every length that an int can count (or
\* that is not above the threshold), whatever fails or is killed on the way; and
\* is_sorted says of every file, however long, whether it is sorted.
THEOREM ExitZeroIsSorted == Spec => []SortedWhenZero
<1>1. Data => SortedWhenZero
  <2> SUFFICES ASSUME Data
               PROVE  SortedWhenZero
    OBVIOUS
  <2>1. pc[Root] = "ok" => Done(Root)
    <3>1. Root \in Process
      BY ParSortAssumption DEF Root, Process
    <3>2. Stage(Root)
      BY <3>1 DEF Data
    <3> QED
      BY <3>2 DEF Stage, Returns
  <2>2. is_sorted(mapped) <=> Sorted(mapped, Root)
    BY IsSortedRight DEF Data, Types
  <2> QED
    BY <2>1, <2>2 DEF Done, SortedWhenZero, SortedAsBefore
<1> QED
  BY <1>1, DataRight, PTL
=============================================================================
