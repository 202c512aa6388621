----------------------------- MODULE MCParSort -----------------------------
(* ParSort on six cells with threshold 2: both halves have three cells and *)
(* are halved again, so that there are seven processes on three levels.    *)
(* The largest int is 5, just enough to count the cells of the file.       *)
(* Among the inputs are a sorted and a descending one, equal cells within  *)
(* and across the halves, and halves one of which comes before the other.  *)
EXTENDS ParSort

MCValues == 1 .. 3
Array(s) == [i \in 0 .. 5 |-> s[i + 1]]
MCInputs == {Array(<<3, 3, 2, 2, 1, 1>>), Array(<<2, 3, 1, 3, 1, 2>>),
             Array(<<1, 3, 2, 1, 2, 3>>), Array(<<1, 1, 1, 2, 3, 3>>),
             Array(<<2, 1, 3, 2, 2, 2>>), Array(<<2, 2, 2, 1, 3, 1>>),
             Array(<<3, 1, 1, 3, 2, 3>>), Array(<<2, 2, 2, 2, 2, 2>>)}
=============================================================================
