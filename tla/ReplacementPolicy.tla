-------------------------- MODULE ReplacementPolicy --------------------------
(***************************************************************************)
(* What a cache simulator computes.  A set of the cache is a list of       *)
(* blocks; the last of them has to go when a block is brought into a full  *)
(* set, and a block that holds something main memory does not is written   *)
(* back as it goes.  Under lru a block that is used becomes the first of   *)
(* its list, under fifo the lists are in the order of arrival.  Cache      *)
(* implements this with a counter and a dirty bit per block.               *)
(***************************************************************************)
EXTENDS Naturals, Sequences, SequencesExt

CONSTANTS Geometry,    \* the values of size
          Policy,      \* the values of policy
          Tag

VARIABLES size, policy,
          order,       \* order[i]: the blocks of set i, the next to go last
          unsaved,     \* the <<set, block>> main memory has an old copy of
          cycles

Held(i, t) == Contains(order[i], t)
Transfer == 25 * size.byteNum
Victims(i) == IF Len(order[i]) = size.blockNum THEN {Last(order[i])} ELSE {}
Kept(i) == IF Len(order[i]) = size.blockNum THEN Front(order[i]) ELSE order[i]
Lost(i) == {<<i, t>> : t \in Victims(i)}

Use(i, t) ==
  \/ /\ policy.lru
     /\ \E p \in DOMAIN order[i] :
          order[i][p] = t /\ order' = [order EXCEPT ![i] = <<t>> \o RemoveAt(@, p)]
  \/ ~ policy.lru /\ UNCHANGED order

\* The block is brought in, which costs a transfer, and another one if the
\* block that makes room for it must be written back.
Bring(i, t, extra) ==
  /\ order' = [order EXCEPT ![i] = <<t>> \o Kept(i)]
  /\ cycles' = cycles + Transfer + extra
               + IF Lost(i) \cap unsaved = {} THEN 0 ELSE Transfer

Load(i, t) == \/ /\ Held(i, t)
                 /\ Use(i, t)
                 /\ cycles' = cycles + 1
                 /\ UNCHANGED unsaved
              \/ /\ ~ Held(i, t)
                 /\ Bring(i, t, 0)
                 /\ unsaved' = unsaved \ Lost(i)

\* A store goes to memory at once when the cache does not keep it, or when
\* the cache writes through; otherwise memory is behind from now on.
ToMemory == IF policy.write_through THEN 100 ELSE 0
Behind(i, t) == IF policy.write_through THEN {} ELSE {<<i, t>>}

Store(i, t) == \/ /\ Held(i, t)
                  /\ Use(i, t)
                  /\ cycles' = cycles + 1 + ToMemory
                  /\ unsaved' = unsaved \cup Behind(i, t)
               \/ /\ ~ Held(i, t) /\ policy.write_allocate
                  /\ Bring(i, t, 1 + ToMemory)
                  /\ unsaved' = (unsaved \ Lost(i)) \cup Behind(i, t)
               \/ /\ ~ Held(i, t) /\ ~ policy.write_allocate
                  /\ cycles' = cycles + 100
                  /\ UNCHANGED <<order, unsaved>>

Init == /\ size \in Geometry
        /\ policy \in Policy
        /\ order = [i \in 0 .. size.setNum - 1 |-> << >>]
        /\ unsaved = {}
        /\ cycles = 0

Next == /\ \E i \in 0 .. size.setNum - 1, t \in Tag : Load(i, t) \/ Store(i, t)
        /\ UNCHANGED <<size, policy>>

Spec == Init /\ [][Next]_<<size, policy, order, unsaved, cycles>>
=============================================================================
