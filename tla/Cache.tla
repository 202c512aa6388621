-------------------------------- MODULE Cache --------------------------------
(***************************************************************************)
(* csf_assign03/cache.cpp and csim.cpp: a simulator of a set-associative   *)
(* cache.  A set is a map from tags to blocks; a block is a pair of a      *)
(* counter (its rank in the order of eviction) and a dirty bit.  Actions   *)
(* whose names tell of a fault are that action with a mistake, and are not *)
(* part of Spec.                                                           *)
(***************************************************************************)
EXTENDS Integers, FiniteSets

CONSTANTS ADDR_LEN,      \* the number of bits of an address
          Addresses,     \* the addresses that occur in the trace
          Sizes,         \* the first three arguments of csim
          MaxAccesses    \* bound: the length of the trace

\* 2 ^ n, as a function: the provers know nothing of ^.
two_to[n \in Nat] == IF n = 0 THEN 1 ELSE 2 * two_to[n - 1]

\* In a larger cache load and store shift by 32 bits or more, or by a negative
\* tag_len, which is undefined.
ASSUME CacheAssumption ==
  /\ ADDR_LEN \in Nat /\ ADDR_LEN >= 2
  /\ Addresses \subseteq 0 .. two_to[ADDR_LEN] - 1
  /\ Sizes \subseteq [setNum : Nat \ {0}, blockNum : Nat \ {0}, byteNum : Nat]
  /\ \A s \in Sizes : s.setNum * s.byteNum < two_to[ADDR_LEN]
  /\ MaxAccesses \in Nat

Policies == [write_allocate : BOOLEAN, write_through : BOOLEAN, lru : BOOLEAN]

VARIABLES
  size,        \* setNum, blockNum, byteNum
  policy,      \* write_allocate, write_through, lru
  data,        \* data[i][tag] = [first |-> counter, second |-> dirty]
  stats,       \* totalLoad, totalStore, loadHit, loadMiss, storeHit, storeMiss
  cycles

vars == <<size, policy, data, stats, cycles>>

Tags == 0 .. two_to[ADDR_LEN - 2] - 1      \* a block has at least four bytes
Indices == 0 .. size.setNum - 1

(***************************************************************************)
(* Parts of an address.                                                    *)
(***************************************************************************)
highest_bitSet[n \in Nat] == IF n < 2 THEN 0 ELSE 1 + highest_bitSet[n \div 2]
get_least_sig_n(num, n) == num % two_to[n]
get_low_sig(num, n, m) == get_least_sig_n(num \div two_to[n], m)

index_len == highest_bitSet[size.setNum]
offset_len == highest_bitSet[size.byteNum]
tag_len == ADDR_LEN - index_len - offset_len

index(address) == get_low_sig(address, offset_len, index_len)
tagOf(address) == get_low_sig(address, offset_len + index_len, tag_len)

(***************************************************************************)
(* main checks the arguments and constructs the cache.                     *)
(***************************************************************************)
is_power_of_two(n) == n = 0 \/ \E k \in 0 .. ADDR_LEN : n = two_to[k]

Accepted(s, p) == /\ is_power_of_two(s.setNum)
                  /\ is_power_of_two(s.blockNum)
                  /\ is_power_of_two(s.byteNum) /\ s.byteNum >= 4
                  /\ p.write_allocate \/ p.write_through

NoStats == [totalLoad |-> 0, totalStore |-> 0, loadHit |-> 0, loadMiss |-> 0,
            storeHit |-> 0, storeMiss |-> 0]

EmptySet == [t \in {} |-> [first |-> 0, second |-> FALSE]]

Init == /\ size \in Sizes
        /\ policy \in {p \in Policies : Accepted(size, p)}
        /\ data = [i \in Indices |-> EmptySet]
        /\ stats = NoStats
        /\ cycles = 0

Count(hitOrMiss, total) == [stats EXCEPT ![hitOrMiss] = @ + 1, ![total] = @ + 1]

(***************************************************************************)
(* What happens to a set.                                                  *)
(***************************************************************************)
FullTooLate(i) == Cardinality(DOMAIN data[i]) > size.blockNum
is_set_full(i) == Cardinality(DOMAIN data[i]) = size.blockNum
is_hit(i, tag) == tag \in DOMAIN data[i]

RenewEverybody(set, tag) ==
  IF ~ policy.lru THEN set
  ELSE [t \in DOMAIN set |-> [set[t] EXCEPT !.first = IF t = tag THEN 0 ELSE @ + 1]]

\* A hit makes the block the one used last, if the policy is lru.
Renew(set, tag) ==
  IF ~ policy.lru THEN set
  ELSE [t \in DOMAIN set |->
          [set[t] EXCEPT !.first = IF t = tag THEN 0
                                   ELSE IF @ < set[tag].first THEN @ + 1 ELSE @]]

Written(set, tag) == [set EXCEPT ![tag].second = @ \/ ~ policy.write_through]

\* The loop over a full set that looks for the block to evict; if there is
\* none, key is not initialized.
Oldest(i) == {t \in DOMAIN data[i] : data[i][t].first = size.blockNum - 1}
Evicted(i) == IF ~ is_set_full(i) THEN {{}}
              ELSE {{key} : key \in IF Oldest(i) = {} THEN Tags ELSE Oldest(i)}

WriteBacksOfAll(i) == Cardinality({t \in DOMAIN data[i] : data[i][t].second})
WriteBacks(i) == IF ~ is_set_full(i) THEN 0
                 ELSE Cardinality({t \in Oldest(i) : data[i][t].second})

Older(set, gone) == [t \in DOMAIN set \ gone |-> [set[t] EXCEPT !.first = @ + 1]]

Insert(set, gone, tag, dirty) ==
  [t \in (DOMAIN set \ gone) \cup {tag} |->
     IF t = tag THEN [first |-> 0, second |-> dirty] ELSE Older(set, gone)[t]]

(***************************************************************************)
(* load and store.                                                         *)
(***************************************************************************)
count_load_hit(i, tag) ==
  /\ data' = [data EXCEPT ![i] = Renew(@, tag)]
  /\ stats' = Count("loadHit", "totalLoad")
  /\ cycles' = cycles + 1

count_load_miss(i, tag) ==
  /\ \E gone \in Evicted(i) : data' = [data EXCEPT ![i] = Insert(@, gone, tag, FALSE)]
  /\ stats' = Count("loadMiss", "totalLoad")
  /\ cycles' = cycles + 25 * size.byteNum * (1 + WriteBacks(i))

load(address) ==
  LET i == index(address)  tag == tagOf(address) IN
  /\ \/ is_hit(i, tag) /\ count_load_hit(i, tag)
     \/ ~ is_hit(i, tag) /\ count_load_miss(i, tag)
  /\ UNCHANGED <<size, policy>>

count_store_hit(i, tag) ==
  /\ data' = [data EXCEPT ![i] = Written(Renew(@, tag), tag)]
  /\ stats' = Count("storeHit", "totalStore")
  /\ cycles' = cycles + 1 + IF policy.write_through THEN 100 ELSE 0

StoreMissClean(i, tag) ==
  /\ \/ /\ policy.write_allocate
        /\ \E gone \in Evicted(i) : data' = [data EXCEPT ![i] = Insert(@, gone, tag, FALSE)]
        /\ cycles' = cycles + 25 * size.byteNum * (1 + WriteBacks(i)) + 1
                     + IF policy.write_through THEN 100 ELSE 0
     \/ /\ ~ policy.write_allocate
        /\ cycles' = cycles + 100
        /\ UNCHANGED data
  /\ stats' = Count("storeMiss", "totalStore")

count_store_miss(i, tag) ==
  /\ \/ /\ policy.write_allocate
        /\ \E gone \in Evicted(i) :
             data' = [data EXCEPT ![i] = Insert(@, gone, tag, ~ policy.write_through)]
        /\ cycles' = cycles + 25 * size.byteNum * (1 + WriteBacks(i)) + 1
                     + IF policy.write_through THEN 100 ELSE 0
     \/ /\ ~ policy.write_allocate
        /\ cycles' = cycles + 100
        /\ UNCHANGED data
  /\ stats' = Count("storeMiss", "totalStore")

store(address) ==
  LET i == index(address)  tag == tagOf(address) IN
  /\ \/ is_hit(i, tag) /\ count_store_hit(i, tag)
     \/ ~ is_hit(i, tag) /\ count_store_miss(i, tag)
  /\ UNCHANGED <<size, policy>>

\* The trace ends, and main prints the statistics.
output == UNCHANGED vars

Next == \/ /\ stats.totalLoad + stats.totalStore < MaxAccesses
           /\ \E address \in Addresses : load(address) \/ store(address)
        \/ output

Spec == Init /\ [][Next]_vars
-----------------------------------------------------------------------------
(***************************************************************************)
(* Properties                                                              *)
(***************************************************************************)
Block == [first : Nat, second : BOOLEAN]

\* Every variable keeps its type, and no set holds more blocks than it has
\* room for.
TypeOK == /\ size \in Sizes
          /\ policy \in Policies
          /\ DOMAIN data = Indices
          /\ \A i \in Indices : /\ DOMAIN data[i] \subseteq Tags
                                /\ \A t \in DOMAIN data[i] : data[i][t] \in Block
                                /\ Cardinality(DOMAIN data[i]) <= size.blockNum
          /\ stats \in [DOMAIN NoStats -> Nat]
          /\ cycles \in Nat

\* The counters of a set of n blocks are 0 to n - 1, each of them once, after
\* any sequence of hits, misses and evictions.  So a full set has exactly one
\* block to evict, and key is never uninitialized.
OrderIsTotal ==
  \A i \in Indices :
    /\ \A t, u \in DOMAIN data[i] : data[i][t].first = data[i][u].first => t = u
    /\ \A t \in DOMAIN data[i] :
         \A n \in 0 .. data[i][t].first : \E u \in DOMAIN data[i] : data[i][u].first = n

Dirty == {b \in Indices \X Tags : b[2] \in DOMAIN data[b[1]] /\ data[b[1]][b[2]].second}

\* The cycles are those of the hits, of the blocks fetched, of the words
\* written through, and of a number of blocks written back.  Every block
\* written back, and every block still dirty, goes back to a store of its own,
\* and a cache that writes through has no such blocks.
CyclesAccounted ==
  LET fetched == stats.loadMiss + IF policy.write_allocate THEN stats.storeMiss ELSE 0
      through == IF policy.write_through THEN stats.totalStore ELSE 0
      hits == stats.totalLoad - stats.loadMiss + stats.storeHit
              + IF policy.write_allocate THEN stats.storeMiss ELSE 0
      stored == IF policy.write_through THEN 0 ELSE stats.totalStore
  IN \E written \in 0 .. stored :
       /\ cycles = hits + 25 * size.byteNum * (fetched + written) + 100 * through
       /\ written + Cardinality(Dirty) <= stored

\* The blocks of a set, the one to be evicted last first.
Ranked(i) == [n \in 1 .. Cardinality(DOMAIN data[i]) |->
                CHOOSE t \in DOMAIN data[i] : data[i][t].first = n - 1]

Reference == INSTANCE ReplacementPolicy WITH
               Geometry <- Sizes,
               Policy   <- Policies,
               Tag      <- Tags,
               order    <- [i \in Indices |-> Ranked(i)],
               unsaved  <- Dirty

\* With its counters and dirty bits the simulator evicts, writes back and
\* charges what lists of blocks and an exact account of main memory say.
ImplementsPolicy == Reference!Spec
=============================================================================
