------------------------------ MODULE CacheProof ------------------------------
(***************************************************************************)
(* Cache for every geometry, every policy and every trace: the counters    *)
(* of a set rank its blocks, so that a full set has one block to evict;    *)
(* the cycles are accounted for; and the cache implements                  *)
(* ReplacementPolicy.                                                      *)
(***************************************************************************)
EXTENDS Cache, FiniteSetTheorems, SequenceTheorems, WellFoundedInduction, TLAPS

\* The counters number the blocks of a set from 0 on.
Ranks(set) ==
  LET n == Cardinality(DOMAIN set) IN
  /\ IsFiniteSet(DOMAIN set)
  /\ \A t \in DOMAIN set : set[t] \in Block /\ set[t].first < n
  /\ \A t, u \in DOMAIN set : set[t].first = set[u].first => t = u
  /\ \A m \in 0 .. n - 1 : \E t \in DOMAIN set : set[t].first = m

Fits(set) == Cardinality(DOMAIN set) <= size.blockNum

Inv == /\ size \in Sizes
       /\ DOMAIN data = Indices
       /\ \A i \in Indices : Ranks(data[i]) /\ Fits(data[i])

-----------------------------------------------------------------------------
\* The block that is used gets rank 0, and those before it one more.
LEMMA Renewed ==
  ASSUME NEW set, Ranks(set), NEW tag \in DOMAIN set
  PROVE  /\ Ranks(Renew(set, tag)) /\ DOMAIN Renew(set, tag) = DOMAIN set
<1>1. CASE ~ policy.lru
  BY <1>1 DEF Renew
<1>2. CASE policy.lru
  <2> DEFINE new == Renew(set, tag)
  <2>1. /\ DOMAIN new = DOMAIN set
        /\ new[tag] \in Block /\ new[tag].first = 0
        /\ \A t \in DOMAIN set \ {tag} :
             /\ new[t] \in Block
             /\ new[t].first = IF set[t].first < set[tag].first THEN set[t].first + 1
                                                                 ELSE set[t].first
    BY <1>2 DEF Renew, Ranks, Block
  <2> HIDE DEF new
  <2> DEFINE n == Cardinality(DOMAIN set)
  <2>2. n \in Nat /\ IsFiniteSet(DOMAIN set)
    BY FS_CardinalityType DEF Ranks
  <2> HIDE DEF n
  <2>3. /\ \A t \in DOMAIN set : set[t].first \in Nat /\ set[t].first < n
        /\ \A t, u \in DOMAIN set : set[t].first = set[u].first => t = u
        /\ \A m \in 0 .. n - 1 : \E t \in DOMAIN set : set[t].first = m
    BY DEF Ranks, Block, n
  <2>4. PICK r \in Nat : r = set[tag].first /\ r < n
    BY <2>3
  <2>5. \A t \in DOMAIN set : new[t] \in Block /\ new[t].first < n
    BY <2>1, <2>2, <2>3, <2>4
  <2>6. ASSUME NEW t \in DOMAIN set, NEW u \in DOMAIN set, new[t].first = new[u].first
        PROVE  t = u
    BY <2>1, <2>3, <2>6
  <2>7. ASSUME NEW m \in 0 .. n - 1 PROVE \E t \in DOMAIN set : new[t].first = m
    <3>1. CASE m = 0
      BY <2>1, <3>1
    <3>2. CASE m \in 1 .. r
      <4>1. PICK t \in DOMAIN set : set[t].first = m - 1
        BY <2>2, <2>3, <3>2, <2>4
      <4>2. t # tag /\ set[t].first < set[tag].first
        BY <2>4, <3>2, <4>1
      <4>3. new[t].first = m
        BY <2>1, <3>2, <4>1, <4>2
      <4> QED BY <4>3
    <3>3. CASE m > r
      <4>1. PICK t \in DOMAIN set : set[t].first = m
        BY <2>3
      <4>2. t # tag /\ ~ (set[t].first < set[tag].first)
        BY <2>4, <3>3, <4>1
      <4>3. new[t].first = m
        BY <2>1, <4>1, <4>2
      <4> QED BY <4>3
    <3> QED BY <2>2, <2>4, <3>1, <3>2, <3>3
  <2>8. Ranks(new)
    BY <2>1, <2>2, <2>5, <2>6, <2>7 DEF Ranks, n
  <2> QED BY <2>1, <2>8 DEF new
<1> QED BY <1>1, <1>2

\* A block that comes gets rank 0, and all that stay one more.
LEMMA Inserted ==
  ASSUME NEW set, NEW kept, NEW k \in Nat, NEW tag, tag \notin kept, NEW dirty \in BOOLEAN,
         NEW gone, kept = DOMAIN set \ gone,
         IsFiniteSet(kept), Cardinality(kept) = k,
         \A t \in kept : set[t] \in Block /\ set[t].first < k,
         \A t, u \in kept : set[t].first = set[u].first => t = u,
         \A m \in 0 .. k - 1 : \E t \in kept : set[t].first = m
  PROVE  LET new == Insert(set, gone, tag, dirty) IN
         Ranks(new) /\ Cardinality(DOMAIN new) = k + 1
<1> DEFINE new == Insert(set, gone, tag, dirty)
<1>1. /\ DOMAIN new = kept \cup {tag}
      /\ new[tag] = [first |-> 0, second |-> dirty]
      /\ \A t \in kept : new[t] = [set[t] EXCEPT !.first = @ + 1]
  BY DEF Insert, Older
<1> HIDE DEF new
<1>2. /\ new[tag] \in Block /\ new[tag].first = 0
      /\ \A t \in kept : new[t] \in Block /\ new[t].first = set[t].first + 1
  <2>1. new[tag] \in Block /\ new[tag].first = 0
    BY <1>1 DEF Block
  <2>2. ASSUME NEW t \in kept PROVE new[t] \in Block /\ new[t].first = set[t].first + 1
    <3>1. PICK b \in Block : b = set[t]
      OBVIOUS
    <3>2. new[t] = [b EXCEPT !.first = b.first + 1]
      BY <1>1, <3>1
    <3>3. new[t] \in Block /\ new[t].first = b.first + 1
      BY <3>2 DEF Block
    <3> QED BY <3>1, <3>3
  <2> QED BY <2>1, <2>2
<1>3. IsFiniteSet(DOMAIN new) /\ Cardinality(DOMAIN new) = k + 1
  <2>1. IsFiniteSet(kept \cup {tag}) /\ Cardinality(kept \cup {tag}) = k + 1
    BY FS_AddElement
  <2> QED BY <1>1, <2>1
<1>4. \A t \in kept : set[t].first \in Nat
  BY DEF Block
<1>5. \A t \in DOMAIN new : new[t] \in Block /\ new[t].first < k + 1
  BY <1>1, <1>2, <1>4
<1>6. ASSUME NEW t \in DOMAIN new, NEW u \in DOMAIN new, new[t].first = new[u].first
      PROVE  t = u
  BY <1>1, <1>2, <1>4, <1>6
<1>7. ASSUME NEW m \in 0 .. k PROVE \E t \in DOMAIN new : new[t].first = m
  <2>1. CASE m = 0
    BY <1>1, <1>2, <2>1
  <2>2. CASE m # 0
    <3>1. PICK t \in kept : set[t].first = m - 1
      <4>1. m - 1 \in 0 .. k - 1
        BY <2>2
      <4> QED BY <4>1
    <3>2. new[t].first = m
      BY <1>2, <3>1
    <3> QED BY <1>1, <3>2
  <2> QED BY <2>1, <2>2
<1>8. Ranks(new)
  <2>1. (k + 1) - 1 = k
    OBVIOUS
  <2> QED BY <1>3, <1>5, <1>6, <1>7, <2>1 DEF Ranks
<1> QED BY <1>3, <1>8 DEF new

\* A dirty bit has no influence on the ranks.
LEMMA Marked ==
  ASSUME NEW set, Ranks(set), NEW tag \in DOMAIN set, NEW dirty \in BOOLEAN
  PROVE  LET new == [set EXCEPT ![tag].second = dirty] IN
         Ranks(new) /\ DOMAIN new = DOMAIN set
<1> DEFINE new == [set EXCEPT ![tag].second = dirty]
<1>1. PICK b \in Block : b = set[tag]
  BY DEF Ranks
<1>2. /\ DOMAIN new = DOMAIN set
      /\ new[tag] = [b EXCEPT !.second = dirty]
      /\ \A t \in DOMAIN set \ {tag} : new[t] = set[t]
  BY <1>1
<1> HIDE DEF new
<1>3. new[tag] \in Block /\ new[tag].first = b.first
  BY <1>2 DEF Block
<1>4. \A t \in DOMAIN set : new[t] \in Block /\ new[t].first = set[t].first
  BY <1>1, <1>2, <1>3 DEF Ranks
<1>5. Ranks(new)
  BY <1>2, <1>4 DEF Ranks
<1> QED BY <1>2, <1>5 DEF new

\* A full set has one block to evict, and key is not left uninitialized.
LEMMA OneEvicted ==
  ASSUME Inv, NEW i \in Indices, is_set_full(i)
  PROVE  \E key \in DOMAIN data[i] : /\ data[i][key].first = size.blockNum - 1
                                     /\ Oldest(i) = {key} /\ Evicted(i) = {{key}}
<1>1. size.blockNum \in Nat \ {0}
  BY CacheAssumption DEF Inv
<1>2. PICK key \in DOMAIN data[i] : data[i][key].first = size.blockNum - 1
  <2>1. Ranks(data[i]) /\ Cardinality(DOMAIN data[i]) = size.blockNum
    BY DEF Inv, is_set_full
  <2>2. size.blockNum - 1 \in 0 .. size.blockNum - 1
    BY <1>1
  <2> QED BY <2>1, <2>2 DEF Ranks
<1>3. Oldest(i) = {key}
  <2>1. \A t, u \in DOMAIN data[i] : data[i][t].first = data[i][u].first => t = u
    BY DEF Inv, Ranks
  <2> QED BY <1>2, <2>1 DEF Oldest
<1>4. Evicted(i) = {{key}}
  BY <1>3 DEF Evicted
<1> QED BY <1>2, <1>3, <1>4

\* A block brought into a set, full or not, leaves a set with ranks that fits.
LEMMA Brought ==
  ASSUME Inv, NEW i \in Indices, NEW tag, ~ is_hit(i, tag), NEW gone \in Evicted(i),
         NEW dirty \in BOOLEAN
  PROVE  /\ Ranks(Insert(data[i], gone, tag, dirty))
         /\ Fits(Insert(data[i], gone, tag, dirty))
<1>1. /\ Ranks(data[i]) /\ Fits(data[i]) /\ size.blockNum \in Nat \ {0}
      /\ tag \notin DOMAIN data[i]
  BY CacheAssumption DEF Inv, is_hit
<1>2. PICK set : set = data[i]
  OBVIOUS
<1>3. PICK n \in Nat : n = Cardinality(DOMAIN set)
  BY <1>1, <1>2, FS_CardinalityType DEF Ranks
<1>4. /\ IsFiniteSet(DOMAIN set) /\ n <= size.blockNum
      /\ \A t \in DOMAIN set : set[t] \in Block /\ set[t].first < n
      /\ \A t, u \in DOMAIN set : set[t].first = set[u].first => t = u
      /\ \A m \in 0 .. n - 1 : \E t \in DOMAIN set : set[t].first = m
  BY <1>1, <1>2, <1>3 DEF Ranks, Fits
<1>5. PICK kept : kept = DOMAIN set \ gone
  OBVIOUS
<1>6. tag \notin kept
  BY <1>1, <1>2, <1>5
<1>7. CASE ~ is_set_full(i)
  <2>1. gone = {} /\ n # size.blockNum
    BY <1>2, <1>3, <1>7 DEF Evicted, is_set_full
  <2>2. kept = DOMAIN set /\ n + 1 <= size.blockNum
    BY <1>1, <1>4, <1>5, <2>1
  <2>3. /\ Ranks(Insert(set, gone, tag, dirty))
        /\ Cardinality(DOMAIN Insert(set, gone, tag, dirty)) = n + 1
    BY <1>3, <1>4, <1>5, <1>6, <2>2, Inserted
  <2> QED BY <1>2, <2>2, <2>3 DEF Fits
<1>8. CASE is_set_full(i)
  <2>1. PICK key \in DOMAIN set : set[key].first = size.blockNum - 1 /\ gone = {key}
    BY <1>2, <1>8, OneEvicted
  <2>2. PICK k \in Nat : k = n - 1 /\ n = size.blockNum
    BY <1>1, <1>2, <1>3, <1>8 DEF is_set_full
  <2>3. IsFiniteSet(kept) /\ Cardinality(kept) = k
    <3>1. IsFiniteSet(DOMAIN set \ {key}) /\ Cardinality(DOMAIN set \ {key}) = n - 1
      BY <1>3, <1>4, FS_RemoveElement
    <3> QED BY <1>5, <2>1, <2>2, <3>1
  <2>4. ASSUME NEW t \in kept PROVE set[t] \in Block /\ set[t].first < k
    <3>1. t \in DOMAIN set /\ t # key
      BY <1>5, <2>1
    <3>2. set[t].first # set[key].first
      BY <1>4, <3>1
    <3>3. set[t].first \in Nat /\ set[t].first < n
      BY <1>4, <3>1 DEF Block
    <3> QED BY <1>4, <2>1, <2>2, <3>1, <3>2, <3>3
  <2>5. ASSUME NEW m \in 0 .. k - 1 PROVE \E t \in kept : set[t].first = m
    <3>1. PICK t \in DOMAIN set : set[t].first = m
      BY <1>4, <2>2
    <3>2. t # key
      BY <2>1, <2>2, <3>1
    <3> QED BY <1>5, <2>1, <3>1, <3>2
  <2>6. \A t, u \in kept : set[t].first = set[u].first => t = u
    BY <1>4, <1>5
  <2>7. /\ Ranks(Insert(set, gone, tag, dirty))
        /\ Cardinality(DOMAIN Insert(set, gone, tag, dirty)) = k + 1
    <3>1. /\ \A t \in kept : set[t] \in Block /\ set[t].first < k
          /\ \A t, u \in kept : set[t].first = set[u].first => t = u
          /\ \A m \in 0 .. k - 1 : \E t \in kept : set[t].first = m
      BY <2>4, <2>5, <2>6
    <3> QED BY <1>5, <1>6, <2>3, <3>1, Inserted
  <2> QED BY <1>2, <2>2, <2>7 DEF Fits
<1> QED BY <1>7, <1>8

\* A set is replaced by another one with ranks.
LEMMA SetChanges ==
  ASSUME Inv, UNCHANGED <<size, policy>>, NEW i, NEW set, data' = [data EXCEPT ![i] = set],
         i \in Indices => Ranks(set) /\ Fits(set)
  PROVE  Inv'
<1>1. size' = size /\ Indices' = Indices /\ DOMAIN data' = Indices
  BY DEF Inv, Indices
<1>2. ASSUME NEW j \in Indices PROVE Ranks(data'[j]) /\ Fits(data'[j])
  <2>1. CASE j = i
    BY <2>1 DEF Inv
  <2>2. CASE j # i
    BY <2>2 DEF Inv
  <2> QED BY <2>1, <2>2
<1>3. \A j \in Indices' : (Ranks(data[j]) /\ Fits(data[j]))'
  BY <1>1, <1>2 DEF Ranks, Fits
<1>4. size' \in Sizes
  BY <1>1 DEF Inv
<1> QED BY <1>1, <1>3, <1>4 DEF Inv

\* No set holds a block at first.
LEMMA InvInit == Init => Inv
<1> SUFFICES ASSUME Init PROVE Inv
  OBVIOUS
<1>1. size \in Sizes /\ size.blockNum \in Nat
  BY CacheAssumption DEF Init
<1>2. DOMAIN data = Indices /\ \A i \in Indices : data[i] = EmptySet
  BY DEF Init
<1>3. DOMAIN EmptySet = {} /\ IsFiniteSet({}) /\ Cardinality({}) = 0
  BY FS_EmptySet DEF EmptySet
<1>4. Ranks(EmptySet)
  BY <1>3 DEF Ranks
<1>5. Fits(EmptySet)
  BY <1>1, <1>3 DEF Fits
<1> QED BY <1>1, <1>2, <1>4, <1>5 DEF Inv

\* Every access leaves all sets with ranks.
LEMMA InvStep == Inv /\ [Next]_vars => Inv'
<1> SUFFICES ASSUME Inv, [Next]_vars PROVE Inv'
  OBVIOUS
<1>1. ASSUME NEW address \in Addresses, load(address) PROVE Inv'
  <2>1. PICK i, tag : i = index(address) /\ tag = tagOf(address)
    OBVIOUS
  <2>2. UNCHANGED <<size, policy>>
    BY <1>1 DEF load
  <2>3. CASE is_hit(i, tag) /\ count_load_hit(i, tag)
    <3>1. data' = [data EXCEPT ![i] = Renew(data[i], tag)]
      BY <2>3 DEF count_load_hit
    <3>2. ASSUME i \in Indices PROVE Ranks(Renew(data[i], tag)) /\ Fits(Renew(data[i], tag))
      BY <2>3, <3>2, Renewed DEF Inv, Fits, is_hit
    <3> QED BY <2>2, <3>1, <3>2, SetChanges
  <2>4. CASE ~ is_hit(i, tag) /\ count_load_miss(i, tag)
    <3>1. PICK gone \in Evicted(i) : data' = [data EXCEPT ![i] = Insert(data[i], gone, tag, FALSE)]
      BY <2>4 DEF count_load_miss
    <3>2. ASSUME i \in Indices
          PROVE  /\ Ranks(Insert(data[i], gone, tag, FALSE))
                 /\ Fits(Insert(data[i], gone, tag, FALSE))
      BY <2>4, <3>2, Brought
    <3> QED BY <2>2, <3>1, <3>2, SetChanges
  <2> QED BY <1>1, <2>1, <2>3, <2>4 DEF load
<1>2. ASSUME NEW address \in Addresses, store(address) PROVE Inv'
  <2>1. PICK i, tag : i = index(address) /\ tag = tagOf(address)
    OBVIOUS
  <2>2. UNCHANGED <<size, policy>>
    BY <1>2 DEF store
  <2>3. CASE is_hit(i, tag) /\ count_store_hit(i, tag)
    <3> DEFINE renewed == Renew(data[i], tag)
               new == Written(renewed, tag)
    <3>1. data' = [data EXCEPT ![i] = new]
      BY <2>3 DEF count_store_hit
    <3>2. ASSUME i \in Indices PROVE Ranks(new) /\ Fits(new)
      <4>1. /\ Ranks(renewed) /\ DOMAIN renewed = DOMAIN data[i]
            /\ tag \in DOMAIN data[i] /\ Fits(data[i])
        BY <2>3, <3>2, Renewed DEF Inv, is_hit
      <4> HIDE DEF renewed
      <4>2. PICK dirty \in BOOLEAN : dirty = (renewed[tag].second \/ ~ policy.write_through)
        OBVIOUS
      <4>3. new = [renewed EXCEPT ![tag].second = dirty]
        BY <4>2 DEF Written
      <4> HIDE DEF new
      <4>4. Ranks(new) /\ DOMAIN new = DOMAIN renewed
        BY <4>1, <4>3, Marked
      <4> QED BY <4>1, <4>4 DEF Fits
    <3> HIDE DEF new
    <3> QED BY <2>2, <3>1, <3>2, SetChanges
  <2>4. CASE ~ is_hit(i, tag) /\ count_store_miss(i, tag)
    <3>1. CASE policy.write_allocate
      <4>1. PICK gone \in Evicted(i) :
              data' = [data EXCEPT ![i] = Insert(data[i], gone, tag, ~ policy.write_through)]
        BY <2>4, <3>1 DEF count_store_miss
      <4>2. PICK dirty \in BOOLEAN : dirty = ~ policy.write_through
        OBVIOUS
      <4>3. data' = [data EXCEPT ![i] = Insert(data[i], gone, tag, dirty)]
        BY <4>1, <4>2
      <4>4. ASSUME i \in Indices
            PROVE  /\ Ranks(Insert(data[i], gone, tag, dirty))
                   /\ Fits(Insert(data[i], gone, tag, dirty))
        BY <2>4, <4>4, Brought
      <4> QED BY <2>2, <4>3, <4>4, SetChanges
    <3>2. CASE ~ policy.write_allocate
      <4>1. data' = data
        BY <2>4, <3>2 DEF count_store_miss
      <4> QED BY <2>2, <4>1 DEF Inv, Indices, Ranks, Fits
    <3> QED BY <3>1, <3>2
  <2> QED BY <1>2, <2>1, <2>3, <2>4 DEF store
<1>3. CASE UNCHANGED vars
  BY <1>3 DEF vars, Inv, Indices, Ranks, Fits
<1> QED BY <1>1, <1>2, <1>3 DEF Next, output

\* So they have them always.
LEMMA InvAlways == Spec => []Inv
  BY InvInit, InvStep, PTL DEF Spec

\* That is what OrderIsTotal says.
LEMMA RanksAreTotal == Inv => OrderIsTotal
<1> SUFFICES ASSUME Inv, NEW i \in Indices
             PROVE  /\ \A t, u \in DOMAIN data[i] : data[i][t].first = data[i][u].first => t = u
                    /\ \A t \in DOMAIN data[i] : \A n \in 0 .. data[i][t].first :
                         \E u \in DOMAIN data[i] : data[i][u].first = n
  BY DEF OrderIsTotal
<1>1. Ranks(data[i])
  BY DEF Inv
<1>2. Cardinality(DOMAIN data[i]) \in Nat
  BY <1>1, FS_CardinalityType DEF Ranks
<1>3. ASSUME NEW t \in DOMAIN data[i], NEW n \in 0 .. data[i][t].first
      PROVE  \E u \in DOMAIN data[i] : data[i][u].first = n
  <2>1. data[i][t].first \in Nat /\ data[i][t].first < Cardinality(DOMAIN data[i])
    BY <1>1 DEF Ranks, Block
  <2>2. n \in 0 .. Cardinality(DOMAIN data[i]) - 1
    BY <1>2, <2>1
  <2> QED BY <1>1, <2>2 DEF Ranks
<1> QED BY <1>1, <1>3 DEF Ranks

-----------------------------------------------------------------------------
\* After any trace, with any number of blocks in a set and under either policy,
\* the counters of a set are 0 to n - 1, each of them once.
THEOREM CountersRankBlocks == Spec => []OrderIsTotal
  BY InvAlways, RanksAreTotal, PTL

\* A set never holds more blocks than it has room for, and when it is full the
\* loop that looks for the block to evict finds exactly one.
EvictionDefined ==
  \A i \in Indices :
    /\ Cardinality(DOMAIN data[i]) <= size.blockNum
    /\ is_set_full(i) => \E key \in DOMAIN data[i] : Evicted(i) = {{key}}

\* So key is always assigned before it is used.
THEOREM KeyIsInitialized == Spec => []EvictionDefined
<1>1. Inv => EvictionDefined
  BY OneEvicted DEF EvictionDefined, Inv, Fits
<1> QED BY <1>1, InvAlways, PTL

-----------------------------------------------------------------------------
(***************************************************************************)
(* The parts of an address: powers of two and the logarithm.               *)
(***************************************************************************)
\* Every set of numbers that is not empty has a least element.
LEMMA Least == ASSUME NEW T, T \subseteq Nat, T # {}
               PROVE  \E m \in T : \A k \in T : m <= k
<1>1. IsWellFoundedOn(OpToRel(<, Nat), Nat)
  BY NatLessThanWellFounded
<1>2. \E x \in T : \A y \in T : ~ (<<y, x>> \in OpToRel(<, Nat))
  BY <1>1, WFMin
<1>3. PICK x \in T : \A y \in T : ~ (<<y, x>> \in OpToRel(<, Nat))
  BY <1>2
<1>4. ASSUME NEW y \in T
      PROVE  x <= y
  <2>1. x \in Nat /\ y \in Nat
    OBVIOUS
  <2>2. <<y, x>> \in Nat \X Nat
    BY <2>1
  <2>3. y < x => <<y, x>> \in OpToRel(<, Nat)
    BY <2>2 DEF OpToRel
  <2>4. ~ (y < x)
    BY <1>3, <2>3, Zenon
  <2> QED
    BY <2>1, <2>4
<1> QED
  BY <1>4

\* Induction, for the set of the numbers that have a property.
LEMMA Induction == ASSUME NEW T, 0 \in T, \A n \in Nat : n \in T => n + 1 \in T
                   PROVE  \A n \in Nat : n \in T
<1> SUFFICES ASSUME NEW c \in Nat, c \notin T
             PROVE  FALSE
  OBVIOUS
<1> DEFINE S == Nat \ T
<1>1. S \subseteq Nat /\ S # {}
  OBVIOUS
<1>2. PICK m \in S : \A k \in S : m <= k
  BY <1>1, Least
<1>3. m \in Nat /\ m # 0 /\ m \notin T
  OBVIOUS
<1>4. m - 1 \in Nat /\ (m - 1) + 1 = m /\ ~ (m <= m - 1)
  BY <1>3
<1>5. m - 1 \in T
  BY <1>2, <1>4
<1> QED
  BY <1>3, <1>4, <1>5

\* two_to is what its definition says: there is such a function on 0 .. N for every
\* N, they agree, and together they are one on Nat.
LEMMA TwoTo ==
  /\ two_to[0] = 1
  /\ \A n \in Nat : two_to[n] \in Nat \ {0} /\ two_to[n + 1] = 2 * two_to[n]
<1> DEFINE Is(g, N) == g = [n \in 0 .. N |-> IF n = 0 THEN 1 ELSE 2 * g[n - 1]]
           S == {N \in Nat : \E g : Is(g, N)}
<1>1. 0 \in S
  <2> DEFINE g == [n \in 0 .. 0 |-> 1]
  <2>1. Is(g, 0)
    OBVIOUS
  <2> HIDE DEF Is
  <2> QED
    BY <2>1
<1>2. ASSUME NEW N \in Nat, N \in S
      PROVE  N + 1 \in S
  <2>1. PICK g : Is(g, N)
    BY <1>2
  <2> DEFINE h == [n \in 0 .. N + 1 |-> IF n = N + 1 THEN 2 * g[N] ELSE g[n]]
  <2>2. ASSUME NEW n \in 0 .. N + 1
        PROVE  h[n] = IF n = 0 THEN 1 ELSE 2 * h[n - 1]
    <3>1. CASE n = N + 1
      <4>1. n - 1 = N /\ n # 0 /\ N \in 0 .. N + 1 /\ N # N + 1
        BY <3>1
      <4> QED
        BY <3>1, <4>1
    <3>2. CASE n # N + 1
      <4>1. n \in 0 .. N /\ h[n] = g[n]
        BY <3>2
      <4>2. g[n] = IF n = 0 THEN 1 ELSE 2 * g[n - 1]
        BY <2>1, <4>1
      <4>3. CASE n = 0
        BY <4>1, <4>2, <4>3
      <4>4. CASE n # 0
        <5>1. n - 1 \in 0 .. N + 1 /\ n - 1 # N + 1
          BY <4>1, <4>4
        <5>2. h[n - 1] = g[n - 1]
          BY <5>1
        <5> QED
          BY <4>1, <4>2, <4>4, <5>2
      <4> QED
        BY <4>3, <4>4
    <3> QED
      BY <3>1, <3>2
  <2>3. h = [n \in 0 .. N + 1 |-> h[n]]
    OBVIOUS
  <2> HIDE DEF h
  <2>4. Is(h, N + 1)
    BY <2>2, <2>3
  <2> HIDE DEF Is
  <2> QED
    BY <2>4
<1>3. \A N \in Nat : N \in S
  <2> HIDE DEF S
  <2> QED
    BY <1>1, <1>2, Induction
<1> DEFINE G(N) == CHOOSE g : Is(g, N)
<1>4. ASSUME NEW N \in Nat
      PROVE  \A n \in 0 .. N : G(N)[n] = IF n = 0 THEN 1 ELSE 2 * G(N)[n - 1]
  <2>1. \E g : Is(g, N)
    BY <1>3
  <2>2. Is(G(N), N)
    <3> HIDE DEF Is
    <3> QED
      BY <2>1
  <2> HIDE DEF G
  <2> QED
    BY <2>2
<1> HIDE DEF G, Is, S
<1>5. ASSUME NEW N \in Nat
      PROVE  G(N + 1)[N] = G(N)[N]
  <2> DEFINE T == {n \in Nat : n <= N => G(N + 1)[n] = G(N)[n]}
  <2>1. 0 \in T
    <3>1. N + 1 \in Nat /\ 0 \in 0 .. N /\ 0 \in 0 .. N + 1
      OBVIOUS
    <3>2. G(N)[0] = 1 /\ G(N + 1)[0] = 1
      BY <1>4, <3>1
    <3> QED
      BY <3>2
  <2>2. ASSUME NEW n \in Nat, n \in T
        PROVE  n + 1 \in T
    <3> SUFFICES ASSUME n + 1 <= N PROVE G(N + 1)[n + 1] = G(N)[n + 1]
      OBVIOUS
    <3>1. N + 1 \in Nat /\ n + 1 \in 0 .. N /\ n + 1 \in 0 .. N + 1 /\ (n + 1) - 1 = n /\ n + 1 # 0
          /\ n <= N
      OBVIOUS
    <3>2. G(N)[n + 1] = 2 * G(N)[n]
      BY <1>4, <3>1
    <3>3. G(N + 1)[n + 1] = 2 * G(N + 1)[n]
      BY <1>4, <3>1
    <3>4. G(N + 1)[n] = G(N)[n]
      BY <2>2, <3>1
    <3> QED
      BY <3>2, <3>3, <3>4
  <2> HIDE DEF T
  <2>3. N \in T
    BY <2>1, <2>2, Induction
  <2> QED
    BY <2>3 DEF T
<1> DEFINE f == [n \in Nat |-> G(n)[n]]
<1>6. f = [n \in Nat |-> IF n = 0 THEN 1 ELSE 2 * f[n - 1]]
  <2>1. ASSUME NEW n \in Nat
        PROVE  G(n)[n] = IF n = 0 THEN 1 ELSE 2 * f[n - 1]
    <3>1. CASE n = 0
      <4>1. n \in 0 .. n
        OBVIOUS
      <4> QED
        BY <1>4, <3>1, <4>1
    <3>2. CASE n # 0
      <4>1. n - 1 \in Nat /\ (n - 1) + 1 = n /\ n \in 0 .. n
        BY <3>2
      <4>2. G(n)[n] = 2 * G(n)[n - 1]
        BY <1>4, <3>2, <4>1
      <4>3. G((n - 1) + 1)[n - 1] = G(n - 1)[n - 1]
        BY <1>5, <4>1
      <4>4. f[n - 1] = G(n - 1)[n - 1]
        BY <4>1
      <4> HIDE DEF f
      <4> QED
        BY <3>2, <4>1, <4>2, <4>3, <4>4
    <3> QED
      BY <3>1, <3>2
  <2> QED
    BY <2>1
<1> HIDE DEF f
<1>7. two_to = [n \in Nat |-> IF n = 0 THEN 1 ELSE 2 * two_to[n - 1]]
  BY <1>6 DEF two_to
<1>8. two_to[0] = 1
  BY <1>7
<1>9. ASSUME NEW n \in Nat
      PROVE  two_to[n + 1] = 2 * two_to[n]
  <2>1. n + 1 \in Nat /\ n + 1 # 0 /\ (n + 1) - 1 = n
    OBVIOUS
  <2> QED
    BY <1>7, <2>1
<1> DEFINE T == {n \in Nat : two_to[n] \in Nat \ {0}}
<1>10. 0 \in T
  BY <1>8
<1>11. ASSUME NEW n \in Nat, n \in T
       PROVE  n + 1 \in T
  BY <1>9, <1>11
<1>12. \A n \in Nat : n \in T
  <2> HIDE DEF T
  <2> QED
    BY <1>10, <1>11, Induction
<1> QED
  BY <1>8, <1>9, <1>12

\* The same for highest_bitSet.
LEMMA HighestBit ==
  /\ highest_bitSet[1] = 0
  /\ \A n \in Nat \ {0} : highest_bitSet[2 * n] = 1 + highest_bitSet[n]
<1> DEFINE Is(g, N) == g = [n \in 0 .. N |-> IF n < 2 THEN 0 ELSE 1 + g[n \div 2]]
           S == {N \in Nat : \E g : Is(g, N)}
<1>0. ASSUME NEW n \in Nat, ~ (n < 2)
      PROVE  n \div 2 \in Nat /\ n \div 2 < n
  <2>1. n \div 2 \in Nat
    OBVIOUS
  <2>2. 2 * (n \div 2) <= n
    OBVIOUS
  <2>3. PICK m \in Nat : m = n \div 2
    BY <2>1
  <2> QED
    BY <1>0, <2>2, <2>3
<1>1. 0 \in S
  <2> DEFINE g == [n \in 0 .. 0 |-> 0]
  <2>1. Is(g, 0)
    OBVIOUS
  <2> HIDE DEF Is
  <2> QED
    BY <2>1
<1>2. ASSUME NEW N \in Nat, N \in S
      PROVE  N + 1 \in S
  <2>1. PICK g : Is(g, N)
    BY <1>2
  <2> DEFINE last == IF N + 1 < 2 THEN 0 ELSE 1 + g[(N + 1) \div 2]
             h == [n \in 0 .. N + 1 |-> IF n = N + 1 THEN last ELSE g[n]]
  <2>2. ASSUME NEW n \in 0 .. N + 1
        PROVE  h[n] = IF n < 2 THEN 0 ELSE 1 + h[n \div 2]
    <3> HIDE DEF last
    <3>1. CASE n < 2
      <4>1. h[n] = 0
        <5>1. CASE n = N + 1
          BY <3>1, <5>1 DEF last
        <5>2. CASE n # N + 1
          <6>1. n \in 0 .. N /\ h[n] = g[n]
            BY <5>2
          <6> QED
            BY <2>1, <3>1, <6>1
        <5> QED
          BY <5>1, <5>2
      <4> QED
        BY <3>1, <4>1
    <3>2. CASE ~ (n < 2)
      <4>1. PICK m \in Nat : m = n \div 2 /\ m < n
        BY <1>0, <3>2
      <4>2. m \in 0 .. N + 1 /\ m # N + 1
        BY <4>1
      <4>3. h[m] = g[m]
        BY <4>2
      <4>4. h[n] = 1 + g[m]
        <5>1. CASE n = N + 1
          BY <3>2, <4>1, <5>1 DEF last
        <5>2. CASE n # N + 1
          <6>1. n \in 0 .. N /\ h[n] = g[n]
            BY <5>2
          <6> QED
            BY <2>1, <3>2, <4>1, <6>1
        <5> QED
          BY <5>1, <5>2
      <4> HIDE DEF h
      <4> QED
        BY <3>2, <4>1, <4>3, <4>4
    <3> QED
      BY <3>1, <3>2
  <2>3. h = [n \in 0 .. N + 1 |-> h[n]]
    OBVIOUS
  <2> HIDE DEF h
  <2>4. Is(h, N + 1)
    BY <2>2, <2>3
  <2> HIDE DEF Is
  <2> QED
    BY <2>4
<1>3. \A N \in Nat : N \in S
  <2> HIDE DEF S
  <2> QED
    BY <1>1, <1>2, Induction
<1> DEFINE G(N) == CHOOSE g : Is(g, N)
<1>4. ASSUME NEW N \in Nat
      PROVE  \A n \in 0 .. N : G(N)[n] = IF n < 2 THEN 0 ELSE 1 + G(N)[n \div 2]
  <2>1. \E g : Is(g, N)
    BY <1>3
  <2>2. Is(G(N), N)
    <3> HIDE DEF Is
    <3> QED
      BY <2>1
  <2> HIDE DEF G
  <2> QED
    BY <2>2
<1> HIDE DEF G, Is, S
\* The functions agree where both are defined.
<1>5. ASSUME NEW N \in Nat, NEW M \in Nat
      PROVE  \A n \in Nat : n <= N /\ n <= M => G(N)[n] = G(M)[n]
  <2> DEFINE T == {k \in Nat : \A n \in 0 .. k : n <= N /\ n <= M => G(N)[n] = G(M)[n]}
  <2>1. 0 \in T
    <3>1. 0 \in 0 .. N /\ 0 \in 0 .. M
      OBVIOUS
    <3>2. G(N)[0] = 0 /\ G(M)[0] = 0
      BY <1>4, <3>1
    <3> QED
      BY <3>2
  <2>2. ASSUME NEW k \in Nat, k \in T
        PROVE  k + 1 \in T
    <3> SUFFICES ASSUME NEW n \in 0 .. k + 1, n <= N, n <= M
                 PROVE  G(N)[n] = G(M)[n]
      OBVIOUS
    <3>1. n \in 0 .. N /\ n \in 0 .. M /\ n \in Nat
      OBVIOUS
    <3>2. /\ G(N)[n] = IF n < 2 THEN 0 ELSE 1 + G(N)[n \div 2]
          /\ G(M)[n] = IF n < 2 THEN 0 ELSE 1 + G(M)[n \div 2]
      BY <1>4, <3>1
    <3>3. CASE n < 2
      BY <3>2, <3>3
    <3>4. CASE ~ (n < 2)
      <4>1. PICK m \in Nat : m = n \div 2 /\ m < n
        BY <1>0, <3>1, <3>4
      <4>2. m \in 0 .. k /\ m <= N /\ m <= M
        BY <4>1
      <4>3. G(N)[m] = G(M)[m]
        BY <2>2, <4>2
      <4> QED
        BY <3>2, <3>4, <4>1, <4>3
    <3> QED
      BY <3>3, <3>4
  <2> HIDE DEF T
  <2>3. \A k \in Nat : k \in T
    BY <2>1, <2>2, Induction
  <2>4. ASSUME NEW n \in Nat, n <= N, n <= M
        PROVE  G(N)[n] = G(M)[n]
    <3>1. n \in T /\ n \in 0 .. n
      BY <2>3
    <3> QED
      BY <2>4, <3>1 DEF T
  <2> QED
    BY <2>4
<1> DEFINE f == [n \in Nat |-> G(n)[n]]
<1>6. f = [n \in Nat |-> IF n < 2 THEN 0 ELSE 1 + f[n \div 2]]
  <2>1. ASSUME NEW n \in Nat
        PROVE  G(n)[n] = IF n < 2 THEN 0 ELSE 1 + f[n \div 2]
    <3>0. n \in 0 .. n
      OBVIOUS
    <3>1. CASE n < 2
      BY <1>4, <3>0, <3>1
    <3>2. CASE ~ (n < 2)
      <4>1. PICK m \in Nat : m = n \div 2 /\ m < n
        BY <1>0, <3>2
      <4>2. G(n)[n] = 1 + G(n)[m]
        BY <1>4, <3>0, <3>2, <4>1
      <4>3. G(n)[m] = G(m)[m]
        <5>1. m <= n /\ m <= m
          BY <4>1
        <5> QED
          BY <1>5, <5>1
      <4>4. f[m] = G(m)[m]
        OBVIOUS
      <4> HIDE DEF f
      <4> QED
        BY <3>2, <4>1, <4>2, <4>3, <4>4
    <3> QED
      BY <3>1, <3>2
  <2> QED
    BY <2>1
<1> HIDE DEF f
<1>7. highest_bitSet = [n \in Nat |-> IF n < 2 THEN 0 ELSE 1 + highest_bitSet[n \div 2]]
  BY <1>6 DEF highest_bitSet
<1>8. highest_bitSet[1] = 0
  BY <1>7
<1>9. ASSUME NEW n \in Nat \ {0}
      PROVE  highest_bitSet[2 * n] = 1 + highest_bitSet[n]
  <2>1. PICK m \in Nat : m = 2 * n
    OBVIOUS
  <2>2. ~ (m < 2) /\ m \div 2 = n
    BY <2>1
  <2>3. highest_bitSet[m] = 1 + highest_bitSet[m \div 2]
    BY <1>7, <2>2
  <2> QED
    BY <2>1, <2>2, <2>3
<1> QED
  BY <1>8, <1>9

\* The bits of a power of two, and the order of the powers of two.
LEMMA BitsOfPower ==
  /\ \A k \in Nat : highest_bitSet[two_to[k]] = k
  /\ \A k, n \in Nat : k <= n => two_to[k] <= two_to[n]
  /\ \A k, n \in Nat : two_to[k + n] = two_to[k] * two_to[n]
<1>1. ASSUME NEW k \in Nat
      PROVE  highest_bitSet[two_to[k]] = k
  <2> DEFINE T == {n \in Nat : highest_bitSet[two_to[n]] = n}
  <2>1. 0 \in T
    BY TwoTo, HighestBit
  <2>2. ASSUME NEW n \in Nat, n \in T
        PROVE  n + 1 \in T
    <3>1. PICK p \in Nat \ {0} : p = two_to[n] /\ two_to[n + 1] = 2 * p
      BY TwoTo
    <3>2. highest_bitSet[2 * p] = 1 + highest_bitSet[p]
      BY HighestBit
    <3>3. highest_bitSet[p] = n
      BY <2>2, <3>1
    <3> QED
      BY <3>1, <3>2, <3>3
  <2> HIDE DEF T
  <2>3. k \in T
    BY <2>1, <2>2, Induction
  <2> QED
    BY <2>3 DEF T
<1>2. ASSUME NEW k \in Nat, NEW n \in Nat
      PROVE  two_to[k + n] = two_to[k] * two_to[n]
  <2> DEFINE T == {m \in Nat : two_to[k + m] = two_to[k] * two_to[m]}
  <2>0. PICK q \in Nat : q = two_to[k]
    BY TwoTo
  <2>1. 0 \in T
    <3>1. k + 0 = k /\ two_to[0] = 1
      BY TwoTo
    <3> QED
      BY <2>0, <3>1
  <2>2. ASSUME NEW m \in Nat, m \in T
        PROVE  m + 1 \in T
    <3>1. PICK p \in Nat, r \in Nat : /\ p = two_to[m] /\ r = two_to[k + m]
                                      /\ two_to[m + 1] = 2 * p /\ two_to[(k + m) + 1] = 2 * r
      BY TwoTo
    <3>2. r = q * p
      BY <2>0, <2>2, <3>1
    <3>3. 2 * (q * p) = q * (2 * p)
      OBVIOUS
    <3>4. k + (m + 1) = (k + m) + 1
      OBVIOUS
    <3> QED
      BY <2>0, <3>1, <3>2, <3>3, <3>4
  <2> HIDE DEF T
  <2>3. n \in T
    BY <2>1, <2>2, Induction
  <2> QED
    BY <2>3 DEF T
<1>3. ASSUME NEW k \in Nat, NEW n \in Nat, k <= n
      PROVE  two_to[k] <= two_to[n]
  <2>1. PICK m \in Nat : n = k + m
    <3>1. n - k \in Nat /\ n = k + (n - k)
      BY <1>3
    <3> QED
      BY <3>1
  <2>2. PICK p \in Nat \ {0}, q \in Nat \ {0} : p = two_to[k] /\ q = two_to[m]
    BY TwoTo
  <2>3. two_to[n] = p * q
    BY <1>2, <2>1, <2>2
  <2>4. p <= p * q
    <3>1. PICK r \in Nat : q = r + 1
      <4>1. q - 1 \in Nat /\ q = (q - 1) + 1
        OBVIOUS
      <4> QED
        BY <4>1
    <3>2. p * (r + 1) = p * r + p /\ p * r \in Nat
      OBVIOUS
    <3> QED
      BY <3>1, <3>2
  <2> QED
    BY <2>2, <2>3, <2>4
<1> QED
  BY <1>1, <1>2, <1>3

-----------------------------------------------------------------------------
\* size is one that main accepts.
Fixed == size \in Sizes /\ policy \in Policies /\ Accepted(size, policy)

\* Its fields, and those of policy.
LEMMA SizeType ==
  ASSUME Fixed
  PROVE  /\ size.setNum \in Nat \ {0} /\ size.blockNum \in Nat \ {0} /\ size.byteNum \in Nat
         /\ policy.write_through \in BOOLEAN /\ policy.write_allocate \in BOOLEAN
         /\ policy.lru \in BOOLEAN /\ (policy.write_allocate \/ policy.write_through)
<1>1. size \in Sizes /\ policy \in Policies /\ (policy.write_allocate \/ policy.write_through)
  BY DEF Fixed, Accepted
<1>2. Sizes \subseteq [setNum : Nat \ {0}, blockNum : Nat \ {0}, byteNum : Nat]
  BY CacheAssumption
<1>3. /\ size.setNum \in Nat \ {0} /\ size.blockNum \in Nat \ {0} /\ size.byteNum \in Nat
  BY <1>1, <1>2
<1>4. /\ policy.write_through \in BOOLEAN /\ policy.write_allocate \in BOOLEAN
      /\ policy.lru \in BOOLEAN
  BY <1>1 DEF Policies
<1> QED
  BY <1>1, <1>3, <1>4

\* index picks a set that exists, and a tag has at most ADDR_LEN - 2 bits.
LEMMA PartsOfAddress ==
  ASSUME Fixed, NEW address \in Addresses
  PROVE  index(address) \in Indices /\ tagOf(address) \in Tags
<1>1. PICK N \in Nat \ {0}, b \in Nat : N = size.setNum /\ b = size.byteNum
  BY SizeType
<1>2. PICK k \in Nat : N = two_to[k]
  <2>1. is_power_of_two(N)
    BY <1>1 DEF Fixed, Accepted
  <2>2. ADDR_LEN \in Nat
    BY CacheAssumption
  <2> QED
    BY <2>1, <2>2 DEF is_power_of_two
<1>3. b >= 4 /\ \E j \in Nat : b = two_to[j]
  <2>1. is_power_of_two(b) /\ b >= 4
    BY <1>1 DEF Fixed, Accepted
  <2>2. ADDR_LEN \in Nat
    BY CacheAssumption
  <2> QED
    BY <2>1, <2>2 DEF is_power_of_two
<1>4. PICK j \in Nat : b = two_to[j] /\ b >= 4
  BY <1>3
<1>5. PICK A \in Nat : A = ADDR_LEN /\ A >= 2 /\ N * b <= two_to[A]
  <2>1. ADDR_LEN \in Nat /\ ADDR_LEN >= 2
    BY CacheAssumption
  <2>2. N * b < two_to[ADDR_LEN] /\ N * b \in Nat
    BY <1>1, CacheAssumption DEF Fixed
  <2>3. two_to[ADDR_LEN] \in Nat
    BY <2>1, TwoTo
  <2> QED
    BY <2>1, <2>2, <2>3
<1>6. j >= 2
  <2>1. two_to[0] = 1 /\ two_to[1] = 2
    <3>1. 0 \in Nat /\ 0 + 1 = 1
      OBVIOUS
    <3>2. two_to[0 + 1] = 2 * two_to[0]
      BY <3>1, TwoTo
    <3> QED
      BY <3>1, <3>2, TwoTo
  <2>2. j # 0 /\ j # 1
    BY <1>4, <2>1
  <2> QED
    BY <2>2
<1>7. k + j <= A
  <2> SUFFICES ASSUME ~ (k + j <= A) PROVE FALSE
    OBVIOUS
  <2>1. A + 1 \in Nat /\ k + j \in Nat /\ A + 1 <= k + j
    BY <1>2, <1>4, <1>5
  <2>2. two_to[A + 1] <= two_to[k + j]
    BY <2>1, BitsOfPower
  <2>3. two_to[k + j] = N * b
    BY <1>2, <1>4, BitsOfPower
  <2>4. PICK p \in Nat \ {0} : p = two_to[A] /\ two_to[A + 1] = 2 * p
    BY TwoTo
  <2>5. PICK q \in Nat : q = N * b
    OBVIOUS
  <2> QED
    BY <1>5, <2>2, <2>3, <2>4, <2>5
<1>8. index_len = k /\ offset_len = j
  BY <1>1, <1>2, <1>4, BitsOfPower DEF index_len, offset_len
<1>9. PICK l \in Nat : l = tag_len /\ l <= A - 2
  <2>1. A - k - j \in Nat /\ A - k - j <= A - 2
    BY <1>6, <1>7
  <2> QED
    BY <1>5, <1>8, <2>1 DEF tag_len
<1>10. address \in Nat
  <2>1. two_to[ADDR_LEN] \in Nat
    BY CacheAssumption, TwoTo
  <2>2. address \in 0 .. two_to[ADDR_LEN] - 1
    BY CacheAssumption
  <2> QED
    BY <2>1, <2>2
<1>11. ASSUME NEW n \in Nat, NEW m \in Nat
       PROVE  get_low_sig(address, n, m) \in 0 .. two_to[m] - 1
  <2>1. PICK p \in Nat \ {0}, q \in Nat \ {0} : p = two_to[n] /\ q = two_to[m]
    BY TwoTo
  <2>2. address \div p \in Nat
    BY <1>10
  <2>3. PICK d \in Nat : d = address \div p
    BY <2>2
  <2>4. d % q \in 0 .. q - 1
    OBVIOUS
  <2> QED
    BY <2>1, <2>3, <2>4 DEF get_low_sig, get_least_sig_n
<1>12. index(address) \in Indices
  <2>1. get_low_sig(address, j, k) \in 0 .. N - 1
    BY <1>2, <1>11
  <2> QED
    BY <1>1, <1>8, <2>1 DEF index, Indices
<1>13. tagOf(address) \in Tags
  <2>1. j + k \in Nat
    OBVIOUS
  <2>2. get_low_sig(address, j + k, l) \in 0 .. two_to[l] - 1
    BY <1>11, <2>1
  <2>3. two_to[l] <= two_to[A - 2]
    BY <1>5, <1>9, BitsOfPower
  <2>4. PICK x \in Nat, y \in Nat : x = two_to[l] /\ y = two_to[A - 2]
    <3>1. A - 2 \in Nat
      BY <1>5
    <3> QED
      BY <3>1, TwoTo
  <2>5. get_low_sig(address, j + k, l) \in 0 .. y - 1
    BY <2>2, <2>3, <2>4
  <2>6. Tags = 0 .. y - 1
    BY <1>5, <2>4 DEF Tags
  <2> QED
    BY <1>8, <1>9, <2>5, <2>6 DEF tagOf
<1> QED
  BY <1>12, <1>13

-----------------------------------------------------------------------------
\* new is old without some elements and with others.
Replaced(new, old, gone, come) == new = (old \ gone) \cup come

\* The blocks of a set that main memory has an old copy of.
Spoilt(set) == {t \in DOMAIN set : set[t].second}

\* What the three ways to change a set do to them.
LEMMA SpoiltRenewed ==
  ASSUME NEW set, Ranks(set), NEW tag \in DOMAIN set
  PROVE  Spoilt(Renew(set, tag)) = Spoilt(set)
<1>1. CASE ~ policy.lru
  BY <1>1 DEF Renew
<1>2. CASE policy.lru
  <2> DEFINE new == Renew(set, tag)
  <2>1. DOMAIN new = DOMAIN set
    BY <1>2 DEF Renew
  <2>2. ASSUME NEW t \in DOMAIN set
        PROVE  new[t].second = set[t].second
    <3>1. PICK b \in Block : b = set[t]
      BY DEF Ranks
    <3>2. PICK n : new[t] = [b EXCEPT !.first = n]
      BY <1>2, <3>1 DEF Renew
    <3>3. new[t].second = b.second
      BY <3>2 DEF Block
    <3> QED
      BY <3>1, <3>3
  <2> HIDE DEF new
  <2>3. Spoilt(new) = Spoilt(set)
    BY <2>1, <2>2 DEF Spoilt
  <2> QED
    BY <2>3 DEF new
<1> QED
  BY <1>1, <1>2

\* A store makes the block dirty, unless the cache writes through.
LEMMA SpoiltWritten ==
  ASSUME NEW set, Ranks(set), NEW tag \in DOMAIN set, policy.write_through \in BOOLEAN
  PROVE  /\ Spoilt(Written(set, tag)) =
              Spoilt(set) \cup IF policy.write_through THEN {} ELSE {tag}
         /\ DOMAIN Written(set, tag) = DOMAIN set
<1> DEFINE new == Written(set, tag)
<1>1. PICK b \in Block : b = set[tag]
  BY DEF Ranks
<1>2. /\ DOMAIN new = DOMAIN set
      /\ new[tag] = [b EXCEPT !.second = b.second \/ ~ policy.write_through]
      /\ \A t \in DOMAIN set \ {tag} : new[t] = set[t]
  BY <1>1 DEF Written
<1> HIDE DEF new
<1>3. new[tag].second = (b.second \/ ~ policy.write_through) /\ b.second \in BOOLEAN
  BY <1>2 DEF Block
<1>4. CASE policy.write_through
  <2>1. new[tag].second = set[tag].second
    BY <1>1, <1>3, <1>4
  <2>2. \A t \in DOMAIN set : new[t].second = set[t].second
    BY <1>2, <2>1
  <2>3. Spoilt(new) = Spoilt(set)
    BY <1>2, <2>2 DEF Spoilt
  <2> QED
    BY <1>2, <1>4, <2>3 DEF new
<1>5. CASE ~ policy.write_through
  <2>1. new[tag].second
    BY <1>3, <1>5
  <2>2. Spoilt(new) = Spoilt(set) \cup {tag}
    BY <1>2, <2>1 DEF Spoilt
  <2> QED
    BY <1>2, <1>5, <2>2 DEF new
<1> QED
  BY <1>4, <1>5

\* A block brought in drops those that go, and is dirty itself or not.
LEMMA SpoiltInserted ==
  ASSUME NEW set, Ranks(set), NEW tag, tag \notin DOMAIN set, NEW gone, NEW dirty \in BOOLEAN,
         NEW come, come = IF dirty THEN {tag} ELSE {}
  PROVE  /\ Replaced(Spoilt(Insert(set, gone, tag, dirty)), Spoilt(set), gone, come)
         /\ DOMAIN Insert(set, gone, tag, dirty) = (DOMAIN set \ gone) \cup {tag}
<1> DEFINE new == Insert(set, gone, tag, dirty)
<1>1. /\ DOMAIN new = (DOMAIN set \ gone) \cup {tag}
      /\ new[tag] = [first |-> 0, second |-> dirty]
      /\ \A t \in DOMAIN set \ gone : new[t] = [set[t] EXCEPT !.first = @ + 1]
  BY DEF Insert, Older
<1> HIDE DEF new
<1>2. new[tag].second = dirty
  BY <1>1
<1>3. ASSUME NEW t \in DOMAIN set \ gone
      PROVE  new[t].second = set[t].second
  <2>1. PICK b \in Block : b = set[t]
    BY DEF Ranks
  <2>2. new[t] = [b EXCEPT !.first = b.first + 1]
    BY <1>1, <2>1
  <2>3. new[t].second = b.second
    BY <2>2 DEF Block
  <2> QED
    BY <2>1, <2>3
<1>4. Spoilt(new) = (Spoilt(set) \ gone) \cup IF dirty THEN {tag} ELSE {}
  <2>1. CASE dirty
    BY <1>1, <1>2, <1>3, <2>1 DEF Spoilt
  <2>2. CASE ~ dirty
    BY <1>1, <1>2, <1>3, <2>2 DEF Spoilt
  <2> QED
    BY <2>1, <2>2
<1> QED
  BY <1>1, <1>4 DEF new, Replaced

\* Dirty collects them from all sets.
LEMMA DirtyIsSpoilt ==
  Dirty = {b \in Indices \X Tags : b[2] \in Spoilt(data[b[1]])}
BY DEF Dirty, Spoilt

\* What a step that changes one set does to the blocks main memory lacks.
LEMMA DirtyChanges ==
  ASSUME Inv, NEW i \in Indices, NEW set, data' = [data EXCEPT ![i] = set], UNCHANGED size,
         NEW gone, NEW come, come \subseteq Tags,
         Replaced(Spoilt(set), Spoilt(data[i]), gone, come)
  PROVE  Replaced(Dirty', Dirty, {i} \X gone, {i} \X come)
<1>0. Spoilt(set) = (Spoilt(data[i]) \ gone) \cup come
  BY DEF Replaced
<1>1. Indices' = Indices /\ DOMAIN data = Indices
  BY DEF Inv, Indices
<1>2. data'[i] = set /\ \A k \in Indices \ {i} : data'[k] = data[k]
  BY <1>1
<1>3. Dirty' = {b \in Indices \X Tags : b[2] \in Spoilt(data'[b[1]])}
  BY <1>1 DEF Dirty, Spoilt
<1>4. ASSUME NEW b \in Indices \X Tags
      PROVE  (b \in Dirty') <=> (b \in (Dirty \ ({i} \X gone)) \cup ({i} \X come))
  <2>1. PICK k \in Indices, t \in Tags : b = <<k, t>>
    OBVIOUS
  <2>2. (b \in Dirty') <=> (t \in Spoilt(data'[k]))
    BY <1>3, <2>1
  <2>3. (b \in Dirty) <=> (t \in Spoilt(data[k]))
    BY <2>1, DirtyIsSpoilt
  <2>4. (b \in {i} \X gone <=> k = i /\ t \in gone) /\ (b \in {i} \X come <=> k = i /\ t \in come)
    BY <2>1
  <2>5. CASE k = i
    BY <1>0, <1>2, <2>2, <2>3, <2>4, <2>5
  <2>6. CASE k # i
    BY <1>2, <2>2, <2>3, <2>4, <2>6
  <2> QED
    BY <2>5, <2>6
<1>5. Dirty' \subseteq Indices \X Tags /\ Dirty \subseteq Indices \X Tags
      /\ {i} \X come \subseteq Indices \X Tags
  BY <1>3, DirtyIsSpoilt
<1> HIDE DEF Dirty
<1> QED
  BY <1>4, <1>5 DEF Replaced

-----------------------------------------------------------------------------
\* The tags that occur are tags of addresses, and size is what main accepted.
TagsOK == \A i \in Indices : DOMAIN data[i] \subseteq Tags

Counts == stats \in [DOMAIN NoStats -> Nat] /\ cycles \in Nat

\* A block evicted is written back if main memory lacks it.
LEMMA WrittenBack ==
  ASSUME Inv, NEW i \in Indices, NEW gone \in Evicted(i)
  PROVE  \/ /\ WriteBacks(i) = 0 /\ gone \cap Spoilt(data[i]) = {}
            /\ gone = {} \/ \E key \in DOMAIN data[i] : gone = {key}
         \/ /\ WriteBacks(i) = 1
            /\ \E key \in DOMAIN data[i] : key \in Spoilt(data[i]) /\ gone = {key}
<1>1. CASE ~ is_set_full(i)
  <2>1. gone = {} /\ WriteBacks(i) = 0
    BY <1>1 DEF Evicted, WriteBacks
  <2> QED
    BY <2>1
<1>2. CASE is_set_full(i)
  <2>1. PICK key \in DOMAIN data[i] : Oldest(i) = {key} /\ Evicted(i) = {{key}}
    BY <1>2, OneEvicted
  <2>2. gone = {key}
    BY <2>1
  <2>3. WriteBacks(i) = Cardinality({t \in {key} : data[i][t].second})
    BY <1>2, <2>1 DEF WriteBacks
  <2>4. CASE data[i][key].second
    <3>1. {t \in {key} : data[i][t].second} = {key} /\ key \in Spoilt(data[i])
      BY <2>1, <2>4 DEF Spoilt
    <3>2. Cardinality({key}) = 1
      BY FS_Singleton
    <3> QED
      BY <2>2, <2>3, <3>1, <3>2
  <2>5. CASE ~ data[i][key].second
    <3>1. {t \in {key} : data[i][t].second} = {} /\ key \notin Spoilt(data[i])
      BY <2>1, <2>5 DEF Spoilt
    <3>2. Cardinality({}) = 0
      BY FS_EmptySet
    <3>3. WriteBacks(i) = 0
      BY <2>3, <3>1, <3>2
    <3>4. gone \cap Spoilt(data[i]) = {}
      BY <2>2, <3>1
    <3> QED
      BY <2>1, <2>2, <3>3, <3>4
  <2> QED
    BY <2>4, <2>5
<1> QED
  BY <1>1, <1>2

\* What an access does: a hit, a block brought in, or a store that only memory
\* hears of.
Hit(i, tag, stored) ==
  /\ tag \in DOMAIN data[i]
  /\ data' = [data EXCEPT ![i] = IF stored THEN Written(Renew(@, tag), tag) ELSE Renew(@, tag)]

Miss(i, tag, gone, dirty) ==
  /\ tag \notin DOMAIN data[i] /\ gone \in Evicted(i)
  /\ data' = [data EXCEPT ![i] = Insert(@, gone, tag, dirty)]

\* After a hit the block is dirty if it was stored to and not written through.
LEMMA AfterHit ==
  ASSUME Inv, Fixed, TagsOK, UNCHANGED size, NEW i \in Indices, NEW tag \in Tags,
         NEW stored \in BOOLEAN, Hit(i, tag, stored)
  PROVE  /\ TagsOK'
         /\ Dirty' = Dirty \cup
              ({i} \X (IF stored /\ ~ policy.write_through THEN {tag} ELSE {}))
<1>1. Indices' = Indices /\ DOMAIN data = Indices /\ Tags' = Tags
  BY DEF Inv, Indices, Tags
<1>2. Ranks(data[i]) /\ tag \in DOMAIN data[i] /\ policy.write_through \in BOOLEAN
  BY SizeType DEF Inv, Hit
<1>3. PICK old : old = data[i]
  OBVIOUS
<1> DEFINE new == IF stored THEN Written(Renew(old, tag), tag) ELSE Renew(old, tag)
           come == IF stored /\ ~ policy.write_through THEN {tag} ELSE {}
<1>4. data' = [data EXCEPT ![i] = new]
  BY <1>3 DEF Hit
<1>5. Ranks(Renew(old, tag)) /\ DOMAIN Renew(old, tag) = DOMAIN old
      /\ Spoilt(Renew(old, tag)) = Spoilt(old)
  BY <1>2, <1>3, Renewed, SpoiltRenewed
<1>6. DOMAIN new = DOMAIN old /\ Spoilt(new) = Spoilt(old) \cup come
  <2>1. CASE stored
    <3>1. /\ Spoilt(Written(Renew(old, tag), tag)) =
               Spoilt(old) \cup IF policy.write_through THEN {} ELSE {tag}
          /\ DOMAIN Written(Renew(old, tag), tag) = DOMAIN old
      BY <1>2, <1>3, <1>5, SpoiltWritten
    <3> QED
      BY <1>2, <2>1, <3>1
  <2>2. CASE ~ stored
    BY <1>5, <2>2
  <2> QED
    BY <2>1, <2>2
<1>7. come \subseteq Tags
  OBVIOUS
<1> HIDE DEF new, come
<1>8. Spoilt(new) = (Spoilt(data[i]) \ {}) \cup come
  BY <1>3, <1>6
<1>9. Dirty' = (Dirty \ ({i} \X {})) \cup ({i} \X come)
  <2>1. PICK set, more : set = new /\ more = come
    OBVIOUS
  <2>2. data' = [data EXCEPT ![i] = set] /\ more \subseteq Tags
        /\ Replaced(Spoilt(set), Spoilt(data[i]), {}, more)
    BY <1>4, <1>7, <1>8, <2>1 DEF Replaced
  <2>3. Replaced(Dirty', Dirty, {i} \X {}, {i} \X more)
    BY <2>2, DirtyChanges
  <2> QED
    BY <2>1, <2>3 DEF Replaced
<1>10. TagsOK'
  <2>1. data'[i] = new /\ \A k \in Indices \ {i} : data'[k] = data[k]
    BY <1>1, <1>4
  <2>2. \A k \in Indices : DOMAIN data'[k] \subseteq Tags
    BY <1>3, <1>6, <2>1 DEF TagsOK
  <2> QED
    BY <1>1, <2>2 DEF TagsOK
<1>11. Dirty \ ({i} \X {}) = Dirty
  OBVIOUS
<1> QED
  BY <1>9, <1>10, <1>11 DEF come

\* After a miss the block that goes is no longer dirty.
LEMMA AfterMiss ==
  ASSUME Inv, Fixed, TagsOK, UNCHANGED size, NEW i \in Indices, NEW tag \in Tags,
         NEW gone, NEW dirty \in BOOLEAN, Miss(i, tag, gone, dirty)
  PROVE  /\ TagsOK'
         /\ Dirty' = (Dirty \ ({i} \X gone)) \cup ({i} \X (IF dirty THEN {tag} ELSE {}))
<1>1. Indices' = Indices /\ DOMAIN data = Indices /\ Tags' = Tags
  BY DEF Inv, Indices, Tags
<1>2. Ranks(data[i]) /\ tag \notin DOMAIN data[i]
  BY DEF Inv, Miss
<1>3. PICK old : old = data[i]
  OBVIOUS
<1> DEFINE new == Insert(old, gone, tag, dirty)
           come == IF dirty THEN {tag} ELSE {}
<1>4. data' = [data EXCEPT ![i] = new]
  BY <1>3 DEF Miss
<1>5. Replaced(Spoilt(new), Spoilt(old), gone, come) /\ DOMAIN new = (DOMAIN old \ gone) \cup {tag}
  <2>1. Ranks(old) /\ tag \notin DOMAIN old
    BY <1>2, <1>3
  <2>2. PICK set, more : set = old /\ more = come
    OBVIOUS
  <2>3. Ranks(set) /\ tag \notin DOMAIN set /\ more = IF dirty THEN {tag} ELSE {}
    BY <2>1, <2>2
  <2> HIDE DEF come
  <2>4. Replaced(Spoilt(Insert(set, gone, tag, dirty)), Spoilt(set), gone, more)
    BY <2>3, SpoiltInserted, ZenonT(60)
  <2>5. DOMAIN Insert(set, gone, tag, dirty) = (DOMAIN set \ gone) \cup {tag}
    BY <2>3, SpoiltInserted, ZenonT(60)
  <2> QED
    BY <2>2, <2>4, <2>5
<1>6. come \subseteq Tags
  OBVIOUS
<1> HIDE DEF new, come
<1>7. Dirty' = (Dirty \ ({i} \X gone)) \cup ({i} \X come)
  <2>1. Replaced(Spoilt(new), Spoilt(data[i]), gone, come)
    BY <1>3, <1>5
  <2>2. PICK set, more : set = new /\ more = come
    OBVIOUS
  <2>3. data' = [data EXCEPT ![i] = set] /\ more \subseteq Tags
        /\ Replaced(Spoilt(set), Spoilt(data[i]), gone, more)
    BY <1>4, <1>6, <2>1, <2>2 DEF Replaced
  <2>4. Replaced(Dirty', Dirty, {i} \X gone, {i} \X more)
    BY <2>3, DirtyChanges
  <2> QED
    BY <2>2, <2>4 DEF Replaced
<1>8. TagsOK'
  <2>1. data'[i] = new /\ \A k \in Indices \ {i} : data'[k] = data[k]
    BY <1>1, <1>4
  <2>2. \A k \in Indices : DOMAIN data'[k] \subseteq Tags
    BY <1>3, <1>5, <2>1 DEF TagsOK
  <2> QED
    BY <1>1, <2>2 DEF TagsOK
<1> QED
  BY <1>7, <1>8 DEF come

\* There are finitely many dirty blocks, so that they can be counted.
LEMMA DirtyFinite ==
  ASSUME Fixed
  PROVE  IsFiniteSet(Dirty) /\ Cardinality(Dirty) \in Nat
<1>1. IsFiniteSet(Indices) /\ IsFiniteSet(Tags)
  <2>1. PICK n \in Nat, m \in Nat : n = size.setNum /\ m = two_to[ADDR_LEN - 2]
    <3>1. ADDR_LEN - 2 \in Nat
      BY CacheAssumption
    <3> QED
      BY <3>1, SizeType, TwoTo
  <2>2. IsFiniteSet(0 .. n - 1) /\ IsFiniteSet(0 .. m - 1)
    BY FS_Interval
  <2> QED
    BY <2>1, <2>2 DEF Indices, Tags
<1>2. IsFiniteSet(Indices \X Tags)
  BY <1>1, FS_Product
<1>3. Dirty \subseteq Indices \X Tags
  BY DEF Dirty
<1> QED
  BY <1>2, <1>3, FS_Subset, FS_CardinalityType

-----------------------------------------------------------------------------
(***************************************************************************)
(* The account of the cycles.                                              *)
(***************************************************************************)
Hits == stats.totalLoad - stats.loadMiss + stats.storeHit
        + IF policy.write_allocate THEN stats.storeMiss ELSE 0
Fetched == stats.loadMiss + IF policy.write_allocate THEN stats.storeMiss ELSE 0
Through == IF policy.write_through THEN stats.totalStore ELSE 0
Stored == IF policy.write_through THEN 0 ELSE stats.totalStore
Charge(n) == 25 * size.byteNum * n

Fields == {"totalLoad", "totalStore", "loadHit", "loadMiss", "storeHit", "storeMiss"}

\* stats has these counters.
LEMMA FieldsOfStats == DOMAIN NoStats = Fields
BY DEF NoStats, Fields

\* The terms of the account are numbers, and a charge adds up.
LEMMA AccountType ==
  ASSUME Fixed, Counts
  PROVE  /\ Hits \in Int /\ Fetched \in Nat /\ Through \in Nat /\ Stored \in Nat
         /\ \A n \in Nat : Charge(n) \in Nat
         /\ \A n, m \in Nat : Charge(n + m) = Charge(n) + Charge(m)
<1>1. /\ stats.totalLoad \in Nat /\ stats.totalStore \in Nat /\ stats.loadHit \in Nat
      /\ stats.loadMiss \in Nat /\ stats.storeHit \in Nat /\ stats.storeMiss \in Nat
  BY FieldsOfStats DEF Counts, Fields
<1>2. /\ Hits \in Int /\ Fetched \in Nat /\ Through \in Nat /\ Stored \in Nat
  BY <1>1 DEF Hits, Fetched, Through, Stored
<1>3. PICK b \in Nat : b = 25 * size.byteNum
  BY SizeType
<1>4. ASSUME NEW n \in Nat, NEW m \in Nat
      PROVE  Charge(n) \in Nat /\ Charge(n + m) = Charge(n) + Charge(m)
  <2>1. b * n \in Nat /\ b * (n + m) = b * n + b * m
    OBVIOUS
  <2> QED
    BY <1>3, <2>1 DEF Charge
<1> QED
  BY <1>2, <1>4

\* CyclesAccounted in these terms.
LEMMA Accounted ==
  ASSUME Fixed
  PROVE  CyclesAccounted = (\E written \in 0 .. Stored :
           /\ cycles = Hits + Charge(Fetched + written) + 100 * Through
           /\ written + Cardinality(Dirty) <= Stored)
<1> HIDE DEF Dirty
<1> QED
  BY DEF CyclesAccounted, Hits, Fetched, Through, Stored, Charge

\* One of the counters of hits and misses and one of the totals go up.
LEMMA Counted ==
  ASSUME Counts, NEW h \in Fields, NEW t \in Fields, h # t, stats' = Count(h, t)
  PROVE  /\ stats' \in [DOMAIN NoStats -> Nat]
         /\ stats'[h] = stats[h] + 1 /\ stats'[t] = stats[t] + 1
         /\ \A f \in Fields \ {h, t} : stats'[f] = stats[f]
<1>1. stats \in [Fields -> Nat]
  BY FieldsOfStats DEF Counts
<1>2. stats' = [stats EXCEPT ![h] = stats[h] + 1, ![t] = stats[t] + 1]
  BY DEF Count
<1> QED
  BY <1>1, <1>2, FieldsOfStats

\* The cycles of a step, and the blocks it spoils.
LEMMA AccountGoes ==
  ASSUME Fixed, Fixed', Counts, CyclesAccounted, UNCHANGED <<size, policy>>,
         NEW dh \in Nat, NEW df \in Nat, NEW dt \in Nat, NEW ds \in Nat, NEW w \in Nat,
         Hits' = Hits + dh, Fetched' = Fetched + df, Through' = Through + dt,
         Stored' = Stored + ds,
         cycles' = cycles + dh + Charge(df + w) + 100 * dt,
         Cardinality(Dirty') \in Nat,
         Cardinality(Dirty') + w <= Cardinality(Dirty) + ds
  PROVE  CyclesAccounted'
<1> HIDE DEF Dirty
<1>1. PICK written \in 0 .. Stored :
           /\ cycles = Hits + Charge(Fetched + written) + 100 * Through
           /\ written + Cardinality(Dirty) <= Stored
  BY Accounted
<1>2. PICK H \in Int, F \in Nat, T \in Nat, S \in Nat, d \in Nat, e \in Nat, v \in Nat :
        /\ H = Hits /\ F = Fetched /\ T = Through /\ S = Stored /\ v = written
        /\ d = Cardinality(Dirty) /\ e = Cardinality(Dirty')
  <2>1. Hits \in Int /\ Fetched \in Nat /\ Through \in Nat /\ Stored \in Nat
    BY AccountType
  <2>2. Cardinality(Dirty) \in Nat
    BY DirtyFinite
  <2>3. written \in Nat
    BY <2>1
  <2> HIDE DEF Hits, Fetched, Through, Stored
  <2> QED
    BY <2>1, <2>2, <2>3
<1>3. Charge(F + v) \in Nat /\ Charge(df + w) \in Nat
      /\ Charge((F + v) + (df + w)) = Charge(F + v) + Charge(df + w)
  <2>1. F + v \in Nat /\ df + w \in Nat
    OBVIOUS
  <2> QED
    BY <2>1, AccountType
<1>4. PICK x \in Nat, y \in Nat : x = Charge(F + v) /\ y = Charge(df + w)
  BY <1>3
<1>5. Charge(Fetched' + (v + w)) = x + y
  <2>1. Fetched' + (v + w) = (F + v) + (df + w)
    BY <1>2
  <2> QED
    BY <1>3, <1>4, <2>1
<1>6. cycles' = Hits' + Charge(Fetched' + (v + w)) + 100 * Through'
  <2>1. cycles = H + x + 100 * T
    BY <1>1, <1>2, <1>4
  <2>2. cycles' = cycles + dh + y + 100 * dt
    BY <1>4
  <2>3. Hits' = H + dh /\ Through' = T + dt
    BY <1>2
  <2> HIDE DEF Hits, Through, Fetched
  <2> QED
    BY <1>5, <2>1, <2>2, <2>3
<1>7. v + w \in 0 .. Stored' /\ (v + w) + Cardinality(Dirty') <= Stored'
  BY <1>1, <1>2
<1>8. cycles' = Hits' + Charge(Fetched + (v + w))' + 100 * Through'
  BY <1>6 DEF Charge
<1>9. \E u \in 0 .. Stored' :
           /\ cycles' = Hits' + Charge(Fetched + u)' + 100 * Through'
           /\ u + Cardinality(Dirty') <= Stored'
  BY <1>7, <1>8
<1> QED
  BY <1>9 DEF CyclesAccounted, Hits, Fetched, Through, Stored, Charge

\* A step that changes one set.
LEMMA DirtyCount ==
  ASSUME Inv, Fixed, TagsOK, NEW i \in Indices, NEW gone \in Evicted(i), NEW come,
         Dirty' = (Dirty \ ({i} \X gone)) \cup ({i} \X come),
         come = {} \/ \E tag : come = {tag}
  PROVE  /\ Cardinality(Dirty') \in Nat
         /\ Cardinality(Dirty') + WriteBacks(i)
              <= Cardinality(Dirty) + IF come = {} THEN 0 ELSE 1
<1> DEFINE kept == Dirty \ ({i} \X gone)
<1> HIDE DEF Dirty
<1>1. IsFiniteSet(Dirty) /\ Cardinality(Dirty) \in Nat
  BY DirtyFinite
<1>2. /\ IsFiniteSet(kept) /\ Cardinality(kept) \in Nat /\ WriteBacks(i) \in Nat
      /\ Cardinality(kept) + WriteBacks(i) <= Cardinality(Dirty)
  <2>1. CASE WriteBacks(i) = 0
    BY <1>1, <2>1, FS_Subset, FS_CardinalityType
  <2>2. CASE /\ WriteBacks(i) = 1
             /\ \E key \in DOMAIN data[i] : key \in Spoilt(data[i]) /\ gone = {key}
    <3>1. PICK key \in DOMAIN data[i] : key \in Spoilt(data[i]) /\ gone = {key}
      BY <2>2
    <3>2. <<i, key>> \in Dirty
      <4>1. key \in Tags
        BY DEF TagsOK
      <4> QED
        BY <3>1, <4>1, DirtyIsSpoilt
    <3>3. kept = Dirty \ {<<i, key>>}
      <4>1. {i} \X gone = {<<i, key>>}
        BY <3>1
      <4> QED
        BY <4>1
    <3> HIDE DEF kept
    <3>4. IsFiniteSet(kept) /\ Cardinality(kept) = Cardinality(Dirty) - 1
      BY <1>1, <3>2, <3>3, FS_RemoveElement
    <3>5. Cardinality(kept) \in Nat
      BY <3>4, FS_CardinalityType
    <3> QED
      BY <1>1, <2>2, <3>4, <3>5
  <2> QED
    BY <2>1, <2>2, WrittenBack
<1> HIDE DEF kept
<1>3. CASE come = {}
  <2>1. Dirty' = kept
    BY <1>3 DEF kept
  <2>2. Cardinality(Dirty') = Cardinality(kept)
    BY <2>1
  <2>3. (IF come = {} THEN 0 ELSE 1) = 0
    BY <1>3
  <2> HIDE DEF Spoilt
  <2> QED
    BY <1>1, <1>2, <2>2, <2>3
<1>4. CASE come # {}
  <2>1. PICK tag : come = {tag}
    BY <1>4
  <2>2. Dirty' = kept \cup {<<i, tag>>}
    BY <2>1 DEF kept
  <2>3. PICK b : b = <<i, tag>>
    OBVIOUS
  <2>4. /\ IsFiniteSet(kept \cup {b})
        /\ Cardinality(kept \cup {b}) = Cardinality(kept)
           \/ Cardinality(kept \cup {b}) = Cardinality(kept) + 1
    BY <1>2, FS_AddElement
  <2>5. Cardinality(Dirty') = Cardinality(kept) \/ Cardinality(Dirty') = Cardinality(kept) + 1
    BY <2>2, <2>3, <2>4
  <2> QED
    BY <1>1, <1>2, <1>4, <2>5
<1> QED
  BY <1>3, <1>4

\* A hit makes one more block dirty at most.
LEMMA DirtyMore ==
  ASSUME Fixed, NEW i, NEW come,
         Dirty' = Dirty \cup ({i} \X come), come = {} \/ \E tag : come = {tag}
  PROVE  /\ Cardinality(Dirty') \in Nat
         /\ Cardinality(Dirty') <= Cardinality(Dirty) + IF come = {} THEN 0 ELSE 1
<1> HIDE DEF Dirty
<1>1. IsFiniteSet(Dirty) /\ Cardinality(Dirty) \in Nat
  BY DirtyFinite
<1>2. CASE come = {}
  <2>1. Dirty' = Dirty
    BY <1>2
  <2>2. Cardinality(Dirty') = Cardinality(Dirty)
    BY <2>1
  <2>3. (IF come = {} THEN 0 ELSE 1) = 0
    BY <1>2
  <2> QED
    BY <1>1, <2>2, <2>3
<1>3. CASE come # {}
  <2>1. PICK tag : come = {tag}
    BY <1>3
  <2>2. PICK b : b = <<i, tag>>
    OBVIOUS
  <2>3. Dirty' = Dirty \cup {b}
    BY <2>1, <2>2
  <2>4. /\ IsFiniteSet(Dirty \cup {b})
        /\ Cardinality(Dirty \cup {b}) = Cardinality(Dirty)
           \/ Cardinality(Dirty \cup {b}) = Cardinality(Dirty) + 1
    BY <1>1, FS_AddElement
  <2>5. Cardinality(Dirty') = Cardinality(Dirty) \/ Cardinality(Dirty') = Cardinality(Dirty) + 1
    BY <2>3, <2>4
  <2> QED
    BY <1>1, <1>3, <2>5
<1> QED
  BY <1>2, <1>3

-----------------------------------------------------------------------------
(***************************************************************************)
(* load and store, as what they do to the set, the counts and the cycles.  *)
(***************************************************************************)
Waits == IF policy.write_through THEN 100 ELSE 0

LoadHit(i, tag) == /\ Hit(i, tag, FALSE)
                   /\ stats' = Count("loadHit", "totalLoad")
                   /\ cycles' = cycles + 1
LoadMiss(i, tag, gone) == /\ Miss(i, tag, gone, FALSE)
                          /\ stats' = Count("loadMiss", "totalLoad")
                          /\ cycles' = cycles + Charge(1 + WriteBacks(i))
StoreHit(i, tag) == /\ Hit(i, tag, TRUE)
                    /\ stats' = Count("storeHit", "totalStore")
                    /\ cycles' = cycles + 1 + Waits
StoreMiss(i, tag, gone, dirty) ==
  /\ policy.write_allocate /\ dirty = ~ policy.write_through
  /\ Miss(i, tag, gone, dirty)
  /\ stats' = Count("storeMiss", "totalStore")
  /\ cycles' = cycles + Charge(1 + WriteBacks(i)) + 1 + Waits
StorePast(i, tag) == /\ ~ policy.write_allocate
                     /\ tag \notin DOMAIN data[i] /\ data' = data
                     /\ stats' = Count("storeMiss", "totalStore")
                     /\ cycles' = cycles + 100

\* Every load is a hit or a miss.
LEMMA LoadIs ==
  ASSUME Fixed, NEW address \in Addresses, load(address)
  PROVE  \E i \in Indices, tag \in Tags :
           \/ LoadHit(i, tag)
           \/ \E gone : LoadMiss(i, tag, gone)
<1>1. PICK i \in Indices, tag \in Tags : i = index(address) /\ tag = tagOf(address)
  BY PartsOfAddress
<1>2. CASE is_hit(i, tag) /\ count_load_hit(i, tag)
  BY <1>2 DEF LoadHit, Hit, is_hit, count_load_hit
<1>3. CASE ~ is_hit(i, tag) /\ count_load_miss(i, tag)
  BY <1>3 DEF LoadMiss, Miss, is_hit, count_load_miss, Charge
<1> QED
  BY <1>1, <1>2, <1>3 DEF load

\* Every store is a hit, a miss that brings the block in, or goes past the cache.
LEMMA StoreIs ==
  ASSUME Fixed, NEW address \in Addresses, store(address)
  PROVE  \E i \in Indices, tag \in Tags :
           \/ StoreHit(i, tag)
           \/ \E gone : \E dirty \in BOOLEAN : StoreMiss(i, tag, gone, dirty)
           \/ StorePast(i, tag)
<1>1. PICK i \in Indices, tag \in Tags : i = index(address) /\ tag = tagOf(address)
  BY PartsOfAddress
<1>2. CASE is_hit(i, tag) /\ count_store_hit(i, tag)
  BY <1>2 DEF StoreHit, Hit, is_hit, count_store_hit, Waits
<1>3. CASE ~ is_hit(i, tag) /\ count_store_miss(i, tag)
  <2>1. CASE policy.write_allocate
    <3>1. PICK dirty \in BOOLEAN : dirty = ~ policy.write_through
      OBVIOUS
    <3>2. PICK gone \in Evicted(i) :
            data' = [data EXCEPT ![i] = Insert(data[i], gone, tag, ~ policy.write_through)]
      BY <1>3, <2>1 DEF count_store_miss
    <3>3. Miss(i, tag, gone, dirty)
      BY <1>3, <3>1, <3>2 DEF Miss, is_hit
    <3>4. /\ stats' = Count("storeMiss", "totalStore")
          /\ cycles' = cycles + Charge(1 + WriteBacks(i)) + 1 + Waits
      BY <1>3, <2>1 DEF count_store_miss, Charge, Waits
    <3>5. StoreMiss(i, tag, gone, dirty)
      BY <2>1, <3>1, <3>3, <3>4 DEF StoreMiss
    <3> QED
      BY <3>5, Zenon
  <2>2. CASE ~ policy.write_allocate
    BY <1>3, <2>2 DEF StorePast, is_hit, count_store_miss
  <2> QED
    BY <2>1, <2>2
<1> QED
  BY <1>1, <1>2, <1>3 DEF store

-----------------------------------------------------------------------------
(***************************************************************************)
(* What each of them does to the account.                                  *)
(***************************************************************************)
LEMMA LoadHitStep ==
  ASSUME Inv, Fixed, Fixed', TagsOK, Counts, CyclesAccounted, UNCHANGED <<size, policy>>,
         NEW i \in Indices, NEW tag \in Tags, LoadHit(i, tag)
  PROVE  TagsOK' /\ Counts' /\ CyclesAccounted'
<1> HIDE DEF Dirty, CyclesAccounted
<1>1. /\ stats' \in [DOMAIN NoStats -> Nat]
      /\ stats'["loadHit"] = stats["loadHit"] + 1
      /\ stats'["totalLoad"] = stats["totalLoad"] + 1
      /\ \A f \in Fields \ {"loadHit", "totalLoad"} : stats'[f] = stats[f]
  BY Counted DEF LoadHit, Fields
<1>2. /\ TagsOK'
      /\ Dirty' = Dirty \cup ({i} \X (IF FALSE /\ ~ policy.write_through THEN {tag} ELSE {}))
  BY AfterHit DEF LoadHit
<1>3. Cardinality(Dirty') \in Nat /\ Cardinality(Dirty') <= Cardinality(Dirty)
  <2>1. Dirty' = Dirty \cup ({i} \X {})
    BY <1>2
  <2>2. (IF {} = {} THEN 0 ELSE 1) = 0
    OBVIOUS
  <2>3. Cardinality(Dirty) \in Nat
    BY DirtyFinite
  <2>4. Dirty' = Dirty
    BY <2>1
  <2>5. Cardinality(Dirty') = Cardinality(Dirty)
    BY <2>4
  <2> QED
    BY <2>3, <2>5
<1>4. cycles' = cycles + 1 /\ Counts'
  BY <1>1 DEF LoadHit, Counts
<1>5. /\ Hits' = Hits + 1 /\ Fetched' = Fetched /\ Through' = Through /\ Stored' = Stored
  <2>1. /\ stats'.totalLoad = stats.totalLoad + 1 /\ stats'.loadMiss = stats.loadMiss
        /\ stats'.storeHit = stats.storeHit /\ stats'.storeMiss = stats.storeMiss
        /\ stats'.totalStore = stats.totalStore
    BY <1>1 DEF Fields
  <2>2. stats \in [Fields -> Nat]
    BY FieldsOfStats DEF Counts
  <2>3. stats.totalLoad \in Nat /\ stats.loadMiss \in Nat /\ stats.storeHit \in Nat
        /\ stats.storeMiss \in Nat /\ stats.totalStore \in Nat
    BY <2>2 DEF Fields
  <2> QED
    BY <2>1, <2>3 DEF Hits, Fetched, Through, Stored
<1>6. cycles' = cycles + 1 + Charge(0 + 0) + 100 * 0
  <2>1. Charge(0 + 0) = 0
    BY SizeType DEF Charge
  <2>2. cycles \in Nat
    BY DEF Counts
  <2> QED
    BY <1>4, <2>1, <2>2
<1>7. Hits \in Int /\ Fetched \in Nat /\ Through \in Nat /\ Stored \in Nat
  BY AccountType
<1> HIDE DEF Hits, Fetched, Through, Stored, Fixed
<1>8. /\ Hits' = Hits + 1 /\ Fetched' = Fetched + 0 /\ Through' = Through + 0
      /\ Stored' = Stored + 0
      /\ Cardinality(Dirty') + 0 <= Cardinality(Dirty) + 0
  <2>1. Cardinality(Dirty) \in Nat
    BY DirtyFinite
  <2> QED
    BY <1>3, <1>5, <1>7, <2>1
<1>9. 0 \in Nat /\ 1 \in Nat
  OBVIOUS
<1>10. CyclesAccounted'
  BY <1>3, <1>6, <1>8, <1>9, AccountGoes
<1> QED
  BY <1>2, <1>4, <1>10

\* The block brought in is charged, and the one written back.
LEMMA LoadMissStep ==
  ASSUME Inv, Fixed, Fixed', TagsOK, Counts, CyclesAccounted, UNCHANGED <<size, policy>>,
         NEW i \in Indices, NEW tag \in Tags, NEW gone, LoadMiss(i, tag, gone)
  PROVE  TagsOK' /\ Counts' /\ CyclesAccounted'
<1> HIDE DEF Dirty, CyclesAccounted
<1>1. /\ stats' \in [DOMAIN NoStats -> Nat]
      /\ stats'["loadMiss"] = stats["loadMiss"] + 1
      /\ stats'["totalLoad"] = stats["totalLoad"] + 1
      /\ \A f \in Fields \ {"loadMiss", "totalLoad"} : stats'[f] = stats[f]
  BY Counted DEF LoadMiss, Fields
<1>2. TagsOK' /\ Dirty' = (Dirty \ ({i} \X gone)) \cup ({i} \X {})
  BY AfterMiss DEF LoadMiss
<1>3. PICK w \in Nat : w = WriteBacks(i)
  <2>1. gone \in Evicted(i)
    BY DEF LoadMiss, Miss
  <2> QED
    BY <2>1, WrittenBack
<1>4. Cardinality(Dirty') \in Nat /\ Cardinality(Dirty') + w <= Cardinality(Dirty) + 0
  <2>1. gone \in Evicted(i)
    BY DEF LoadMiss, Miss
  <2>2. PICK come : come = {}
    OBVIOUS
  <2>3. Dirty' = (Dirty \ ({i} \X gone)) \cup ({i} \X come)
    BY <1>2, <2>2
  <2>4. /\ Cardinality(Dirty') \in Nat
        /\ Cardinality(Dirty') + WriteBacks(i)
              <= Cardinality(Dirty) + IF come = {} THEN 0 ELSE 1
    BY <2>1, <2>2, <2>3, DirtyCount
  <2>5. (IF come = {} THEN 0 ELSE 1) = 0
    BY <2>2
  <2> QED
    BY <1>3, <2>4, <2>5
<1>5. /\ Hits' = Hits /\ Fetched' = Fetched + 1 /\ Through' = Through /\ Stored' = Stored
  <2>1. /\ stats'.totalLoad = stats.totalLoad + 1 /\ stats'.loadMiss = stats.loadMiss + 1
        /\ stats'.storeHit = stats.storeHit /\ stats'.storeMiss = stats.storeMiss
        /\ stats'.totalStore = stats.totalStore
    BY <1>1 DEF Fields
  <2>2. stats \in [Fields -> Nat]
    BY FieldsOfStats DEF Counts
  <2>3. stats.totalLoad \in Nat /\ stats.loadMiss \in Nat /\ stats.storeHit \in Nat
        /\ stats.storeMiss \in Nat /\ stats.totalStore \in Nat
    BY <2>2 DEF Fields
  <2> QED
    BY <2>1, <2>3 DEF Hits, Fetched, Through, Stored
<1>6. PICK c \in Nat : c = Charge(1 + w)
  <2>1. 1 + w \in Nat
    OBVIOUS
  <2> QED
    BY <2>1, AccountType
<1>7. cycles' = cycles + c /\ cycles \in Nat /\ Counts'
  BY <1>1, <1>3, <1>6 DEF LoadMiss, Counts
<1>8. Hits \in Int /\ Fetched \in Nat /\ Through \in Nat /\ Stored \in Nat
  BY AccountType
<1> HIDE DEF Hits, Fetched, Through, Stored, Fixed
<1>9. /\ Hits' = Hits + 0 /\ Fetched' = Fetched + 1 /\ Through' = Through + 0
      /\ Stored' = Stored + 0
      /\ cycles' = cycles + 0 + Charge(1 + w) + 100 * 0
  BY <1>5, <1>6, <1>7, <1>8
<1>10. 0 \in Nat /\ 1 \in Nat
  OBVIOUS
<1>11. CyclesAccounted'
  BY <1>4, <1>9, <1>10, AccountGoes
<1> QED
  BY <1>2, <1>7, <1>11

\* A store of a block that is held.
LEMMA StoreHitStep ==
  ASSUME Inv, Fixed, Fixed', TagsOK, Counts, CyclesAccounted, UNCHANGED <<size, policy>>,
         NEW i \in Indices, NEW tag \in Tags, StoreHit(i, tag)
  PROVE  TagsOK' /\ Counts' /\ CyclesAccounted'
<1> HIDE DEF Dirty, CyclesAccounted
<1>1. /\ stats' \in [DOMAIN NoStats -> Nat]
      /\ stats'["storeHit"] = stats["storeHit"] + 1
      /\ stats'["totalStore"] = stats["totalStore"] + 1
      /\ \A f \in Fields \ {"storeHit", "totalStore"} : stats'[f] = stats[f]
  BY Counted DEF StoreHit, Fields
<1>2. PICK come : /\ come = IF policy.write_through THEN {} ELSE {tag}
                  /\ TagsOK' /\ Dirty' = Dirty \cup ({i} \X come)
  <2>1. /\ TagsOK'
        /\ Dirty' = Dirty \cup
             ({i} \X (IF TRUE /\ ~ policy.write_through THEN {tag} ELSE {}))
    BY AfterHit DEF StoreHit
  <2> QED
    BY <2>1
<1>3. PICK dt \in {0, 1}, ds \in {0, 1} :
        /\ dt = IF policy.write_through THEN 1 ELSE 0
        /\ ds = IF policy.write_through THEN 0 ELSE 1
        /\ ds = IF come = {} THEN 0 ELSE 1
  BY <1>2
<1>4. Cardinality(Dirty') \in Nat /\ Cardinality(Dirty') + 0 <= Cardinality(Dirty) + ds
  <2>1. come = {} \/ \E t : come = {t}
    BY <1>2
  <2>2. /\ Cardinality(Dirty') \in Nat
        /\ Cardinality(Dirty') <= Cardinality(Dirty) + IF come = {} THEN 0 ELSE 1
    BY <1>2, <2>1, DirtyMore
  <2> QED
    BY <1>3, <2>2
<1>5. stats.totalLoad \in Nat /\ stats.loadMiss \in Nat /\ stats.storeHit \in Nat
      /\ stats.storeMiss \in Nat /\ stats.totalStore \in Nat
  <2>1. stats \in [Fields -> Nat]
    BY FieldsOfStats DEF Counts
  <2> QED
    BY <2>1 DEF Fields
<1>6. /\ Hits' = Hits + 1 /\ Fetched' = Fetched + 0 /\ Through' = Through + dt
      /\ Stored' = Stored + ds
  <2>1. /\ stats'.totalLoad = stats.totalLoad /\ stats'.loadMiss = stats.loadMiss
        /\ stats'.storeHit = stats.storeHit + 1 /\ stats'.storeMiss = stats.storeMiss
        /\ stats'.totalStore = stats.totalStore + 1
    BY <1>1 DEF Fields
  <2>2. Hits' = Hits + 1 /\ Fetched' = Fetched + 0
    BY <1>5, <2>1 DEF Hits, Fetched
  <2>3. Through' = Through + dt /\ Stored' = Stored + ds
    <3>1. CASE policy.write_through
      BY <1>3, <1>5, <2>1, <3>1 DEF Through, Stored
    <3>2. CASE ~ policy.write_through
      BY <1>3, <1>5, <2>1, <3>2 DEF Through, Stored
    <3> QED
      BY <3>1, <3>2
  <2> QED
    BY <2>2, <2>3
<1>7. cycles' = cycles + 1 + Charge(0 + 0) + 100 * dt /\ Counts'
  <2>1. Charge(0 + 0) = 0
    BY SizeType DEF Charge
  <2>2. cycles \in Nat
    BY DEF Counts
  <2>3. Waits = 100 * dt /\ Waits \in Nat
    BY <1>3 DEF Waits
  <2>4. cycles' = cycles + 1 + Waits
    BY DEF StoreHit
  <2> QED
    BY <1>1, <2>1, <2>2, <2>3, <2>4 DEF Counts
<1> HIDE DEF Hits, Fetched, Through, Stored, Fixed
<1>8. 0 \in Nat /\ 1 \in Nat /\ dt \in Nat /\ ds \in Nat
  OBVIOUS
<1>9. CyclesAccounted'
  BY <1>4, <1>6, <1>7, <1>8, AccountGoes
<1> QED
  BY <1>2, <1>7, <1>9

\* A store that brings its block in.
LEMMA StoreMissStep ==
  ASSUME Inv, Fixed, Fixed', TagsOK, Counts, CyclesAccounted, UNCHANGED <<size, policy>>,
         NEW i \in Indices, NEW tag \in Tags, NEW gone, NEW dirty \in BOOLEAN,
         StoreMiss(i, tag, gone, dirty)
  PROVE  TagsOK' /\ Counts' /\ CyclesAccounted'
<1> HIDE DEF Dirty, CyclesAccounted
<1>1. /\ stats' \in [DOMAIN NoStats -> Nat]
      /\ stats'["storeMiss"] = stats["storeMiss"] + 1
      /\ stats'["totalStore"] = stats["totalStore"] + 1
      /\ \A f \in Fields \ {"storeMiss", "totalStore"} : stats'[f] = stats[f]
  BY Counted DEF StoreMiss, Fields
<1>2. PICK come : /\ come = IF policy.write_through THEN {} ELSE {tag}
                  /\ TagsOK' /\ Dirty' = (Dirty \ ({i} \X gone)) \cup ({i} \X come)
  <2>1. Miss(i, tag, gone, dirty) /\ dirty = ~ policy.write_through
    BY DEF StoreMiss
  <2>2. /\ TagsOK'
        /\ Dirty' = (Dirty \ ({i} \X gone)) \cup ({i} \X (IF dirty THEN {tag} ELSE {}))
    BY <2>1, AfterMiss, Zenon
  <2>3. (IF dirty THEN {tag} ELSE {}) = IF policy.write_through THEN {} ELSE {tag}
    BY <2>1, Zenon
  <2> QED
    BY <2>2, <2>3, Zenon
<1>3. PICK dt \in {0, 1}, ds \in {0, 1} :
        /\ dt = IF policy.write_through THEN 1 ELSE 0
        /\ ds = IF policy.write_through THEN 0 ELSE 1
        /\ ds = IF come = {} THEN 0 ELSE 1
  BY <1>2
<1>4. PICK w \in Nat : w = WriteBacks(i) /\ gone \in Evicted(i)
  <2>1. gone \in Evicted(i)
    BY DEF StoreMiss, Miss
  <2> QED
    BY <2>1, WrittenBack
<1>5. Cardinality(Dirty') \in Nat /\ Cardinality(Dirty') + w <= Cardinality(Dirty) + ds
  <2>1. come = {} \/ \E t : come = {t}
    BY <1>2
  <2>2. /\ Cardinality(Dirty') \in Nat
        /\ Cardinality(Dirty') + WriteBacks(i)
              <= Cardinality(Dirty) + IF come = {} THEN 0 ELSE 1
    BY <1>2, <1>4, <2>1, DirtyCount
  <2> QED
    BY <1>3, <1>4, <2>2
<1>6. stats.totalLoad \in Nat /\ stats.loadMiss \in Nat /\ stats.storeHit \in Nat
      /\ stats.storeMiss \in Nat /\ stats.totalStore \in Nat
  <2>1. stats \in [Fields -> Nat]
    BY FieldsOfStats DEF Counts
  <2> QED
    BY <2>1 DEF Fields
<1>7. /\ Hits' = Hits + 1 /\ Fetched' = Fetched + 1 /\ Through' = Through + dt
      /\ Stored' = Stored + ds
  <2>1. /\ stats'.totalLoad = stats.totalLoad /\ stats'.loadMiss = stats.loadMiss
        /\ stats'.storeHit = stats.storeHit /\ stats'.storeMiss = stats.storeMiss + 1
        /\ stats'.totalStore = stats.totalStore + 1
    BY <1>1 DEF Fields
  <2>2. Hits' = Hits + 1 /\ Fetched' = Fetched + 1
    BY <1>6, <2>1 DEF Hits, Fetched, StoreMiss
  <2>3. Through' = Through + dt /\ Stored' = Stored + ds
    <3>1. CASE policy.write_through
      BY <1>3, <1>6, <2>1, <3>1 DEF Through, Stored
    <3>2. CASE ~ policy.write_through
      BY <1>3, <1>6, <2>1, <3>2 DEF Through, Stored
    <3> QED
      BY <3>1, <3>2
  <2> QED
    BY <2>2, <2>3
<1>8. cycles' = cycles + 1 + Charge(1 + w) + 100 * dt /\ Counts'
  <2>1. PICK c \in Nat : c = Charge(1 + w)
    <3>1. 1 + w \in Nat
      OBVIOUS
    <3> QED
      BY <3>1, AccountType
  <2>2. cycles \in Nat
    BY DEF Counts
  <2>3. Waits = 100 * dt /\ Waits \in Nat
    BY <1>3 DEF Waits
  <2>4. cycles' = cycles + c + 1 + Waits
    BY <1>4, <2>1 DEF StoreMiss
  <2>5. cycles' = cycles + 1 + c + 100 * dt /\ cycles' \in Nat
    BY <2>2, <2>3, <2>4
  <2> QED
    BY <1>1, <2>1, <2>5 DEF Counts
<1> HIDE DEF Hits, Fetched, Through, Stored, Fixed
<1>9. 1 \in Nat /\ dt \in Nat /\ ds \in Nat
  OBVIOUS
<1>10. CyclesAccounted'
  BY <1>5, <1>7, <1>8, <1>9, AccountGoes
<1> QED
  BY <1>2, <1>8, <1>10

\* A store that only memory hears of.
LEMMA StorePastStep ==
  ASSUME Inv, Fixed, Fixed', TagsOK, Counts, CyclesAccounted, UNCHANGED <<size, policy>>,
         NEW i \in Indices, NEW tag \in Tags, StorePast(i, tag)
  PROVE  TagsOK' /\ Counts' /\ CyclesAccounted'
<1> HIDE DEF Dirty, CyclesAccounted
<1>1. /\ stats' \in [DOMAIN NoStats -> Nat]
      /\ stats'["storeMiss"] = stats["storeMiss"] + 1
      /\ stats'["totalStore"] = stats["totalStore"] + 1
      /\ \A f \in Fields \ {"storeMiss", "totalStore"} : stats'[f] = stats[f]
  BY Counted DEF StorePast, Fields
<1>2. TagsOK' /\ Dirty' = Dirty
  BY DEF StorePast, TagsOK, Dirty, Indices, Tags
<1>3. ~ policy.write_allocate /\ policy.write_through
  BY SizeType DEF StorePast
<1>4. Cardinality(Dirty') \in Nat /\ Cardinality(Dirty') + 0 <= Cardinality(Dirty) + 0
  <2>1. Cardinality(Dirty) \in Nat
    BY DirtyFinite
  <2>2. Cardinality(Dirty') = Cardinality(Dirty)
    BY <1>2
  <2> QED
    BY <2>1, <2>2
<1>5. stats.totalLoad \in Nat /\ stats.loadMiss \in Nat /\ stats.storeHit \in Nat
      /\ stats.storeMiss \in Nat /\ stats.totalStore \in Nat
  <2>1. stats \in [Fields -> Nat]
    BY FieldsOfStats DEF Counts
  <2> QED
    BY <2>1 DEF Fields
<1>6. /\ Hits' = Hits + 0 /\ Fetched' = Fetched + 0 /\ Through' = Through + 1
      /\ Stored' = Stored + 0
  <2>1. /\ stats'.totalLoad = stats.totalLoad /\ stats'.loadMiss = stats.loadMiss
        /\ stats'.storeHit = stats.storeHit
        /\ stats'.totalStore = stats.totalStore + 1
    BY <1>1 DEF Fields
  <2> QED
    BY <1>3, <1>5, <2>1 DEF Hits, Fetched, Through, Stored
<1>7. cycles' = cycles + 0 + Charge(0 + 0) + 100 * 1 /\ Counts'
  <2>1. Charge(0 + 0) = 0
    BY SizeType DEF Charge
  <2>2. cycles \in Nat /\ cycles' = cycles + 100
    BY DEF Counts, StorePast
  <2> QED
    BY <1>1, <2>1, <2>2 DEF Counts
<1> HIDE DEF Hits, Fetched, Through, Stored, Fixed
<1>8. 0 \in Nat /\ 1 \in Nat
  OBVIOUS
<1>9. CyclesAccounted'
  BY <1>4, <1>6, <1>7, <1>8, AccountGoes
<1> QED
  BY <1>2, <1>7, <1>9

Account == Inv /\ Fixed /\ TagsOK /\ Counts /\ CyclesAccounted

\* At first nothing has been counted, and no block is dirty.
LEMMA AccountInit == Init => Account
<1> SUFFICES ASSUME Init PROVE Account
  OBVIOUS
<1> HIDE DEF Dirty, CyclesAccounted
<1>1. Inv
  BY InvInit
<1>2. Fixed
  BY DEF Init, Fixed
<1>3. Counts
  BY DEF Init, Counts, NoStats
<1>4. \A i \in Indices : data[i] = EmptySet
  BY DEF Init
<1>5. DOMAIN EmptySet = {}
  BY DEF EmptySet
<1>6. TagsOK
  BY <1>4, <1>5 DEF TagsOK
<1>7. Dirty = {}
  BY <1>4, <1>5 DEF Dirty
<1>8. Cardinality(Dirty) = 0
  BY <1>7, FS_EmptySet
<1>9. Hits = 0 /\ Fetched = 0 /\ Through = 0 /\ Stored = 0
  BY DEF Init, NoStats, Hits, Fetched, Through, Stored
<1>10. Charge(0 + 0) = 0
  BY <1>2, SizeType DEF Charge
<1>11. cycles = 0
  BY DEF Init
<1>12. 0 \in 0 .. Stored /\ cycles = Hits + Charge(Fetched + 0) + 100 * Through
       /\ 0 + Cardinality(Dirty) <= Stored
  <2> HIDE DEF Hits, Fetched, Through, Stored
  <2> QED
    BY <1>8, <1>9, <1>10, <1>11
<1>13. CyclesAccounted
  <2> HIDE DEF Hits, Fetched, Through, Stored, Fixed
  <2>1. \E written \in 0 .. Stored :
           /\ cycles = Hits + Charge(Fetched + written) + 100 * Through
           /\ written + Cardinality(Dirty) <= Stored
    BY <1>12
  <2> QED
    BY <1>2, <2>1, Accounted
<1> QED
  BY <1>1, <1>2, <1>3, <1>6, <1>13 DEF Account

\* Every access keeps the account.
LEMMA AccountStep == Account /\ [Next]_vars => Account'
<1> SUFFICES ASSUME Account, [Next]_vars PROVE Account'
  OBVIOUS
<1> HIDE DEF Dirty, CyclesAccounted
<1>1. Inv /\ Fixed /\ TagsOK /\ Counts /\ CyclesAccounted
  BY DEF Account
<1>2. Inv'
  BY <1>1, InvStep
<1>3. UNCHANGED <<size, policy>> => Fixed'
  BY <1>1 DEF Fixed, Accepted
<1>4. ASSUME NEW address \in Addresses, load(address)
      PROVE  Account'
  <2>1. UNCHANGED <<size, policy>>
    BY <1>4 DEF load
  <2>2. PICK i \in Indices, tag \in Tags : LoadHit(i, tag) \/ \E gone : LoadMiss(i, tag, gone)
    BY <1>1, <1>4, LoadIs
  <2>3. TagsOK' /\ Counts' /\ CyclesAccounted'
    <3>1. CASE LoadHit(i, tag)
      BY <1>1, <1>3, <2>1, <3>1, LoadHitStep
    <3>2. CASE \E gone : LoadMiss(i, tag, gone)
      BY <1>1, <1>3, <2>1, <3>2, LoadMissStep
    <3> QED
      BY <2>2, <3>1, <3>2
  <2> QED
    BY <1>2, <1>3, <2>1, <2>3 DEF Account
<1>5. ASSUME NEW address \in Addresses, store(address)
      PROVE  Account'
  <2>1. UNCHANGED <<size, policy>>
    BY <1>5 DEF store
  <2>2. PICK i \in Indices, tag \in Tags :
           \/ StoreHit(i, tag)
           \/ \E gone : \E dirty \in BOOLEAN : StoreMiss(i, tag, gone, dirty)
           \/ StorePast(i, tag)
    BY <1>1, <1>5, StoreIs
  <2>3. TagsOK' /\ Counts' /\ CyclesAccounted'
    <3>1. CASE StoreHit(i, tag)
      BY <1>1, <1>3, <2>1, <3>1, StoreHitStep
    <3>2. CASE \E gone : \E dirty \in BOOLEAN : StoreMiss(i, tag, gone, dirty)
      <4>1. PICK gone : \E dirty \in BOOLEAN : StoreMiss(i, tag, gone, dirty)
        BY <3>2
      <4>2. PICK dirty \in BOOLEAN : StoreMiss(i, tag, gone, dirty)
        BY <4>1
      <4> QED
        BY <1>1, <1>3, <2>1, <4>2, StoreMissStep
    <3>3. CASE StorePast(i, tag)
      BY <1>1, <1>3, <2>1, <3>3, StorePastStep
    <3> QED
      BY <2>2, <3>1, <3>2, <3>3
  <2> QED
    BY <1>2, <1>3, <2>1, <2>3 DEF Account
<1>6. CASE UNCHANGED vars
  <2>1. UNCHANGED <<size, policy, data, stats, cycles>>
    BY <1>6 DEF vars
  <2>2. Dirty' = Dirty /\ TagsOK' /\ Counts' /\ Fixed'
    BY <1>1, <2>1 DEF Dirty, Indices, Tags, TagsOK, Counts, Fixed, Accepted
  <2>3. CyclesAccounted'
    BY <1>1, <2>1, <2>2 DEF CyclesAccounted
  <2> QED
    BY <1>2, <2>2, <2>3 DEF Account
<1> QED
  BY <1>4, <1>5, <1>6 DEF Next, output

\* So it holds always.
LEMMA AccountAlways == Spec => []Account
  BY AccountInit, AccountStep, PTL DEF Spec

\* It has the types of all variables in it.
LEMMA AccountTypes == Account => TypeOK
<1> SUFFICES ASSUME Account PROVE TypeOK
  OBVIOUS
<1>1. Inv /\ Fixed /\ TagsOK /\ Counts
  BY DEF Account
<1>2. ASSUME NEW i \in Indices
      PROVE  /\ DOMAIN data[i] \subseteq Tags
             /\ \A t \in DOMAIN data[i] : data[i][t] \in Block
             /\ Cardinality(DOMAIN data[i]) <= size.blockNum
  BY <1>1 DEF Inv, Ranks, Fits, TagsOK
<1> QED
  BY <1>1, <1>2 DEF TypeOK, Inv, Fixed, Counts

-----------------------------------------------------------------------------
\* The tags are those of addresses of ADDR_LEN bits, no set holds more blocks
\* than it has room for, and every access is within data.
THEOREM TypeCorrect == Spec => []TypeOK
  BY AccountAlways, AccountTypes, PTL

\* For every geometry, policy and trace, cycles is what the hits, the blocks
\* fetched, the words written through and the blocks written back cost.
THEOREM CyclesAreAccounted == Spec => []CyclesAccounted
<1>1. Account => CyclesAccounted
  BY DEF Account
<1> QED
  BY <1>1, AccountAlways, PTL

-----------------------------------------------------------------------------
(***************************************************************************)
(* A set as a list of blocks.                                              *)
(***************************************************************************)
RankedOf(set) == [n \in 1 .. Cardinality(DOMAIN set) |->
                    CHOOSE t \in DOMAIN set : set[t].first = n - 1]

IsRanked(s, set) == /\ s \in Seq(DOMAIN set) /\ Len(s) = Cardinality(DOMAIN set)
                    /\ \A n \in 1 .. Len(s) : set[s[n]].first = n - 1

\* When the counters rank the blocks, each place of the list has its block.
LEMMA RankedIs ==
  ASSUME NEW set, Ranks(set)
  PROVE  IsRanked(RankedOf(set), set)
<1>1. PICK N \in Nat : N = Cardinality(DOMAIN set)
  BY FS_CardinalityType DEF Ranks
<1> DEFINE s == [n \in 1 .. N |-> CHOOSE t \in DOMAIN set : set[t].first = n - 1]
<1>2. ASSUME NEW n \in 1 .. N
      PROVE  s[n] \in DOMAIN set /\ set[s[n]].first = n - 1
  <2>1. n - 1 \in 0 .. N - 1
    OBVIOUS
  <2>2. \E t \in DOMAIN set : set[t].first = n - 1
    BY <1>1, <2>1 DEF Ranks
  <2>3. s[n] = CHOOSE t \in DOMAIN set : set[t].first = n - 1
    OBVIOUS
  <2> HIDE DEF s
  <2> QED
    BY <2>2, <2>3
<1>3. \A n \in 1 .. N : (CHOOSE t \in DOMAIN set : set[t].first = n - 1) \in DOMAIN set
  BY <1>2
<1>4. s \in Seq(DOMAIN set) /\ Len(s) = N
  BY <1>3
<1>5. RankedOf(set) = s
  BY <1>1 DEF RankedOf
<1> HIDE DEF s
<1> QED
  BY <1>1, <1>2, <1>4, <1>5 DEF IsRanked

\* There is one such list, and every block is in it.
LEMMA OneRanked ==
  ASSUME NEW set, Ranks(set), NEW s, IsRanked(s, set)
  PROVE  /\ s = RankedOf(set)
         /\ \A t \in DOMAIN set : /\ set[t].first + 1 \in 1 .. Len(s)
                                  /\ s[set[t].first + 1] = t
<1>1. PICK r : r = RankedOf(set)
  OBVIOUS
<1>2. /\ r \in Seq(DOMAIN set) /\ Len(r) = Cardinality(DOMAIN set)
      /\ \A n \in 1 .. Len(r) : set[r[n]].first = n - 1
  BY <1>1, RankedIs DEF IsRanked
<1>3. /\ s \in Seq(DOMAIN set) /\ Len(s) = Cardinality(DOMAIN set)
      /\ \A n \in 1 .. Len(s) : set[s[n]].first = n - 1
  BY DEF IsRanked
<1>4. \A n \in 1 .. Len(s) : s[n] \in DOMAIN set /\ r[n] \in DOMAIN set
  BY <1>2, <1>3, ElementOfSeq
<1>5. \A t, u \in DOMAIN set : set[t].first = set[u].first => t = u
  BY DEF Ranks
<1>6. \A n \in 1 .. Len(s) : s[n] = r[n]
  BY <1>2, <1>3, <1>4, <1>5
<1>7. s = r
  BY <1>2, <1>3, <1>6, SeqEqual
<1>8. ASSUME NEW t \in DOMAIN set
      PROVE  set[t].first + 1 \in 1 .. Len(s) /\ s[set[t].first + 1] = t
  <2>1. set[t].first \in Nat /\ set[t].first < Len(s) /\ Len(s) \in Nat
    BY <1>3 DEF Ranks, Block
  <2>2. PICK p \in 1 .. Len(s) : p = set[t].first + 1
    BY <2>1
  <2>3. set[s[p]].first = set[t].first
    BY <1>3, <2>1, <2>2
  <2>4. s[p] = t
    BY <1>4, <1>5, <2>3
  <2> QED
    BY <2>2, <2>4
<1> QED
  BY <1>1, <1>7, <1>8

\* A list with one of its blocks put first.
ToFront(s, p, tag) == <<tag>> \o (SubSeq(s, 1, p - 1) \o SubSeq(s, p + 1, Len(s)))

\* The block used goes to the front.
LEMMA RankedRenewed ==
  ASSUME NEW set, Ranks(set), NEW tag \in DOMAIN set, policy.lru,
         NEW s, s = RankedOf(set), NEW p, p = set[tag].first + 1
  PROVE  /\ p \in 1 .. Len(s) /\ s[p] = tag
         /\ ToFront(s, p, tag) = RankedOf(Renew(set, tag))
<1>1. IsRanked(s, set) /\ p \in 1 .. Len(s) /\ s[p] = tag
  <2>1. IsRanked(s, set)
    BY RankedIs
  <2> QED
    BY <2>1, OneRanked
<1>2. PICK N \in Nat : N = Len(s) /\ N = Cardinality(DOMAIN set)
  BY <1>1 DEF IsRanked
<1>3. /\ s \in Seq(DOMAIN set)
      /\ \A n \in 1 .. N : s[n] \in DOMAIN set /\ set[s[n]].first = n - 1
  BY <1>1, <1>2, ElementOfSeq DEF IsRanked
<1>4. PICK q \in 1 .. N : q = p
  BY <1>1, <1>2
<1> DEFINE new == Renew(set, tag)
           front == SubSeq(s, 1, q - 1)
           back == SubSeq(s, q + 1, N)
           r == <<tag>> \o (front \o back)
<1>5. /\ DOMAIN new = DOMAIN set /\ new[tag].first = 0
      /\ \A t \in DOMAIN set \ {tag} :
             new[t].first = IF set[t].first < set[tag].first THEN set[t].first + 1
                                                             ELSE set[t].first
  <2>1. DOMAIN new = DOMAIN set
    BY DEF Renew
  <2>2. ASSUME NEW t \in DOMAIN set
        PROVE  new[t].first = IF t = tag THEN 0
                              ELSE IF set[t].first < set[tag].first THEN set[t].first + 1
                                                                    ELSE set[t].first
    <3>1. PICK b \in Block : b = set[t]
      BY DEF Ranks
    <3>2. new[t] = [b EXCEPT !.first = IF t = tag THEN 0
                                       ELSE IF b.first < set[tag].first THEN b.first + 1
                                                                        ELSE b.first]
      BY <3>1 DEF Renew
    <3> QED
      BY <3>1, <3>2 DEF Block
  <2> HIDE DEF new
  <2> QED
    BY <2>1, <2>2
<1> HIDE DEF new
<1>6. /\ front \in Seq(DOMAIN set) /\ Len(front) = q - 1
      /\ \A n \in 1 .. q - 1 : front[n] = s[n]
  <2>1. \A n \in 1 .. q - 1 : s[n] \in DOMAIN set
    BY <1>3
  <2>2. 1 \in Int /\ q - 1 \in Int
    OBVIOUS
  <2>3. /\ SubSeq(s, 1, q - 1) \in Seq(DOMAIN set)
        /\ Len(SubSeq(s, 1, q - 1)) = IF 1 <= q - 1 THEN (q - 1) - 1 + 1 ELSE 0
        /\ \A n \in 1 .. (q - 1) - 1 + 1 : SubSeq(s, 1, q - 1)[n] = s[1 + n - 1]
    BY <2>1, <2>2, SubSeqProperties
  <2> HIDE DEF front
  <2>4. /\ front \in Seq(DOMAIN set)
        /\ Len(front) = IF 1 <= q - 1 THEN (q - 1) - 1 + 1 ELSE 0
        /\ \A n \in 1 .. (q - 1) - 1 + 1 : front[n] = s[1 + n - 1]
    BY <2>3 DEF front
  <2> QED
    BY <2>4
<1>7. /\ back \in Seq(DOMAIN set) /\ Len(back) = N - q
      /\ \A n \in 1 .. N - q : back[n] = s[q + n]
  <2>1. \A n \in q + 1 .. N : s[n] \in DOMAIN set
    BY <1>3
  <2>2. q + 1 \in Int /\ N \in Int
    OBVIOUS
  <2>3. /\ SubSeq(s, q + 1, N) \in Seq(DOMAIN set)
        /\ Len(SubSeq(s, q + 1, N)) = IF q + 1 <= N THEN N - (q + 1) + 1 ELSE 0
        /\ \A n \in 1 .. N - (q + 1) + 1 : SubSeq(s, q + 1, N)[n] = s[(q + 1) + n - 1]
    BY <2>1, <2>2, SubSeqProperties
  <2>4. /\ back \in Seq(DOMAIN set)
        /\ Len(back) = IF q + 1 <= N THEN N - (q + 1) + 1 ELSE 0
        /\ \A n \in 1 .. N - (q + 1) + 1 : back[n] = s[(q + 1) + n - 1]
    BY <2>3 DEF back
  <2> HIDE DEF back
  <2> QED
    BY <2>4
<1> HIDE DEF front, back
<1>8. /\ front \o back \in Seq(DOMAIN set) /\ Len(front \o back) = N - 1
      /\ \A n \in 1 .. N - 1 : (front \o back)[n] = IF n < q THEN s[n] ELSE s[n + 1]
  <2>1. /\ front \o back \in Seq(DOMAIN set) /\ Len(front \o back) = (q - 1) + (N - q)
        /\ \A n \in 1 .. (q - 1) + (N - q) :
             (front \o back)[n] = IF n <= q - 1 THEN front[n] ELSE back[n - (q - 1)]
    <3>1. /\ front \o back \in Seq(DOMAIN set) /\ Len(front \o back) = Len(front) + Len(back)
          /\ \A n \in 1 .. Len(front) + Len(back) :
               (front \o back)[n] = IF n <= Len(front) THEN front[n] ELSE back[n - Len(front)]
      BY <1>6, <1>7, ConcatProperties
    <3>2. Len(front) = q - 1 /\ Len(back) = N - q
      BY <1>6, <1>7
    <3> QED
      BY <3>1, <3>2
  <2>2. ASSUME NEW n \in 1 .. N - 1
        PROVE  (front \o back)[n] = IF n < q THEN s[n] ELSE s[n + 1]
    <3>1. CASE n < q
      BY <1>6, <2>1, <3>1
    <3>2. CASE ~ (n < q)
      <4>1. n - (q - 1) \in 1 .. N - q /\ q + (n - (q - 1)) = n + 1 /\ ~ (n <= q - 1)
        BY <3>2
      <4>2. back[n - (q - 1)] = s[q + (n - (q - 1))]
        BY <1>7, <4>1
      <4> QED
        BY <2>1, <3>2, <4>1, <4>2
    <3> QED
      BY <3>1, <3>2
  <2> QED
    BY <2>1, <2>2
<1>9. PICK rest \in Seq(DOMAIN set) : rest = front \o back
  BY <1>8
<1>10. /\ r \in Seq(DOMAIN set) /\ Len(r) = N /\ r[1] = tag
       /\ \A n \in 2 .. N : r[n] = rest[n - 1]
  <2>1. <<tag>> \in Seq(DOMAIN set) /\ Len(<<tag>>) = 1 /\ <<tag>>[1] = tag
    OBVIOUS
  <2>2. PICK one \in Seq(DOMAIN set) : one = <<tag>> /\ Len(one) = 1 /\ one[1] = tag
    BY <2>1
  <2>3. /\ one \o rest \in Seq(DOMAIN set) /\ Len(one \o rest) = 1 + Len(rest)
        /\ \A n \in 1 .. 1 + Len(rest) :
             (one \o rest)[n] = IF n <= 1 THEN one[n] ELSE rest[n - 1]
    BY <2>2, ConcatProperties
  <2>4. Len(rest) = N - 1
    BY <1>8, <1>9
  <2>5. r = one \o rest
    BY <1>9, <2>2
  <2> HIDE DEF r
  <2> QED
    BY <2>2, <2>3, <2>4, <2>5
<1> HIDE DEF r
<1>11. ASSUME NEW n \in 1 .. N
       PROVE  r[n] \in DOMAIN set /\ new[r[n]].first = n - 1
  <2>1. CASE n = 1
    BY <1>5, <1>10, <2>1
  <2>2. CASE n # 1 /\ n <= q
    <3>1. n - 1 \in 1 .. N - 1 /\ n - 1 < q /\ n \in 2 .. N /\ n - 1 \in 1 .. N /\ q \in 1 .. N
      BY <2>2
    <3>2. r[n] = s[n - 1]
      BY <1>8, <1>9, <1>10, <3>1
    <3>3. /\ s[n - 1] \in DOMAIN set /\ set[s[n - 1]].first = (n - 1) - 1
          /\ set[tag].first = q - 1
      BY <1>1, <1>3, <1>4, <3>1
    <3>4. s[n - 1] # tag /\ set[s[n - 1]].first < set[tag].first
      BY <3>1, <3>3
    <3> QED
      BY <1>5, <3>2, <3>3, <3>4
  <2>3. CASE n # 1 /\ ~ (n <= q)
    <3>1. n - 1 \in 1 .. N - 1 /\ ~ (n - 1 < q) /\ n \in 2 .. N /\ (n - 1) + 1 = n
      BY <2>3
    <3>2. r[n] = s[n]
      BY <1>8, <1>9, <1>10, <3>1
    <3>3. /\ s[n] \in DOMAIN set /\ set[s[n]].first = n - 1 /\ set[tag].first = q - 1
      BY <1>1, <1>3, <1>4
    <3>4. s[n] # tag /\ ~ (set[s[n]].first < set[tag].first)
      BY <2>3, <3>3
    <3> QED
      BY <1>5, <3>2, <3>3, <3>4
  <2> QED
    BY <2>1, <2>2, <2>3
<1>12. IsRanked(r, new)
  BY <1>2, <1>5, <1>10, <1>11 DEF IsRanked
<1>13. Ranks(new)
  BY Renewed DEF new
<1>14. r = RankedOf(new)
  BY <1>12, <1>13, OneRanked
<1> QED
  BY <1>1, <1>2, <1>4, <1>14 DEF r, front, back, new, ToFront

\* A block before the first m of a list.
Before(s, m, tag) == <<tag>> \o SubSeq(s, 1, m)

\* A block brought in goes before those that stay.
LEMMA RankedInserted ==
  ASSUME NEW set, Ranks(set), NEW tag, tag \notin DOMAIN set, NEW gone, NEW dirty \in BOOLEAN,
         NEW new, new = Insert(set, gone, tag, dirty), Ranks(new),
         NEW s, s = RankedOf(set), NEW m \in Nat, m <= Len(s), Cardinality(DOMAIN new) = m + 1,
         \A n \in 1 .. m : s[n] \notin gone
  PROVE  Before(s, m, tag) = RankedOf(new)
<1>1. IsRanked(s, set)
  BY RankedIs
<1>2. /\ s \in Seq(DOMAIN set) /\ Len(s) \in Nat
      /\ \A n \in 1 .. Len(s) : s[n] \in DOMAIN set /\ set[s[n]].first = n - 1
  BY <1>1, ElementOfSeq DEF IsRanked
<1>3. /\ DOMAIN new = (DOMAIN set \ gone) \cup {tag} /\ new[tag].first = 0
      /\ \A t \in DOMAIN set \ gone : new[t].first = set[t].first + 1
  <2>1. /\ DOMAIN new = (DOMAIN set \ gone) \cup {tag}
        /\ new[tag] = [first |-> 0, second |-> dirty]
        /\ \A t \in DOMAIN set \ gone : new[t] = [set[t] EXCEPT !.first = @ + 1]
    BY DEF Insert, Older
  <2>2. ASSUME NEW t \in DOMAIN set \ gone
        PROVE  new[t].first = set[t].first + 1
    <3>1. PICK b \in Block : b = set[t]
      BY DEF Ranks
    <3>2. new[t] = [b EXCEPT !.first = b.first + 1]
      BY <2>1, <3>1
    <3> QED
      BY <3>1, <3>2 DEF Block
  <2>3. new[tag].first = 0
    BY <2>1
  <2> QED
    BY <2>1, <2>2, <2>3
<1>4. ASSUME NEW n \in 1 .. m
      PROVE  s[n] \in DOMAIN new /\ new[s[n]].first = n
  <2>1. n \in 1 .. Len(s) /\ (n - 1) + 1 = n
    BY <1>2
  <2>2. s[n] \in DOMAIN set \ gone /\ set[s[n]].first = n - 1
    BY <1>2, <2>1
  <2>3. new[s[n]].first = set[s[n]].first + 1
    BY <1>3, <2>2
  <2> QED
    BY <1>3, <2>1, <2>2, <2>3
<1>5. PICK k \in Seq(DOMAIN new) : /\ k = SubSeq(s, 1, m) /\ Len(k) = m
                                   /\ \A n \in 1 .. m : k[n] = s[n]
  <2>1. 1 \in Int /\ m \in Int /\ \A n \in 1 .. m : s[n] \in DOMAIN new
    BY <1>4
  <2>2. /\ SubSeq(s, 1, m) \in Seq(DOMAIN new)
        /\ Len(SubSeq(s, 1, m)) = IF 1 <= m THEN m - 1 + 1 ELSE 0
        /\ \A n \in 1 .. m - 1 + 1 : SubSeq(s, 1, m)[n] = s[1 + n - 1]
    BY <2>1, SubSeqProperties
  <2>3. PICK k : k = SubSeq(s, 1, m)
    OBVIOUS
  <2>4. /\ k \in Seq(DOMAIN new)
        /\ Len(k) = IF 1 <= m THEN m - 1 + 1 ELSE 0
        /\ \A n \in 1 .. m - 1 + 1 : k[n] = s[1 + n - 1]
    BY <2>2, <2>3
  <2>5. Len(k) = m /\ \A n \in 1 .. m : k[n] = s[n]
    BY <1>2, <2>4
  <2> QED
    BY <2>3, <2>4, <2>5
<1>6. PICK one \in Seq(DOMAIN new) : one = <<tag>> /\ Len(one) = 1 /\ one[1] = tag
  <2>1. tag \in DOMAIN new
    BY <1>3
  <2>2. <<tag>> \in Seq(DOMAIN new) /\ Len(<<tag>>) = 1 /\ <<tag>>[1] = tag
    BY <2>1
  <2> QED
    BY <2>2
<1> DEFINE r == one \o k
<1>7. /\ r \in Seq(DOMAIN new) /\ Len(r) = 1 + m
      /\ \A n \in 1 .. 1 + m : r[n] = IF n <= 1 THEN tag ELSE s[n - 1]
  <2>1. /\ r \in Seq(DOMAIN new) /\ Len(r) = Len(one) + Len(k)
        /\ \A n \in 1 .. Len(one) + Len(k) :
             r[n] = IF n <= Len(one) THEN one[n] ELSE k[n - Len(one)]
    BY ConcatProperties
  <2> HIDE DEF r
  <2> QED
    BY <1>5, <1>6, <2>1
<1> HIDE DEF r
<1>8. ASSUME NEW n \in 1 .. 1 + m
      PROVE  new[r[n]].first = n - 1
  <2>1. CASE n = 1
    BY <1>3, <1>7, <2>1
  <2>2. CASE n # 1
    <3>1. n - 1 \in 1 .. m /\ ~ (n <= 1)
      BY <2>2
    <3>2. r[n] = s[n - 1] /\ new[s[n - 1]].first = n - 1
      BY <1>4, <1>7, <3>1
    <3> QED
      BY <3>2
  <2> QED
    BY <2>1, <2>2
<1>9. IsRanked(r, new)
  BY <1>7, <1>8 DEF IsRanked
<1>10. r = RankedOf(new)
  BY <1>9, OneRanked
<1> QED
  BY <1>5, <1>6, <1>10 DEF r, Before

\* A dirty bit does not change the list.
LEMMA RankedWritten ==
  ASSUME NEW set, Ranks(set), NEW tag \in DOMAIN set
  PROVE  RankedOf(Written(set, tag)) = RankedOf(set)
<1>1. PICK dirty \in BOOLEAN : dirty = (set[tag].second \/ ~ policy.write_through)
  OBVIOUS
<1>2. PICK new : new = [set EXCEPT ![tag].second = dirty]
  OBVIOUS
<1>3. Written(set, tag) = new
  BY <1>1, <1>2 DEF Written
<1>4. Ranks(new) /\ DOMAIN new = DOMAIN set
  BY <1>2, Marked
<1>5. \A t \in DOMAIN set : new[t].first = set[t].first
  <2>1. PICK b \in Block : b = set[tag]
    BY DEF Ranks
  <2>2. new[tag] = [b EXCEPT !.second = dirty] /\ \A t \in DOMAIN set \ {tag} : new[t] = set[t]
    BY <1>2, <2>1
  <2>3. new[tag].first = b.first
    BY <2>2 DEF Block
  <2> QED
    BY <2>1, <2>2, <2>3
<1>6. IsRanked(RankedOf(set), set)
  BY RankedIs
<1>7. PICK s : s = RankedOf(set)
  OBVIOUS
<1>8. /\ s \in Seq(DOMAIN set) /\ Len(s) = Cardinality(DOMAIN set)
      /\ \A n \in 1 .. Len(s) : set[s[n]].first = n - 1
  BY <1>6, <1>7 DEF IsRanked
<1>9. \A n \in 1 .. Len(s) : s[n] \in DOMAIN set
  BY <1>8, ElementOfSeq
<1>10. \A n \in 1 .. Len(s) : new[s[n]].first = n - 1
  BY <1>5, <1>8, <1>9
<1>11. IsRanked(s, new)
  BY <1>4, <1>8, <1>10 DEF IsRanked
<1>12. s = RankedOf(new)
  BY <1>4, <1>11, OneRanked
<1> QED
  BY <1>3, <1>7, <1>12

-----------------------------------------------------------------------------
(***************************************************************************)
(* Cache implements ReplacementPolicy.                                     *)
(***************************************************************************)
Lists == [i \in Indices |-> Ranked(i)]

\* The lists of the reference are those of the sets.
LEMMA ListsAre ==
  /\ Lists = [i \in Indices |-> RankedOf(data[i])]
  /\ Lists' = [i \in Indices' |-> RankedOf(data'[i])]
BY DEF Lists, Ranked, RankedOf

\* A step that changes one set changes its list.
LEMMA ListsChange ==
  ASSUME Inv, UNCHANGED size, NEW i \in Indices, NEW set, data' = [data EXCEPT ![i] = set]
  PROVE  Lists' = [Lists EXCEPT ![i] = RankedOf(set)]
<1>1. Indices' = Indices /\ DOMAIN data = Indices
  BY DEF Inv, Indices
<1>2. data'[i] = set /\ \A k \in Indices \ {i} : data'[k] = data[k]
  BY <1>1
<1> HIDE DEF Lists
<1>3. Lists' = [k \in Indices |-> RankedOf(data'[k])]
  BY <1>1, ListsAre
<1>4. Lists = [k \in Indices |-> RankedOf(data[k])]
  BY ListsAre
<1>5. \A k \in Indices : RankedOf(data'[k]) = IF k = i THEN RankedOf(set) ELSE RankedOf(data[k])
  BY <1>2
<1> QED
  BY <1>3, <1>4, <1>5

\* The reference holds the blocks that the set holds.
LEMMA HeldIs ==
  ASSUME Inv, NEW i \in Indices, NEW t
  PROVE  Reference!Held(i, t) <=> t \in DOMAIN data[i]
<1>1. PICK s : s = RankedOf(data[i])
  OBVIOUS
<1>2. Ranks(data[i])
  BY DEF Inv
<1>3. IsRanked(s, data[i])
  BY <1>1, <1>2, RankedIs
<1>4. \A n \in 1 .. Len(s) : s[n] \in DOMAIN data[i]
  BY <1>3, ElementOfSeq DEF IsRanked
<1>5. \A u \in DOMAIN data[i] : \E n \in 1 .. Len(s) : s[n] = u
  BY <1>2, <1>3, OneRanked
<1>6. Lists[i] = s
  BY <1>1, ListsAre
<1>7. Reference!Held(i, t) <=> \E n \in 1 .. Len(Lists[i]) : Lists[i][n] = t
  BY DEF Reference!Held, Reference!Contains, Lists
<1> HIDE DEF Lists
<1> QED
  BY <1>4, <1>5, <1>6, <1>7

\* The block that goes, and those that stay.
LEMMA VictimsAre ==
  ASSUME Inv, NEW i \in Indices, NEW gone \in Evicted(i), NEW s, s = RankedOf(data[i])
  PROVE  /\ Reference!Victims(i) = gone
         /\ \E m \in Nat : /\ m <= Len(s) /\ Reference!Kept(i) = SubSeq(s, 1, m)
                           /\ m = Cardinality(DOMAIN data[i] \ gone)
                           /\ IsFiniteSet(DOMAIN data[i] \ gone)
                           /\ \A n \in 1 .. m : s[n] \notin gone
<1>1. Ranks(data[i])
  BY DEF Inv
<1>2. IsRanked(s, data[i]) /\ Lists[i] = s
  BY <1>1, RankedIs, ListsAre
<1>3. PICK N \in Nat : N = Cardinality(DOMAIN data[i]) /\ N = Len(s)
  BY <1>1, <1>2, FS_CardinalityType DEF Ranks, IsRanked
<1>4. /\ s \in Seq(DOMAIN data[i])
      /\ \A n \in 1 .. N : s[n] \in DOMAIN data[i] /\ data[i][s[n]].first = n - 1
  BY <1>2, <1>3, ElementOfSeq DEF IsRanked
<1>5. /\ Reference!Victims(i) = IF N = size.blockNum THEN {s[N]} ELSE {}
      /\ Reference!Kept(i) = IF N = size.blockNum THEN SubSeq(s, 1, N - 1) ELSE s
  BY <1>2, <1>3 DEF Reference!Victims, Reference!Kept, Reference!Last, Reference!Front, Lists
<1>6. IsFiniteSet(DOMAIN data[i])
  BY <1>1 DEF Ranks
<1>7. CASE ~ is_set_full(i)
  <2>1. gone = {} /\ N # size.blockNum
    BY <1>3, <1>7 DEF Evicted, is_set_full
  <2>2. s = SubSeq(s, 1, N)
    BY <1>3, <1>4, SubSeqFull
  <2>3. DOMAIN data[i] \ gone = DOMAIN data[i]
    BY <2>1
  <2>4. /\ N <= Len(s) /\ Reference!Kept(i) = SubSeq(s, 1, N)
        /\ N = Cardinality(DOMAIN data[i] \ gone) /\ IsFiniteSet(DOMAIN data[i] \ gone)
        /\ \A n \in 1 .. N : s[n] \notin gone
    BY <1>3, <1>5, <1>6, <2>1, <2>2, <2>3
  <2> QED
    BY <1>5, <2>1, <2>4
<1>8. CASE is_set_full(i)
  <2>1. PICK key \in DOMAIN data[i] : /\ data[i][key].first = size.blockNum - 1
                                      /\ Evicted(i) = {{key}}
    BY <1>8, OneEvicted
  <2>2. gone = {key} /\ N = size.blockNum
    BY <1>3, <1>8, <2>1 DEF is_set_full
  <2>3. N \in 1 .. N /\ s[N] = key
    <3>1. data[i][key].first + 1 \in 1 .. Len(s) /\ s[data[i][key].first + 1] = key
      BY <1>1, <1>2, OneRanked
    <3> QED
      BY <1>3, <2>1, <2>2, <3>1
  <2>4. PICK m \in Nat : m = N - 1
    BY <2>3
  <2>5. \A n \in 1 .. m : s[n] \notin gone
    <3> SUFFICES ASSUME NEW n \in 1 .. m PROVE s[n] # key
      BY <2>2
    <3>1. n \in 1 .. N /\ n - 1 # N - 1
      BY <2>4
    <3> QED
      BY <1>4, <2>1, <2>2, <3>1
  <2>6. IsFiniteSet(DOMAIN data[i] \ {key}) /\ Cardinality(DOMAIN data[i] \ {key}) = N - 1
    BY <1>3, <1>6, FS_RemoveElement
  <2>7. /\ m <= Len(s) /\ Reference!Kept(i) = SubSeq(s, 1, m)
        /\ m = Cardinality(DOMAIN data[i] \ gone) /\ IsFiniteSet(DOMAIN data[i] \ gone)
    BY <1>3, <1>5, <2>2, <2>4, <2>6
  <2> QED
    BY <1>5, <2>2, <2>3, <2>5, <2>7
<1> QED
  BY <1>7, <1>8

\* A hit is a use of the block.
LEMMA UseIs ==
  ASSUME Inv, Fixed, UNCHANGED <<size, policy>>, NEW i \in Indices, NEW tag,
         NEW stored \in BOOLEAN, Hit(i, tag, stored)
  PROVE  Reference!Held(i, tag) /\ Reference!Use(i, tag)
<1>1. tag \in DOMAIN data[i] /\ Ranks(data[i])
  BY DEF Hit, Inv
<1>2. PICK old, s : old = data[i] /\ s = RankedOf(old)
  OBVIOUS
<1>3. Ranks(Renew(old, tag)) /\ DOMAIN Renew(old, tag) = DOMAIN old
  BY <1>1, <1>2, Renewed
<1>4. PICK set : /\ data' = [data EXCEPT ![i] = set]
                 /\ RankedOf(set) = RankedOf(Renew(old, tag))
  <2>1. CASE stored
    <3>1. RankedOf(Written(Renew(old, tag), tag)) = RankedOf(Renew(old, tag))
      BY <1>1, <1>2, <1>3, RankedWritten
    <3>2. data' = [data EXCEPT ![i] = Written(Renew(old, tag), tag)]
      BY <1>2, <2>1 DEF Hit
    <3> QED
      BY <3>1, <3>2
  <2>2. CASE ~ stored
    BY <1>2, <2>2 DEF Hit
  <2> QED
    BY <2>1, <2>2
<1> HIDE DEF Lists
<1>5. /\ Lists' = [Lists EXCEPT ![i] = RankedOf(Renew(old, tag))]
      /\ Lists[i] = s /\ Lists \in [Indices -> Range(Lists)]
  <2>1. UNCHANGED size /\ data' = [data EXCEPT ![i] = set]
    BY <1>4
  <2>2. Lists' = [Lists EXCEPT ![i] = RankedOf(set)]
    BY <2>1, ListsChange
  <2>3. Lists = [k \in Indices |-> RankedOf(data[k])]
    BY ListsAre
  <2> QED
    BY <1>2, <1>4, <2>2, <2>3 DEF Range
<1>6. CASE ~ policy.lru
  <2>1. Renew(old, tag) = old
    BY <1>6 DEF Renew
  <2>2. Lists' = [Lists EXCEPT ![i] = Lists[i]]
    BY <1>2, <1>5, <2>1
  <2>3. Lists' = Lists
    BY <1>5, <2>2
  <2> QED
    BY <1>1, <1>6, <2>3, HeldIs DEF Reference!Use, Lists
<1>7. CASE policy.lru
  <2>1. PICK p : p = old[tag].first + 1
    OBVIOUS
  <2>2. /\ p \in 1 .. Len(s) /\ s[p] = tag
        /\ ToFront(s, p, tag) = RankedOf(Renew(old, tag))
    <3>1. Ranks(old) /\ tag \in DOMAIN old
      BY <1>1, <1>2
    <3> QED
      BY <1>2, <1>7, <2>1, <3>1, RankedRenewed
  <2>3. DOMAIN s = 1 .. Len(s)
    <3>1. IsRanked(s, old)
      BY <1>1, <1>2, RankedIs
    <3> QED
      BY <3>1 DEF IsRanked
  <2>4. \E q \in DOMAIN Lists[i] :
          /\ Lists[i][q] = tag
          /\ Lists' = [Lists EXCEPT ![i] = <<tag>> \o
                         (SubSeq(Lists[i], 1, q - 1) \o SubSeq(Lists[i], q + 1, Len(Lists[i])))]
    BY <1>5, <2>2, <2>3 DEF ToFront
  <2>5. Reference!Use(i, tag)
    BY <1>7, <2>4 DEF Reference!Use, Reference!RemoveAt, Lists
  <2> QED
    BY <1>1, <2>5, HeldIs
<1> QED
  BY <1>6, <1>7

-----------------------------------------------------------------------------
\* A miss that allocates brings the block in.
LEMMA BringIs ==
  ASSUME Inv, Fixed, UNCHANGED <<size, policy>>, NEW i \in Indices, NEW tag, NEW gone,
         NEW dirty \in BOOLEAN, Miss(i, tag, gone, dirty)
  PROVE  /\ ~ Reference!Held(i, tag)
         /\ Lists' = [Lists EXCEPT ![i] = <<tag>> \o Reference!Kept(i)]
         /\ Reference!Lost(i) = {i} \X gone
<1>1. tag \notin DOMAIN data[i] /\ Ranks(data[i]) /\ gone \in Evicted(i) /\ ~ is_hit(i, tag)
  BY DEF Miss, Inv, is_hit
<1>2. PICK old, s : old = data[i] /\ s = RankedOf(old)
  OBVIOUS
<1>3. PICK new : new = Insert(old, gone, tag, dirty)
  OBVIOUS
<1>4. data' = [data EXCEPT ![i] = new]
  BY <1>2, <1>3 DEF Miss
<1>5. Lists' = [Lists EXCEPT ![i] = RankedOf(new)]
  BY <1>4, ListsChange
<1>6. Ranks(new)
  BY <1>1, <1>2, <1>3, Brought
<1>7. Reference!Victims(i) = gone
  BY <1>1, <1>2, VictimsAre
<1>8. PICK m \in Nat : /\ m <= Len(s) /\ Reference!Kept(i) = SubSeq(s, 1, m)
                       /\ m = Cardinality(DOMAIN old \ gone)
                       /\ IsFiniteSet(DOMAIN old \ gone)
                       /\ \A n \in 1 .. m : s[n] \notin gone
  BY <1>1, <1>2, VictimsAre
<1>9. Cardinality(DOMAIN new) = m + 1
  <2>1. DOMAIN new = (DOMAIN old \ gone) \cup {tag} /\ tag \notin DOMAIN old \ gone
    BY <1>1, <1>2, <1>3 DEF Insert
  <2> QED
    BY <1>8, <2>1, FS_AddElement
<1>10. Before(s, m, tag) = RankedOf(new)
  <2>1. Ranks(old) /\ tag \notin DOMAIN old
    BY <1>1, <1>2
  <2>2. m <= Len(s) /\ \A n \in 1 .. m : s[n] \notin gone
    BY <1>8
  <2> QED
    BY <1>2, <1>3, <1>6, <1>9, <2>1, <2>2, RankedInserted
<1>11. ~ Reference!Held(i, tag)
  BY <1>1, HeldIs
<1>12. Reference!Lost(i) = {i} \X gone
  BY <1>7 DEF Reference!Lost
<1>13. RankedOf(new) = <<tag>> \o Reference!Kept(i)
  BY <1>8, <1>10 DEF Before
<1> HIDE DEF Lists
<1> QED
  BY <1>5, <1>11, <1>12, <1>13

\* What a block brought in costs.
LEMMA BringCosts ==
  ASSUME Inv, Fixed, TagsOK, NEW i \in Indices, NEW gone \in Evicted(i)
  PROVE  Charge(1 + WriteBacks(i)) =
           25 * size.byteNum + IF ({i} \X gone) \cap Dirty = {} THEN 0 ELSE 25 * size.byteNum
<1>1. PICK b \in Nat : b = 25 * size.byteNum
  <2>1. size.byteNum \in Nat
    BY SizeType
  <2> QED
    BY <2>1
<1>2. Charge(1) = b /\ Charge(2) = b + b
  <2>1. b * 1 = b /\ b * 2 = b + b
    OBVIOUS
  <2> QED
    BY <1>1, <2>1 DEF Charge
<1>3. PICK lost : lost = ({i} \X gone) \cap Dirty
  OBVIOUS
<1>4. lost = {} <=> gone \cap Spoilt(data[i]) = {}
  <2>1. DOMAIN data[i] \subseteq Tags
    BY DEF TagsOK
  <2>2. \A t \in gone : <<i, t>> \in Dirty <=> t \in Spoilt(data[i])
    BY <2>1 DEF Dirty, Spoilt
  <2> HIDE DEF Dirty
  <2>3. lost = {} <=> \A t \in gone : <<i, t>> \notin Dirty
    BY <1>3
  <2> QED
    BY <2>2, <2>3
<1>5. CASE WriteBacks(i) = 0 /\ gone \cap Spoilt(data[i]) = {}
  <2>1. lost = {} /\ 1 + WriteBacks(i) = 1
    BY <1>4, <1>5
  <2> HIDE DEF Dirty
  <2> QED
    BY <1>1, <1>2, <1>3, <2>1
<1>6. CASE WriteBacks(i) = 1 /\ \E key \in Spoilt(data[i]) : gone = {key}
  <2>1. lost # {} /\ 1 + WriteBacks(i) = 2
    BY <1>4, <1>6
  <2> HIDE DEF Dirty
  <2> QED
    BY <1>1, <1>2, <1>3, <2>1
<1>7. \/ WriteBacks(i) = 0 /\ gone \cap Spoilt(data[i]) = {}
      \/ WriteBacks(i) = 1 /\ \E key \in Spoilt(data[i]) : gone = {key}
  BY WrittenBack
<1> QED
  BY <1>5, <1>6, <1>7

-----------------------------------------------------------------------------
\* The five ways an access goes are steps of the reference.
LEMMA LoadHitIs ==
  ASSUME Inv, Fixed, TagsOK, UNCHANGED <<size, policy>>, NEW i \in Indices, NEW tag \in Tags,
         LoadHit(i, tag)
  PROVE  Reference!Load(i, tag)
<1>1. Hit(i, tag, FALSE) /\ cycles' = cycles + 1
  BY DEF LoadHit
<1>2. Reference!Held(i, tag) /\ Reference!Use(i, tag)
  BY <1>1, UseIs
<1>3. Dirty' = Dirty
  <2>1. Dirty' = Dirty \cup ({i} \X (IF FALSE /\ ~ policy.write_through THEN {tag} ELSE {}))
    BY <1>1, AfterHit
  <2> HIDE DEF Dirty
  <2> QED
    BY <2>1
<1> HIDE DEF Dirty
<1> QED
  BY <1>1, <1>2, <1>3 DEF Reference!Load

\* A store of a block that is held.
LEMMA StoreHitIs ==
  ASSUME Inv, Fixed, TagsOK, UNCHANGED <<size, policy>>, NEW i \in Indices, NEW tag \in Tags,
         StoreHit(i, tag)
  PROVE  Reference!Store(i, tag)
<1>1. Hit(i, tag, TRUE) /\ cycles' = cycles + 1 + Waits
  BY DEF StoreHit
<1>2. Reference!Held(i, tag) /\ Reference!Use(i, tag)
  BY <1>1, UseIs
<1>3. Dirty' = Dirty \cup Reference!Behind(i, tag)
  <2>1. Dirty' = Dirty \cup ({i} \X (IF TRUE /\ ~ policy.write_through THEN {tag} ELSE {}))
    BY <1>1, AfterHit
  <2> HIDE DEF Dirty
  <2>2. Reference!Behind(i, tag) = {i} \X (IF ~ policy.write_through THEN {tag} ELSE {})
    BY DEF Reference!Behind
  <2> QED
    BY <2>1, <2>2
<1>4. Reference!ToMemory = Waits
  BY DEF Reference!ToMemory, Waits
<1> HIDE DEF Dirty
<1> QED
  BY <1>1, <1>2, <1>3, <1>4 DEF Reference!Store

\* A load that brings its block in.
LEMMA LoadMissIs ==
  ASSUME Inv, Fixed, TagsOK, Counts, UNCHANGED <<size, policy>>, NEW i \in Indices,
         NEW tag \in Tags, NEW gone, LoadMiss(i, tag, gone)
  PROVE  Reference!Load(i, tag)
<1>1. /\ Miss(i, tag, gone, FALSE) /\ gone \in Evicted(i)
      /\ cycles' = cycles + Charge(1 + WriteBacks(i))
  BY DEF LoadMiss, Miss
<1>2. /\ ~ Reference!Held(i, tag)
      /\ Lists' = [Lists EXCEPT ![i] = <<tag>> \o Reference!Kept(i)]
      /\ Reference!Lost(i) = {i} \X gone
  BY <1>1, BringIs
<1>3. Dirty' = Dirty \ Reference!Lost(i)
  <2>1. Dirty' = (Dirty \ ({i} \X gone)) \cup ({i} \X (IF FALSE THEN {tag} ELSE {}))
    BY <1>1, AfterMiss
  <2> HIDE DEF Dirty
  <2> QED
    BY <1>2, <2>1
<1>4. cycles' = cycles + Reference!Transfer + 0
                + IF Reference!Lost(i) \cap Dirty = {} THEN 0 ELSE Reference!Transfer
  <2>1. PICK b \in Nat : b = 25 * size.byteNum
    <3>1. size.byteNum \in Nat
      BY SizeType
    <3> QED
      BY <3>1
  <2>2. Charge(1 + WriteBacks(i)) = b + IF Reference!Lost(i) \cap Dirty = {} THEN 0 ELSE b
    BY <1>1, <1>2, <2>1, BringCosts
  <2>3. cycles \in Nat /\ Reference!Transfer = b
    BY <2>1 DEF Counts, Reference!Transfer
  <2> HIDE DEF Dirty
  <2> QED
    BY <1>1, <2>2, <2>3
<1> HIDE DEF Dirty
<1>5. Reference!Bring(i, tag, 0)
  BY <1>2, <1>4 DEF Reference!Bring, Lists
<1> QED
  BY <1>2, <1>3, <1>5 DEF Reference!Load

\* A store that brings its block in.
LEMMA StoreMissIs ==
  ASSUME Inv, Fixed, TagsOK, Counts, UNCHANGED <<size, policy>>, NEW i \in Indices,
         NEW tag \in Tags, NEW gone, NEW dirty \in BOOLEAN, StoreMiss(i, tag, gone, dirty)
  PROVE  Reference!Store(i, tag)
<1>1. /\ Miss(i, tag, gone, dirty) /\ gone \in Evicted(i)
      /\ cycles' = cycles + Charge(1 + WriteBacks(i)) + 1 + Waits
      /\ policy.write_allocate /\ dirty = ~ policy.write_through
  BY DEF StoreMiss, Miss
<1>2. /\ ~ Reference!Held(i, tag)
      /\ Lists' = [Lists EXCEPT ![i] = <<tag>> \o Reference!Kept(i)]
      /\ Reference!Lost(i) = {i} \X gone
  BY <1>1, BringIs
<1>3. Dirty' = (Dirty \ Reference!Lost(i)) \cup Reference!Behind(i, tag)
  <2>1. Dirty' = (Dirty \ ({i} \X gone)) \cup ({i} \X (IF dirty THEN {tag} ELSE {}))
    BY ZenonT(60), <1>1, AfterMiss
  <2> HIDE DEF Dirty
  <2>2. Reference!Behind(i, tag) = {i} \X (IF dirty THEN {tag} ELSE {})
    <3>1. CASE policy.write_through
      BY <1>1, <3>1 DEF Reference!Behind
    <3>2. CASE ~ policy.write_through
      <4>1. dirty
        BY <1>1, <3>2
      <4> QED
        BY <3>2, <4>1 DEF Reference!Behind
    <3> QED
      BY <3>1, <3>2
  <2> QED
    BY <1>2, <2>1, <2>2
<1>4. cycles' = cycles + Reference!Transfer + (1 + Reference!ToMemory)
                + IF Reference!Lost(i) \cap Dirty = {} THEN 0 ELSE Reference!Transfer
  <2>1. PICK b \in Nat : b = 25 * size.byteNum
    <3>1. size.byteNum \in Nat
      BY SizeType
    <3> QED
      BY <3>1
  <2>2. Charge(1 + WriteBacks(i)) = b + IF Reference!Lost(i) \cap Dirty = {} THEN 0 ELSE b
    BY <1>1, <1>2, <2>1, BringCosts
  <2>3. cycles \in Nat /\ Reference!Transfer = b
    BY <2>1 DEF Counts, Reference!Transfer
  <2>4. Waits \in Nat /\ Reference!ToMemory = Waits
    BY DEF Waits, Reference!ToMemory
  <2> HIDE DEF Dirty
  <2> QED
    BY <1>1, <2>2, <2>3, <2>4
<1> HIDE DEF Dirty
<1>5. Reference!Bring(i, tag, 1 + Reference!ToMemory)
  BY <1>2, <1>4 DEF Reference!Bring, Lists
<1> QED
  BY <1>1, <1>2, <1>3, <1>5 DEF Reference!Store

\* A store that only memory hears of.
LEMMA StorePastIs ==
  ASSUME Inv, Fixed, UNCHANGED <<size, policy>>, NEW i \in Indices, NEW tag \in Tags,
         StorePast(i, tag)
  PROVE  Reference!Store(i, tag)
<1>1. /\ ~ policy.write_allocate /\ tag \notin DOMAIN data[i] /\ data' = data
      /\ cycles' = cycles + 100
  BY DEF StorePast
<1>2. ~ Reference!Held(i, tag)
  BY <1>1, HeldIs
<1>3. Lists' = Lists /\ Dirty' = Dirty
  BY <1>1 DEF Lists, Ranked, Dirty, Indices
<1> HIDE DEF Dirty
<1> QED
  BY <1>1, <1>2, <1>3 DEF Reference!Store, Lists

-----------------------------------------------------------------------------
\* The empty cache is that of the reference.
LEMMA RefinesInit == Init => Reference!Init
<1> SUFFICES ASSUME Init PROVE Reference!Init
  OBVIOUS
<1>1. size \in Sizes /\ policy \in Policies /\ cycles = 0
  BY DEF Init
<1>2. \A i \in Indices : data[i] = EmptySet
  BY DEF Init
<1>3. DOMAIN EmptySet = {}
  BY DEF EmptySet
<1>4. Dirty = {}
  BY <1>2, <1>3 DEF Dirty
<1>5. \A i \in Indices : Ranked(i) = << >>
  <2>1. Cardinality({}) = 0
    BY FS_EmptySet
  <2> SUFFICES ASSUME NEW i \in Indices PROVE Ranked(i) = << >>
    OBVIOUS
  <2>2. Cardinality(DOMAIN data[i]) = 0
    BY <1>2, <1>3, <2>1
  <2>3. 1 .. 0 = {}
    OBVIOUS
  <2> QED
    BY <2>2, <2>3 DEF Ranked
<1>6. Lists = [i \in Indices |-> << >>]
  BY <1>5 DEF Lists
<1> HIDE DEF Dirty
<1> QED
  BY <1>1, <1>4, <1>6 DEF Reference!Init, Lists, Indices

\* Every step is one of the reference, or none.
LEMMA RefinesNext ==
  Account /\ [Next]_vars
    => [Reference!Next]_<<size, policy, [i \in Indices |-> Ranked(i)], Dirty, cycles>>
<1> SUFFICES ASSUME Account, [Next]_vars
             PROVE  [Reference!Next]_<<size, policy, [i \in Indices |-> Ranked(i)], Dirty, cycles>>
  OBVIOUS
<1> HIDE DEF Dirty
<1>1. Inv /\ Fixed /\ TagsOK /\ Counts
  BY DEF Account
<1>2. ASSUME NEW address \in Addresses, load(address)
      PROVE  Reference!Next
  <2>1. UNCHANGED <<size, policy>>
    BY <1>2 DEF load
  <2>2. PICK i \in Indices, tag \in Tags : LoadHit(i, tag) \/ \E gone : LoadMiss(i, tag, gone)
    BY <1>1, <1>2, LoadIs
  <2>3. Reference!Load(i, tag)
    BY <1>1, <2>1, <2>2, LoadHitIs, LoadMissIs
  <2> QED
    BY <2>1, <2>3 DEF Reference!Next, Indices
<1>3. ASSUME NEW address \in Addresses, store(address)
      PROVE  Reference!Next
  <2>1. UNCHANGED <<size, policy>>
    BY <1>3 DEF store
  <2>2. PICK i \in Indices, tag \in Tags :
           \/ StoreHit(i, tag)
           \/ \E gone : \E dirty \in BOOLEAN : StoreMiss(i, tag, gone, dirty)
           \/ StorePast(i, tag)
    BY <1>1, <1>3, StoreIs
  <2>3. Reference!Store(i, tag)
    BY <1>1, <2>1, <2>2, StoreHitIs, StoreMissIs, StorePastIs
  <2> QED
    BY <2>1, <2>3 DEF Reference!Next, Indices
<1>4. CASE UNCHANGED vars
  BY <1>4 DEF vars, Lists, Ranked, Dirty, Indices
<1> QED
  BY <1>2, <1>3, <1>4 DEF Next, output

\* The simulator's counters and dirty bits do what lists of blocks and an
\* exact account of main memory do, for every geometry, policy and trace.
THEOREM CacheImplements == Spec => ImplementsPolicy
<1>1. Init => Reference!Init
  BY RefinesInit
<1>2. Account /\ [Next]_vars
        => [Reference!Next]_<<size, policy, [i \in Indices |-> Ranked(i)], Dirty, cycles>>
  BY RefinesNext
<1> QED
  BY <1>1, <1>2, AccountAlways, PTL DEF Spec, ImplementsPolicy, Reference!Spec
===============================================================================
