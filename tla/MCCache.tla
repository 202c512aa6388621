------------------------------ MODULE MCCache ------------------------------
(* Cache with addresses of five bits: eight blocks of four bytes, which the *)
(* cache keeps in one set of four, two sets of two, or four sets of one.    *)
(* The trace uses five of the blocks, so that every geometry must evict.    *)
EXTENDS Cache

MCAddresses == {1, 7, 8, 19, 30}

MCSizes == {[setNum |-> 1, blockNum |-> 4, byteNum |-> 4],
            [setNum |-> 2, blockNum |-> 2, byteNum |-> 4],
            [setNum |-> 4, blockNum |-> 1, byteNum |-> 4]}
=============================================================================
