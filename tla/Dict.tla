-------------------------------- MODULE Dict --------------------------------
(***************************************************************************)
(* The hash table of dict.c as a value.  A chain is the sequence of its    *)
(* entries from the head; an entry is a key and a value.  The seed of a    *)
(* table decides its hash function, so a table carries the hash of every   *)
(* key.  Sizes are powers of two: the mask of the code is a remainder.     *)
(***************************************************************************)
EXTENDS Integers, Sequences, SequencesExt

CONSTANTS
    INITIAL_SIZE, LOAD_FACTOR_NUM, LOAD_FACTOR_DEN,
    NoEntry    \* NULL, where dict_get would return a value

ASSUME DictAssumption ==
    /\ \E k \in 0 .. 16 : INITIAL_SIZE = 2 ^ k
    /\ LOAD_FACTOR_NUM \in Nat \ {0} /\ LOAD_FACTOR_DEN \in Nat \ {0}

dict_create(hash) == [table |-> <<>>, size |-> 0, used |-> 0, hash |-> hash]

Bucket(d, k) == d.hash[k] % d.size

\* The entries of the buckets a up to but not including b, in the order in which
\* dict_iter_next meets them.
RECURSIVE EntriesIn(_, _, _)
EntriesIn(d, a, b) == IF a >= b THEN <<>> ELSE d.table[a] \o EntriesIn(d, a + 1, b)

Entries(d) == EntriesIn(d, 0, d.size)

\* Mutant: the bucket is computed with the old size.
dict_resize_oldmask(d, new_size) ==
    [d EXCEPT !.table = [b \in 0 .. new_size - 1 |->
                           Reverse(SelectSeq(Entries(d), LAMBDA e : Bucket(d, e.key) = b))],
              !.size = new_size]

\* Every entry, in iteration order, is pushed to the head of its new chain.
dict_resize(d, new_size) ==
    [d EXCEPT !.table = [b \in 0 .. new_size - 1 |->
                           Reverse(SelectSeq(Entries(d), LAMBDA e : d.hash[e.key] % new_size = b))],
              !.size = new_size]

dict_grow(d) ==
    IF d.size = 0 THEN dict_resize(d, INITIAL_SIZE)
    ELSE IF d.used * LOAD_FACTOR_DEN >= d.size * LOAD_FACTOR_NUM
         THEN dict_resize(d, d.size * 2) ELSE d

\* Position of a key in its chain, 0 if it is not there.
Position(d, k) ==
    LET chain == d.table[Bucket(d, k)]
        found == {i \in 1 .. Len(chain) : chain[i].key = k}
    IN  IF found = {} THEN 0 ELSE CHOOSE i \in found : \A j \in found : i <= j

dict_get(d, k) ==
    IF d.size = 0 THEN NoEntry
    ELSE LET i == Position(d, k) IN IF i = 0 THEN NoEntry ELSE d.table[Bucket(d, k)][i].val

\* The value of a key that is in the table, changed in its entry.
InPlace(d, k, val) ==
    [d EXCEPT !.table[Bucket(d, k)] =
                [i \in DOMAIN @ |-> IF @[i].key = k THEN [@[i] EXCEPT !.val = val] ELSE @[i]]]

dict_set(d0, k, val) ==
    LET d == dict_grow(d0) IN
    IF Position(d, k) # 0 THEN InPlace(d, k, val)
    ELSE [d EXCEPT !.table[Bucket(d, k)] = <<[key |-> k, val |-> val]>> \o @,
                   !.used = @ + 1]

dict_delete(d, k) ==
    IF d.size = 0 \/ Position(d, k) = 0 THEN d
    ELSE [d EXCEPT !.table[Bucket(d, k)] = RemoveAt(@, Position(d, k)), !.used = @ - 1]

\* Every entry is in the chain of its hash, no key is there twice, used counts
\* them, and the table is never fuller than one entry over the load factor.
TableSound(d) ==
    /\ \A b \in 0 .. d.size - 1 : \A i \in 1 .. Len(d.table[b]) : Bucket(d, d.table[b][i].key) = b
    /\ \A i, j \in 1 .. Len(Entries(d)) : Entries(d)[i].key = Entries(d)[j].key => i = j
    /\ d.used = Len(Entries(d))
    /\ (d.used - 1) * LOAD_FACTOR_DEN < d.size * LOAD_FACTOR_NUM
=============================================================================
