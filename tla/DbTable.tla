------------------------------ MODULE DbTable ------------------------------
(***************************************************************************)
(* The keyspace as db.c keeps it: one hash table and the cursor of the     *)
(* active expiry cycle, which runs between the commands.  Of an object     *)
(* only its deadline matters: none, pending, or passed.  FLUSHALL replaces *)
(* the table, with a new seed, and leaves the cursor where it was.         *)
(***************************************************************************)
EXTENDS Dict, FiniteSets, TLC

CONSTANTS
    Key,
    Hashes,                 \* the hash functions a random seed may give
    EXPIRE_CYCLE_MAX_KEYS   \* keys after which a cycle stops at the next bucket

ASSUME TableAssumption == EXPIRE_CYCLE_MAX_KEYS \in Nat \ {0}

VARIABLES d, expire_cursor

vars == <<d, expire_cursor>>

Init ==
    /\ \E h \in Hashes : d = dict_create(h)
    /\ expire_cursor = 0

\* Mutant: any deadline counts, whether it has passed or not.
key_expired_early(o) == o \in {"pending", "passed"}

key_expired(o) == o = "passed"

\* A lookup removes the key it finds expired.
lookup_key(k) == IF key_expired(dict_get(d, k)) THEN dict_delete(d, k) ELSE d

\* Every command that looks a key up and stores an object under it.
Store(k, t) ==
    /\ d' = dict_set(lookup_key(k), k, t)
    /\ UNCHANGED expire_cursor

\* A command that only reads.
Look(k) == d' = lookup_key(k) /\ UNCHANGED expire_cursor

Delete(k) == d' = dict_delete(d, k) /\ UNCHANGED expire_cursor

cmd_rename(k, to) ==
    LET s == lookup_key(k) IN
    /\ k # to
    /\ d' = IF dict_get(s, k) = NoEntry THEN s
            ELSE dict_set(dict_delete(s, k), to, dict_get(s, k))
    /\ UNCHANGED expire_cursor

cmd_flushall ==
    /\ \E h \in Hashes : d' = dict_create(h)
    /\ UNCHANGED expire_cursor

\* The deadline of a key passes: the object ages where it is, the table is not touched.
Passes(k) ==
    /\ dict_get(d, k) = "pending"
    /\ d' = InPlace(d, k, "passed")
    /\ UNCHANGED expire_cursor

\* Mutant: the cycle starts from bucket 0 every time.
db_expire_cycle_restart ==
    /\ d.size # 0
    /\ LET visited == {b \in 0 .. d.size - 1 : Len(EntriesIn(d, 0, b)) < EXPIRE_CYCLE_MAX_KEYS}
           met == EntriesIn(d, 0, Cardinality(visited))
           dead == {met[i].key : i \in {j \in 1 .. Len(met) : key_expired(met[j].val)}}
       IN  d' = [d EXCEPT !.table = [b \in DOMAIN @ |->
                            SelectSeq(@[b], LAMBDA e : e.key \notin dead)],
                          !.used = @ - Cardinality(dead)]
    /\ UNCHANGED expire_cursor

\* Whole buckets from the cursor on, until enough keys were examined or the table
\* ends; expired entries are removed and the cursor wraps.
db_expire_cycle ==
    IF d.size = 0 THEN expire_cursor' = 0 /\ UNCHANGED d
    ELSE LET from == IF expire_cursor >= d.size THEN 0 ELSE expire_cursor
             visited == {b \in from .. d.size - 1 :
                           Len(EntriesIn(d, from, b)) < EXPIRE_CYCLE_MAX_KEYS}
             to == from + Cardinality(visited)
             met == EntriesIn(d, from, to)
             dead == {met[i].key : i \in {j \in 1 .. Len(met) : key_expired(met[j].val)}}
         IN  /\ d' = [d EXCEPT !.table = [b \in DOMAIN @ |->
                                 IF b \in visited
                                 THEN SelectSeq(@[b], LAMBDA e : ~key_expired(e.val)) ELSE @[b]],
                               !.used = @ - Cardinality(dead)]
             /\ expire_cursor' = IF to >= d.size THEN 0 ELSE to

Next ==
    \/ \E k \in Key, t \in {"none", "pending"} : Store(k, t)
    \/ \E k \in Key : Look(k) \/ Delete(k) \/ Passes(k)
    \/ \E k, to \in Key : cmd_rename(k, to)
    \/ cmd_flushall
    \/ db_expire_cycle

Spec == Init /\ [][Next]_vars

\* The event loop calls the cycle at least every 100 ms, whatever the clients do.
FairSpec == Spec /\ WF_vars(db_expire_cycle)
-----------------------------------------------------------------------------
Held == {k \in Key : dict_get(d, k) # NoEntry}

Abstract == INSTANCE KeyMap WITH map <- [k \in Held |-> dict_get(d, k)]

\* dict.c, db.c 46-84: through growth, chains, deletion and the expiry cycle the
\* table behaves as a map, and only expired keys leave it unasked.
ImplementsKeyMap == Abstract!Spec

\* dict.c 33-111, 129-156: entries stay in the chain of their hash, once, counted,
\* within the load factor, so that a walk over the table meets every key once.
TableIsSound ==
    /\ TableSound(d)
    /\ {Entries(d)[i].key : i \in 1 .. Len(Entries(d))} = Held

\* db.c 61-84: every key whose deadline has passed is removed in the end even if
\* nobody asks for it, while commands insert, delete, rename, grow the table under
\* the cursor and flush it.
ExpiredSwept == \A k \in Key : dict_get(d, k) = "passed" ~> dict_get(d, k) # "passed"
=============================================================================
