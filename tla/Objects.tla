------------------------------ MODULE Objects ------------------------------
(***************************************************************************)
(* A list or a sorted set under any sequence of the operations that db.c   *)
(* performs on it.  ptr is the structure in memory, ret the last operation *)
(* with the index it was given, if any, and what it returned.              *)
(***************************************************************************)
EXTENDS ZSkiplist

CONSTANTS
    Value,      \* what a list holds
    Member,     \* members of a sorted set, numbers in the order of member_cmp
    Score,      \* scores, numbers
    Hashes,     \* the hash functions a random seed may give
    MaxLen,     \* bound on the length of a list
    MaxHeight   \* bound on the random height of a node

ASSUME ObjectsAssumption ==
    /\ Member \subseteq Nat \ {0} /\ Score \subseteq Int /\ Value \subseteq Nat \ {0}
    /\ MaxLen \in Nat /\ MaxHeight \in 1 .. ZSKIPLIST_MAXLEVEL

VARIABLES type, ptr, ret

vars == <<type, ptr, ret>>

Void == -1    \* nothing was returned

Init ==
    /\ \/ type = "list" /\ ptr = list_create
       \/ type = "zset" /\ \E h \in Hashes : ptr = zset_create(h)
    /\ ret = <<"create", 0, Void>>

Becomes(op, at, new, answer) == ptr' = new /\ ret' = <<op, at, answer>> /\ UNCHANGED type

PushHead(v) ==
    /\ type = "list" /\ ptr.len < MaxLen
    /\ Becomes("push_head", 0, list_push_head(ptr, v), Void)

PushTail(v) ==
    /\ type = "list" /\ ptr.len < MaxLen
    /\ Becomes("push_tail", 0, list_push_tail(ptr, v), Void)

\* LINSERT: after the i-th node, or after the predecessor of the pivot, which may
\* be missing.
InsertAfter(i, v) ==
    /\ type = "list" /\ ptr.len < MaxLen /\ i <= ptr.len
    /\ Becomes("insert_after", i, list_insert_after(ptr, IF i = 0 THEN NULL ELSE list_node_at(ptr, i - 1), v), Void)

PopHead ==
    /\ type = "list"
    /\ Becomes("pop_head", 0, list_pop_head(ptr), list_peek_head(ptr))

PopTail ==
    /\ type = "list"
    /\ Becomes("pop_tail", 0, list_pop_tail(ptr), list_peek_tail(ptr))

\* LREM and LTRIM: any node goes.
Detach(i) ==
    /\ type = "list" /\ i < ptr.len
    /\ LET n == list_node_at(ptr, i) IN Becomes("detach", i, list_detach(ptr, n), ptr.node[n].val)

ZsetAdd(m, s, height) ==
    /\ type = "zset"
    /\ Becomes("add", 0, zset_add(ptr, s, m, height), zset_add_result(ptr, s, m))

ZsetRemove(m) ==
    /\ type = "zset"
    /\ Becomes("remove", 0, zset_remove(ptr, m), IF dict_get(ptr.dict, m) = NoEntry THEN 0 ELSE 1)

Next ==
    \/ \E v \in Value : PushHead(v) \/ PushTail(v)
    \/ \E i \in 0 .. MaxLen, v \in Value : InsertAfter(i, v)
    \/ PopHead
    \/ PopTail
    \/ \E i \in 0 .. MaxLen - 1 : Detach(i)
    \/ \E m \in Member, s \in Score, height \in 1 .. MaxHeight : ZsetAdd(m, s, height)
    \/ \E m \in Member : ZsetRemove(m)

Spec == Init /\ [][Next]_vars
-----------------------------------------------------------------------------
\* The sorted set in order, along level 0.
RECURSIVE Behind(_, _, _)
Behind(z, x, k) ==
    IF k = 0 THEN <<>> ELSE LET f == Forward(z, x, 0) IN <<f>> \o Behind(z, f, k - 1)
Order(z) == Behind(z, HEADER, z.length)

Members(zs) == {m \in Member : dict_get(zs.dict, m) # NoEntry}

Abstract == INSTANCE Container
              WITH content <- IF type = "list" THEN Values(ptr)
                              ELSE [m \in Members(ptr) |-> zset_score(ptr, m)]

\* list.h, zskiplist.h 52-70: whatever the links, spans and chains look like, a
\* list behaves as a sequence and a sorted set as a map from members to scores,
\* and every operation changes it and returns what the
\* headers announce.
ImplementsContainer == Abstract!Spec

\* list.c 39-116: the nodes that are allocated are the ones met from the head, they
\* are met in reverse from the tail, and list_node_at answers the node of an index
\* from either end and NULL outside.
ListLinked ==
    type = "list" =>
      LET seq == Nodes(ptr) IN
      /\ {seq[i] : i \in 1 .. ptr.len} = DOMAIN ptr.node
      /\ Cardinality(DOMAIN ptr.node) = ptr.len
      /\ Walk(ptr, ptr.tail, "prev", ptr.len) = Append(Reverse(seq), NULL)
      /\ Walk(ptr, ptr.head, "next", ptr.len) = Append(seq, NULL)
      /\ \A i \in -ptr.len - 1 .. ptr.len :
           list_node_at(ptr, i) = IF i \in 0 .. ptr.len - 1 THEN seq[i + 1]
                                  ELSE IF i \in -ptr.len .. -1 THEN seq[ptr.len + i + 1]
                                  ELSE NULL

\* zskiplist.c 55-73, 112-160: level 0 holds every node once, in order, mirrored by
\* the backward links; a higher level leads to the next node that is tall enough,
\* and every span is the number of nodes its link moves forward.
SkiplistSound ==
    type = "zset" =>
      LET z == ptr.zsl
          order == Order(z)
          place == [x \in DOMAIN z.node |-> IF x = HEADER THEN 0
                      ELSE CHOOSE i \in 1 .. z.length : order[i] = x]
          Taller(x, i) == {j \in place[x] + 1 .. z.length : i \in DOMAIN z.node[order[j]].level}
      IN  /\ {order[i] : i \in 1 .. z.length} = DOMAIN z.node \ {HEADER}
          /\ \A i \in 1 .. z.length - 1 : Less(z.node[order[i]], z.node[order[i + 1]])
          /\ \A i \in 1 .. z.length :
               z.node[order[i]].backward = IF i = 1 THEN NULL ELSE order[i - 1]
          /\ z.tail = IF z.length = 0 THEN NULL ELSE order[z.length]
          /\ \A x \in DOMAIN z.node : \A i \in DOMAIN z.node[x].level :
               i < z.level =>
                 LET next == IF Taller(x, i) = {} THEN 0 ELSE Min(Taller(x, i)) IN
                 /\ Forward(z, x, i) = IF next = 0 THEN NULL ELSE order[next]
                 /\ Span(z, x, i) = (IF next = 0 THEN z.length ELSE next) - place[x]
          /\ \A i \in z.level .. ZSKIPLIST_MAXLEVEL - 1 : Forward(z, HEADER, i) = NULL

\* zskiplist.c 187-249: the searches that go by spans and by scores find what a
\* scan of the whole set in order would find, on every boundary and outside.
QueriesAgree ==
    type = "zset" =>
      LET z == ptr.zsl
          order == Order(z)
          score == [i \in 1 .. z.length |-> z.node[order[i]].score]
      IN  /\ \A i \in 0 .. z.length + 1 :
               zsl_get_element_by_rank(z, i) = IF i \in 1 .. z.length THEN order[i] ELSE NULL
          /\ \A i \in 1 .. z.length : zsl_get_rank(z, score[i], z.node[order[i]].member) = i
          /\ \A m \in Member, s \in Score :
               (m \notin Members(ptr) \/ zset_score(ptr, m) # s) => zsl_get_rank(z, s, m) = 0
          /\ \A s \in Score, ex \in BOOLEAN :
               LET above == {i \in 1 .. z.length : score[i] > s \/ (~ex /\ score[i] = s)}
                   below == {i \in 1 .. z.length : score[i] < s \/ (~ex /\ score[i] = s)}
               IN  /\ zsl_first_in_score_range(z, s, ex)
                        = IF above = {} THEN NULL ELSE order[Min(above)]
                   /\ zsl_last_in_score_range(z, s, ex)
                        = IF below = {} THEN NULL ELSE order[Max(below)]

\* zskiplist.c 272-301: the dictionary of a sorted set and its skip list hold the
\* same members, and a dictionary value is the address of that member's node, also
\* after a changed score has freed one node and allocated another.
DictPointsAtNodes ==
    type = "zset" =>
      /\ TableSound(ptr.dict)
      /\ ptr.dict.used = ptr.zsl.length
      /\ \A m \in Members(ptr) :
           LET n == dict_get(ptr.dict, m) IN
           n \in DOMAIN ptr.zsl.node /\ ptr.zsl.node[n].member = m
=============================================================================
