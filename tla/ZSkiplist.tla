----------------------------- MODULE ZSkiplist -----------------------------
(***************************************************************************)
(* The skip list and the zset of zskiplist.c as values.  Nodes are kept by *)
(* address, as in List; the header is the node HEADER.  Levels count from  *)
(* 0 as in the code.  Members and scores are numbers: members compare as   *)
(* member_cmp orders their bytes, scores as doubles that are not NaN.      *)
(* The random height of a new node is a parameter.                         *)
(***************************************************************************)
EXTENDS List, Dict

CONSTANT ZSKIPLIST_MAXLEVEL

ASSUME ZslAssumption == ZSKIPLIST_MAXLEVEL \in Nat \ {0}

HEADER == -1

zsl_create ==
    [level |-> 1, length |-> 0, tail |-> NULL,
     node |-> HEADER :> [member |-> 0, score |-> 0, backward |-> NULL,
                         level |-> [i \in 0 .. ZSKIPLIST_MAXLEVEL - 1 |->
                                      [forward |-> NULL, span |-> 0]]]]

Forward(z, x, i) == z.node[x].level[i].forward
Span(z, x, i) == z.node[x].level[i].span

\* Ascending by score, ties broken by member.
Less(a, b) == a.score < b.score \/ (a.score = b.score /\ a.member < b.member)

\* The four conditions under which a search steps onto node f, whose rank is r.
Passes(z, q, f, r) ==
    LET n == z.node[f] IN
    CASE q.by = "key"  -> Less(n, q)
      [] q.by = "rank" -> r <= q.rank
      [] q.by = "min"  -> n.score < q.score \/ (q.ex /\ n.score = q.score)
      [] q.by = "max"  -> n.score < q.score \/ (~q.ex /\ n.score = q.score)

\* From level i and place w down to level 0: where the search stands, its rank, and
\* update and rank at the end of every level. A search by rank ends when it is met.
RECURSIVE Descend(_, _, _, _)
Descend(z, q, i, w) ==
    IF i < 0 THEN w
    ELSE LET f == Forward(z, w.x, i)
             r == w.r + Span(z, w.x, i)
         IN  IF f # NULL /\ Passes(z, q, f, r)
             THEN Descend(z, q, i, [w EXCEPT !.x = f, !.r = r])
             ELSE IF q.by = "rank" /\ w.r = q.rank THEN w
             ELSE Descend(z, q, i - 1, [w EXCEPT !.update = (i :> w.x) @@ @,
                                                 !.rank = (i :> w.r) @@ @])

Search(z, q) ==
    Descend(z, q, z.level - 1, [x |-> HEADER, r |-> 0, update |-> <<>>, rank |-> <<>>])

Key(score, member) == [by |-> "key", score |-> score, member |-> member]

\* Every node with its levels rewritten by F(address, level, link).
Relink(heap, F(_, _, _)) ==
    [x \in DOMAIN heap |->
       [heap[x] EXCEPT !.level = [i \in DOMAIN @ |-> F(x, i, heap[x].level[i])]]]

SetBackward(heap, x, b) == IF x = NULL THEN heap ELSE [heap EXCEPT ![x].backward = b]

zsl_insert(z, score, member, level) ==
    LET s == Search(z, Key(score, member))
        levels == Max({z.level, level})
        update == [i \in 0 .. levels - 1 |-> IF i < z.level THEN s.update[i] ELSE HEADER]
        before == [i \in 0 .. levels - 1 |-> s.rank[0] - (IF i < z.level THEN s.rank[i] ELSE 0)]
        span == [i \in 0 .. levels - 1 |->
                   IF i < z.level THEN Span(z, update[i], i) ELSE z.length]
        x == Fresh(z.node)
        next == Forward(z, update[0], 0)
        new == [member |-> member, score |-> score,
                backward |-> IF update[0] = HEADER THEN NULL ELSE update[0],
                level |-> [i \in 0 .. level - 1 |->
                             [forward |-> Forward(z, update[i], i),
                              span |-> span[i] - before[i]]]]
        linked == Relink(z.node, LAMBDA n, i, l :
                    IF i >= levels \/ update[i] # n THEN l
                    ELSE IF i < level THEN [forward |-> x, span |-> before[i] + 1]
                    ELSE [l EXCEPT !.span = @ + 1])
    IN  [level |-> levels, length |-> z.length + 1,
         tail |-> IF next = NULL THEN x ELSE z.tail,
         node |-> (x :> new) @@ SetBackward(linked, next, x)]

\* Mutant: a link that passes over the deleted node keeps its span.
zsl_delete_node_uncounted(z, x, update) ==
    LET next == Forward(z, x, 0)
        unlinked == Relink(z.node, LAMBDA n, i, l :
            IF i >= z.level \/ update[i] # n \/ l.forward # x THEN l
            ELSE [forward |-> Forward(z, x, i), span |-> l.span + Span(z, x, i) - 1])
    IN  [level |-> z.level, length |-> z.length - 1,
         tail |-> IF next = NULL THEN z.node[x].backward ELSE z.tail,
         node |-> Freed(SetBackward(unlinked, next, z.node[x].backward), x)]

zsl_delete_node(z, x, update) ==
    LET next == Forward(z, x, 0)
        unlinked == Relink(z.node, LAMBDA n, i, l :
            IF i >= z.level \/ update[i] # n THEN l
            ELSE IF l.forward = x
                 THEN [forward |-> Forward(z, x, i), span |-> l.span + Span(z, x, i) - 1]
            ELSE [l EXCEPT !.span = @ - 1])
        inUse == {i \in 1 .. z.level : unlinked[HEADER].level[i - 1].forward # NULL}
    IN  [level |-> Max({1} \cup inUse), length |-> z.length - 1,
         tail |-> IF next = NULL THEN z.node[x].backward ELSE z.tail,
         node |-> Freed(SetBackward(unlinked, next, z.node[x].backward), x)]

\* The node behind a search for exactly this score and member, or NULL.
Found(z, s, score, member) ==
    LET x == Forward(z, s.x, 0) IN
    IF x # NULL /\ z.node[x].score = score /\ z.node[x].member = member THEN x ELSE NULL

zsl_delete(z, score, member) ==
    LET s == Search(z, Key(score, member))
        x == Found(z, s, score, member)
    IN  IF x = NULL THEN z ELSE zsl_delete_node(z, x, s.update)

zsl_get_rank(z, score, member) ==
    LET s == Search(z, Key(score, member)) IN
    IF Found(z, s, score, member) = NULL THEN 0 ELSE s.r + 1

\* Mutant: the walk steps beyond the rank by one.
zsl_get_element_by_rank_beyond(z, rank) ==
    LET s == Search(z, [by |-> "rank", rank |-> rank + 1]) IN
    IF rank = 0 \/ s.r < rank THEN NULL ELSE s.x

zsl_get_element_by_rank(z, rank) ==
    LET s == Search(z, [by |-> "rank", rank |-> rank]) IN
    IF rank = 0 \/ s.r # rank THEN NULL ELSE s.x

zsl_first_in_score_range(z, min, minex) ==
    Forward(z, Search(z, [by |-> "min", score |-> min, ex |-> minex]).x, 0)

zsl_last_in_score_range(z, max, maxex) ==
    LET x == Search(z, [by |-> "max", score |-> max, ex |-> maxex]).x IN
    IF x = HEADER THEN NULL ELSE x
-----------------------------------------------------------------------------
zset_create(hash) == [dict |-> dict_create(hash), zsl |-> zsl_create]

\* Mutant: the dictionary keeps the address of the freed node.
zset_add_stale(zs, score, member, level) ==
    LET n == dict_get(zs.dict, member) IN
    IF n = NoEntry
    THEN LET z == zsl_insert(zs.zsl, score, member, level) IN
         [dict |-> dict_set(zs.dict, member, Fresh(zs.zsl.node)), zsl |-> z]
    ELSE IF zs.zsl.node[n].score = score THEN zs
    ELSE LET cut == zsl_delete(zs.zsl, zs.zsl.node[n].score, member) IN
         [zs EXCEPT !.zsl = zsl_insert(cut, score, member, level)]

\* A changed score removes the node, frees it and inserts a new one.
zset_add(zs, score, member, level) ==
    LET n == dict_get(zs.dict, member)
        cut == IF n = NoEntry THEN zs
               ELSE [zsl |-> zsl_delete(zs.zsl, zs.zsl.node[n].score, zs.zsl.node[n].member),
                     dict |-> dict_delete(zs.dict, member)]
    IN  IF n # NoEntry /\ zs.zsl.node[n].score = score THEN zs
        ELSE [zsl |-> zsl_insert(cut.zsl, score, member, level),
              dict |-> dict_set(cut.dict, member, Fresh(cut.zsl.node))]

\* 1 for a new member, 2 for a changed score, 0 for no change.
zset_add_result(zs, score, member) ==
    LET n == dict_get(zs.dict, member) IN
    IF n = NoEntry THEN 1 ELSE IF zs.zsl.node[n].score = score THEN 0 ELSE 2

zset_remove(zs, member) ==
    LET n == dict_get(zs.dict, member) IN
    IF n = NoEntry THEN zs
    ELSE [zsl |-> zsl_delete(zs.zsl, zs.zsl.node[n].score, zs.zsl.node[n].member),
          dict |-> dict_delete(zs.dict, member)]

zset_score(zs, member) ==
    LET n == dict_get(zs.dict, member) IN
    IF n = NoEntry THEN NoEntry ELSE zs.zsl.node[n].score
=============================================================================
