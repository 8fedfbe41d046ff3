-------------------------------- MODULE List --------------------------------
(***************************************************************************)
(* The doubly linked list of list.c as a value: its head, tail and len     *)
(* fields and the nodes it has allocated, by address.  list_new_node takes *)
(* the least free address, so the address of a freed node comes back at    *)
(* once, as it may with malloc.                                            *)
(***************************************************************************)
EXTENDS Integers, SequencesExt

NULL == 0

list_create == [head |-> NULL, tail |-> NULL, len |-> 0, node |-> <<>>]

Fresh(heap) == Min((1 .. Cardinality(DOMAIN heap) + 1) \ DOMAIN heap)
Freed(heap, n) == [x \in DOMAIN heap \ {n} |-> heap[x]]

\* n->prev = p and n->next = p for a node that exists.
SetPrev(heap, n, p) == IF n = NULL THEN heap ELSE [heap EXCEPT ![n].prev = p]
SetNext(heap, n, p) == IF n = NULL THEN heap ELSE [heap EXCEPT ![n].next = p]

\* A new node between two neighbours, either of which may be missing.
Link(l, prev, next, val) ==
    LET n == Fresh(l.node) IN
    [head |-> IF prev = NULL THEN n ELSE l.head,
     tail |-> IF next = NULL THEN n ELSE l.tail,
     len |-> l.len + 1,
     node |-> (n :> [prev |-> prev, next |-> next, val |-> val])
                @@ SetNext(SetPrev(l.node, next, n), prev, n)]

list_push_head(l, val) == Link(l, NULL, l.head, val)
list_push_tail(l, val) == Link(l, l.tail, NULL, val)

\* Mutant: the new node is put in front of the node.
list_insert_after_before(l, node, val) ==
    IF node = NULL THEN Link(l, NULL, l.head, val)
    ELSE Link(l, l.node[node].prev, node, val)

list_insert_after(l, node, val) ==
    Link(l, node, IF node = NULL THEN l.head ELSE l.node[node].next, val)

\* Mutant: the tail is not moved back.
list_detach_keeptail(l, node) ==
    LET n == l.node[node] IN
    [head |-> IF n.prev = NULL THEN n.next ELSE l.head,
     tail |-> l.tail,
     len |-> l.len - 1,
     node |-> Freed(SetPrev(SetNext(l.node, n.prev, n.next), n.next, n.prev), node)]

list_detach(l, node) ==
    LET n == l.node[node] IN
    [head |-> IF n.prev = NULL THEN n.next ELSE l.head,
     tail |-> IF n.next = NULL THEN n.prev ELSE l.tail,
     len |-> l.len - 1,
     node |-> Freed(SetPrev(SetNext(l.node, n.prev, n.next), n.next, n.prev), node)]

list_peek_head(l) == IF l.head = NULL THEN NULL ELSE l.node[l.head].val
list_peek_tail(l) == IF l.tail = NULL THEN NULL ELSE l.node[l.tail].val

list_pop_head(l) ==
    IF l.head = NULL THEN l
    ELSE LET next == l.node[l.head].next IN
         [head |-> next,
          tail |-> IF next = NULL THEN NULL ELSE l.tail,
          len |-> l.len - 1,
          node |-> Freed(SetPrev(l.node, next, NULL), l.head)]

list_pop_tail(l) ==
    IF l.tail = NULL THEN l
    ELSE LET prev == l.node[l.tail].prev IN
         [head |-> IF prev = NULL THEN NULL ELSE l.head,
          tail |-> prev,
          len |-> l.len - 1,
          node |-> Freed(SetNext(l.node, prev, NULL), l.tail)]

\* The nodes met from n in at most k steps along a field, n itself first; NULL
\* stands for every step beyond the end.
RECURSIVE Walk(_, _, _, _)
Walk(l, n, field, k) ==
    <<n>> \o (IF k = 0 THEN <<>>
              ELSE Walk(l, IF n \in DOMAIN l.node THEN l.node[n][field] ELSE NULL, field, k - 1))
Follow(l, n, field, k) == Last(Walk(l, n, field, k))

list_node_at(l, index) ==
    LET i == IF index < 0 THEN index + l.len ELSE index IN
    IF i < 0 \/ i >= l.len THEN NULL
    ELSE IF i <= l.len \div 2 THEN Follow(l, l.head, "next", i)
    ELSE Follow(l, l.tail, "prev", l.len - 1 - i)

\* The nodes in the order of list_first and list_next, and what they hold.
Nodes(l) == Front(Walk(l, l.head, "next", l.len))
Values(l) == LET seq == Nodes(l) IN
    [i \in 1 .. l.len |-> IF seq[i] \in DOMAIN l.node THEN l.node[seq[i]].val ELSE NULL]
=============================================================================
