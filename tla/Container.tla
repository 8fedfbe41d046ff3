----------------------------- MODULE Container -----------------------------
(***************************************************************************)
(* What a list and a sorted set promise to the commands of db.c: a list is *)
(* a sequence, a sorted set maps each member to its score.  Nodes, links,  *)
(* levels and hash chains are invisible.                                   *)
(***************************************************************************)
EXTENDS Integers, Sequences, SequencesExt, TLC

CONSTANTS Value, Member, Score, MaxLen

VARIABLES type, content, ret

vars == <<type, content, ret>>

Void == -1    \* nothing was returned
Nil == 0

Init ==
    /\ type \in {"list", "zset"}
    /\ content = <<>>
    /\ ret = <<"create", 0, Void>>

Becomes(op, at, new, answer) == ret' = <<op, at, answer>> /\ content' = new /\ UNCHANGED type

\* A value comes to stand behind the first i.
Insert(op, at, i, v) ==
    /\ Len(content) < MaxLen /\ i <= Len(content)
    /\ Becomes(op, at, InsertAt(content, i + 1, v), Void)

Take(op, at, i) ==
    IF i \in DOMAIN content THEN Becomes(op, at, RemoveAt(content, i), content[i])
    ELSE content = <<>> /\ Becomes(op, at, <<>>, Nil)

Put(z, m, s) ==
    Becomes("add", 0, (m :> s) @@ z,
            IF m \notin DOMAIN z THEN 1 ELSE IF z[m] = s THEN 0 ELSE 2)

Drop(z, m) ==
    Becomes("remove", 0, [x \in DOMAIN z \ {m} |-> z[x]],
            IF m \in DOMAIN z THEN 1 ELSE 0)

ListNext ==
    /\ type = "list"
    /\ \/ \E v \in Value :
            \/ Insert("push_head", 0, 0, v)
            \/ Insert("push_tail", 0, Len(content), v)
            \/ \E i \in 0 .. MaxLen : Insert("insert_after", i, i, v)
       \/ Take("pop_head", 0, 1)
       \/ Take("pop_tail", 0, Len(content))
       \/ \E i \in 1 .. Len(content) : Take("detach", i - 1, i)

ZsetNext ==
    /\ type = "zset"
    /\ LET z == content IN
       \/ \E m \in Member, s \in Score : Put(z, m, s)
       \/ \E m \in Member : Drop(z, m)

Next == ListNext \/ ZsetNext

Spec == Init /\ [][Next]_vars
=============================================================================
