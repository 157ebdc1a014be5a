------------------------------- MODULE Lists -------------------------------
(* Arrays of ids, as the queues of this code filter them.                   *)
EXTENDS Naturals, Sequences

Elements(list) == {list[n] : n \in DOMAIN list}

\* The list without its element at i.
Taking(list, i) == SubSeq(list, 1, i - 1) \o SubSeq(list, i + 1, Len(list))

\* list.filter: the elements that are not in S, in their order.
Omitting(list, S) ==
    LET kept[n \in 0 .. Len(list)] ==
            IF n = 0 THEN <<>>
            ELSE IF list[n] \in S THEN kept[n - 1] ELSE Append(kept[n - 1], list[n])
    IN  kept[Len(list)]
=============================================================================
