------------------------------- MODULE Dlist --------------------------------
(***************************************************************************)
(* The doubly linked lists of include/hazel_wireless/sys/dlist.h.  A       *)
(* memory m maps every list head and every node to its two pointers; an    *)
(* operation returns the memory it leaves.  A list is a ring through its   *)
(* head; a node on no list has NULL pointers.                              *)
(***************************************************************************)
EXTENDS Naturals, Sequences, FiniteSets

CONSTANT Null

sys_dlist_init(m, list)  == [m EXCEPT ![list] = [next |-> list, prev |-> list]]
sys_dnode_init(m, node)  == [m EXCEPT ![node] = [next |-> Null, prev |-> Null]]
sys_dlist_is_empty(m, list) == m[list].next = list

sys_dlist_peek_head(m, list) ==
    IF sys_dlist_is_empty(m, list) THEN Null ELSE m[list].next

sys_dlist_peek_next(m, list, node) ==
    IF node = Null \/ node = m[list].prev THEN Null ELSE m[node].next

sys_dlist_append(m, list, node) ==
    LET tail == m[list].prev
    IN  [m EXCEPT ![node] = [next |-> list, prev |-> tail],
                  ![tail].next = node, ![list].prev = node]

\* In front of successor.
sys_dlist_insert(m, successor, node) ==
    LET prev == m[successor].prev
    IN  [m EXCEPT ![node] = [next |-> successor, prev |-> prev],
                  ![prev].next = node, ![successor].prev = node]

sys_dlist_remove(m, node) ==
    LET prev == m[node].prev
        next == m[node].next
    IN  sys_dnode_init([m EXCEPT ![prev].next = next, ![next].prev = prev], node)

\* The head node is unlinked; its address is what peek_head returned before.
sys_dlist_get(m, list) ==
    IF sys_dlist_is_empty(m, list) THEN m ELSE sys_dlist_remove(m, m[list].next)

\* The nodes in the order in which SYS_DLIST_FOR_EACH_NODE meets them.
ForEachNode(m, list) ==
    LET visited[k \in 1 .. Cardinality(DOMAIN m)] ==
            IF k = 1 THEN sys_dlist_peek_head(m, list)
            ELSE sys_dlist_peek_next(m, list, visited[k - 1])
    IN  [k \in 1 .. Cardinality({j \in DOMAIN visited : visited[j] # Null}) |-> visited[k]]
=============================================================================
