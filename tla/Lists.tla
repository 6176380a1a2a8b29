-------------------------------- MODULE Lists -------------------------------
(***************************************************************************)
(* include/linux/list.h: circular doubly linked lists, threaded through    *)
(* the structures that are on them.  m holds the pointers of every         *)
(* list_head, those that are the heads of lists included.                  *)
(***************************************************************************)
EXTENDS Integers, Sequences

CONSTANT Node   \* the list_heads

Memory == [next : [Node -> Node], prev : [Node -> Node]]

INIT_LIST_HEAD(m, e) == [next |-> [m.next EXCEPT ![e] = e], prev |-> [m.prev EXCEPT ![e] = e]]

__list_add(m, new, prev, next) ==
  [next |-> [m.next EXCEPT ![new] = next, ![prev] = new],
   prev |-> [m.prev EXCEPT ![next] = new, ![new] = prev]]
list_add(m, new, head) == __list_add(m, new, head, m.next[head])
list_add_tail(m, new, head) == __list_add(m, new, m.prev[head], head)

__list_del(m, prev, next) ==
  [next |-> [m.next EXCEPT ![prev] = next], prev |-> [m.prev EXCEPT ![next] = prev]]
list_del(m, e) == __list_del(m, m.prev[e], m.next[e])
list_del_init(m, e) == INIT_LIST_HEAD(list_del(m, e), e)

list_empty(m, head) == m.next[head] = head

-----------------------------------------------------------------------------
\* What is met on the way around from the head h through the elements of s and back.
Nth(h, s, i) == IF i \in 1 .. Len(s) THEN s[i] ELSE h

\* The pointers from h hold the elements of s, in this order, forwards and backwards.
Holds(m, h, s) ==
  /\ s \in Seq(Node) /\ \A i \in 1 .. Len(s) : s[i] # h
  /\ \A i, j \in 1 .. Len(s) : s[i] = s[j] => i = j
  /\ \A i \in 0 .. Len(s) : /\ m.next[Nth(h, s, i)] = Nth(h, s, i + 1)
                            /\ m.prev[Nth(h, s, i + 1)] = Nth(h, s, i)
=============================================================================
