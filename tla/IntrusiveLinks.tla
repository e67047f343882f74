--------------------------- MODULE IntrusiveLinks ---------------------------
(***************************************************************************)
(* The pointer operations of nstd::container::intrusive_list               *)
(* (container/intrusive_list.hpp) as functions of the links: l[x] is the   *)
(* link of a node or of the head d_head of a list.                         *)
(***************************************************************************)

\* connect()
Connect(l, before, after) == [l EXCEPT ![before].d_next = after, ![after].d_prev = before]

\* insert(): obj is put before pos.
LinkBefore(l, pos, obj) ==
    [l EXCEPT ![obj] = [d_next |-> pos, d_prev |-> l[pos].d_prev],
              ![pos].d_prev = obj,
              ![l[pos].d_prev].d_next = obj]

\* erase(); the node is left pointing to itself.
Unlink(l, pos) ==
    [l EXCEPT ![l[pos].d_prev].d_next = l[pos].d_next,
              ![l[pos].d_next].d_prev = l[pos].d_prev,
              ![pos] = [d_next |-> pos, d_prev |-> pos]]

\* The move constructor and assignment: the nodes of other now belong to head.
Take(l, head, other) ==
    LET m == Connect(l, head, l[other].d_next)
    IN  Connect(m, m[other].d_prev, head)

\* swap(): the two pointers of the heads only.
Swap(l, head, other) == [l EXCEPT ![head] = l[other], ![other] = l[head]]

Empty(l, head) == l[head].d_next = head

=============================================================================
