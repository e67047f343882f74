---------------------------- MODULE IntrusiveList ----------------------------
(***************************************************************************)
(* Lists of nstd::container::intrusive_list and the nodes their users put  *)
(* in, as run_loop and stop_state do.  A node is in one list at most; it   *)
(* may be erased again when it was erased before, which stop_state does    *)
(* with a callback that call() has popped.  A list that was moved from is  *)
(* not used again, and only an empty list is assigned to: its own nodes    *)
(* would keep pointing into it.                                            *)
(***************************************************************************)
EXTENDS Naturals, Sequences, SequencesExt, IntrusiveLinks

CONSTANTS
    Nodes,      \* the objects with a link
    Heads,      \* the lists, each named by its d_head
    Null        \* an uninitialised pointer

ASSUME PlacesDiffer == Nodes \cap Heads = {} /\ Null \notin Nodes \cup Heads

VARIABLES
    link,       \* the links of nodes and heads
    alive,      \* the lists that are constructed and not moved from
    content     \* auxiliary: what the list should hold; no step reads links from it

vars == <<link, alive, content>>

Unset == [d_next |-> Null, d_prev |-> Null]
ToItself(x) == [d_next |-> x, d_prev |-> x]

Init ==
    /\ link = [x \in Nodes \cup Heads |-> Unset]
    /\ alive = {}
    /\ content = [h \in Heads |-> <<>>]

Has(h, n) == \E i \in 1..Len(content[h]) : content[h][i] = n
InList(n) == \E h \in alive : Has(h, n)
IndexOf(h, n) == CHOOSE i \in 1..Len(content[h]) : content[h][i] = n

-----------------------------------------------------------------------------

\* intrusive_list()
Construct(h) ==
    /\ h \notin alive
    /\ link' = Connect(link, h, h)
    /\ alive' = alive \cup {h}
    /\ content' = [content EXCEPT ![h] = <<>>]

\* The move constructor takes over the nodes of another list.
MoveConstruct(h, g) ==
    /\ h \notin alive /\ g \in alive
    /\ link' = Take(link, h, g)
    /\ alive' = (alive \cup {h}) \ {g}
    /\ content' = [content EXCEPT ![h] = content[g], ![g] = <<>>]

\* The move assignment.
MoveAssign(h, g) ==
    /\ h \in alive /\ g \in alive /\ h # g
    /\ Empty(link, h)
    /\ link' = Take(link, h, g)
    /\ alive' = alive \ {g}
    /\ content' = [content EXCEPT ![h] = content[g], ![g] = <<>>]

\* Fault: the back pointer of the successor is not set.
LinkedForward(pos, obj) ==
    [link EXCEPT ![obj] = [d_next |-> pos, d_prev |-> link[pos].d_prev],
                 ![link[pos].d_prev].d_next = obj]

\* What insert() does to the links.
Linked(pos, obj) == LinkBefore(link, pos, obj)

\* insert() before a node of the list.
Insert(h, pos, n) ==
    /\ h \in alive /\ ~InList(n)
    /\ Has(h, pos)
    /\ link' = Linked(pos, n)
    /\ content' = [content EXCEPT ![h] = InsertAt(@, IndexOf(h, pos), n)]
    /\ UNCHANGED alive

\* push_back() inserts before the end.
PushBack(h, n) ==
    /\ h \in alive /\ ~InList(n)
    /\ link' = Linked(h, n)
    /\ content' = [content EXCEPT ![h] = Append(@, n)]
    /\ UNCHANGED alive

\* Fault: the links of the node are kept.
UnlinkKeeps(n) ==
    [link EXCEPT ![link[n].d_prev].d_next = link[n].d_next,
                 ![link[n].d_next].d_prev = link[n].d_prev]

\* What erase() does to the links.
Unlinked(n) == Unlink(link, n)

Erase(h, n) ==
    /\ h \in alive /\ Has(h, n)
    /\ link' = Unlinked(n)
    /\ content' = [content EXCEPT ![h] = RemoveAt(@, IndexOf(h, n))]
    /\ UNCHANGED alive

\* erase() of a node that was erased before.
EraseAgain(n) ==
    /\ ~InList(n) /\ link[n] # Unset
    /\ link' = Unlinked(n)
    /\ UNCHANGED <<alive, content>>

\* pop_front() erases what begin() points to.
PopFront(h) ==
    /\ h \in alive /\ ~Empty(link, h)
    /\ link' = Unlinked(link[h].d_next)
    /\ content' = [content EXCEPT ![h] = Tail(@)]
    /\ UNCHANGED alive

Next ==
    \/ \E h \in Heads :
         \/ Construct(h) \/ PopFront(h)
         \/ \E g \in Heads : MoveConstruct(h, g) \/ MoveAssign(h, g)
         \/ \E n \in Nodes :
              \/ PushBack(h, n) \/ Erase(h, n)
              \/ \E pos \in Nodes : Insert(h, pos, n)
    \/ \E n \in Nodes : EraseAgain(n)

Spec == Init /\ [][Next]_vars

-----------------------------------------------------------------------------
(* Properties                                                              *)

\* The values of the variables.
TypeOK ==
    /\ link \in [Nodes \cup Heads -> [d_next : Nodes \cup Heads \cup {Null},
                                      d_prev : Nodes \cup Heads \cup {Null}]]
    /\ alive \subseteq Heads
    /\ content \in [Heads -> Seq(Nodes)]

\* Position i of list h; the head is before the first and behind the last node.
At(h, i) == IF i \in 1..Len(content[h]) THEN content[h][i] ELSE h

\* The links of every list that is in use are a ring through its head and
\* exactly its nodes, in order, in both directions, whatever was inserted,
\* erased, popped and moved before; no node is in two places.
Chain ==
    /\ \A h \in alive : \A i \in 0..Len(content[h]) :
         /\ link[At(h, i)].d_next = At(h, i + 1)
         /\ link[At(h, i + 1)].d_prev = At(h, i)
    /\ \A h, g \in alive : \A i \in 1..Len(content[h]), j \in 1..Len(content[g]) :
         content[h][i] = content[g][j] => h = g /\ i = j

\* Erasing a node that is in no list changes nothing: what stop_state relies
\* on when a callback is destroyed that call() has popped before.
ErasedInert ==
    \A n \in Nodes : InList(n) \/ link[n] \in {Unset, ToItself(n)}

=============================================================================
