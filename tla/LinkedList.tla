------------------------------ MODULE LinkedList ------------------------------
(***************************************************************************)
(* double_linked_list.c: nodes linked both ways, with a head, a tail and a *)
(* size per list.  Every list of the program stays with one thread at a    *)
(* time, so a call is one step.  list_crop_tail and list_remove leave      *)
(* links to the node they release, so that no call but another crop may    *)
(* follow; nothing calls them, and they are left out.  A call that reaches *)
(* a released node has no defined effect: the model records it in broken   *)
(* and stops there.                                                        *)
(***************************************************************************)
EXTENDS Naturals, Sequences, FiniteSets, Links

CONSTANTS
    Lists,          \* the list_t of the program
    Nodes,          \* the addresses zalloc may return for a node
    Items,          \* the pointers callers store
    ReleasesBoth,   \* whether callers release the second list of a merge too
    NONE, NULL

ASSUME CallerAssumption == ReleasesBoth \in BOOLEAN
ASSUME NullAssumption   == NULL \notin Nodes
ASSUME NodesAssumption  == IsFiniteSet(Nodes)
ASSUME NoneAssumption   == \* NONE is neither a list_t nor what a list holds
    /\ NONE \notin [head : Nodes \cup {NULL}, tail : Nodes \cup {NULL}, size : Nat]
    /\ NONE \notin Seq(Items \cup {NULL})

VARIABLES
    list,               \* NONE, or the head, tail and size of each list
    next, prev, data,   \* the fields of the nodes
    live,               \* the nodes allocated and not released
    spent,              \* the lists whose nodes went to another one
    broken,             \* whether a released node was followed or released
    out                 \* the latest call and what it handed out

vars == <<list, next, prev, data, live, spent, broken, out>>

Init ==
    /\ list = [l \in Lists |-> NONE]
    /\ next = [n \in Nodes |-> NULL] /\ prev = [n \in Nodes |-> NULL]
    /\ data = [n \in Nodes |-> NULL]
    /\ live = {} /\ spent = {} /\ broken = FALSE /\ out = NONE

\* The nodes from head to the end, and from tail back.
Walk(head)     == Along(next, head, NULL)
WalkBack(tail) == Along(prev, tail, NULL)

NodesOf(l) == Walk(list[l].head)
SetOf(s)   == {s[i] : i \in 1..Len(s)}
ItemsOf(l) == LET nodes == NodesOf(l) IN [i \in 1..Len(nodes) |-> data[nodes[i]]]
Sound(l)   == SetOf(NodesOf(l)) \subseteq live

\* What a released node holds is never of use again.
Free(S) ==
    /\ live' = live \ S
    /\ next' = [n \in Nodes |-> IF n \in S THEN NULL ELSE next[n]]
    /\ prev' = [n \in Nodes |-> IF n \in S THEN NULL ELSE prev[n]]
    /\ data' = [n \in Nodes |-> IF n \in S THEN NULL ELSE data[n]]

Usable(l) == ~broken /\ list[l] # NONE /\ l \notin spent

-----------------------------------------------------------------------------
list_init(l) ==
    /\ ~broken /\ list[l] = NONE
    /\ list' = [list EXCEPT ![l] = [head |-> NULL, tail |-> NULL, size |-> 0]]
    /\ out' = <<"init", l>>
    /\ UNCHANGED <<next, prev, data, live, spent, broken>>

\* Mutant of list_push: the new node goes behind the head.
PushBehindHead(l, d, n) ==
    /\ Usable(l) /\ n \notin live
    /\ LET head == list[l].head
       IN  \/ /\ head = NULL
              /\ list' = [list EXCEPT ![l].head = n, ![l].tail = n, ![l].size = @ + 1]
              /\ next' = [next EXCEPT ![n] = NULL] /\ prev' = [prev EXCEPT ![n] = NULL]
           \/ /\ head # NULL
              /\ list' = [list EXCEPT ![l].tail = n, ![l].size = @ + 1]
              /\ next' = [next EXCEPT ![n] = NULL, ![head] = n]
              /\ prev' = [prev EXCEPT ![n] = head]
    /\ data' = [data EXCEPT ![n] = d]
    /\ live' = live \cup {n}
    /\ broken' = ~Sound(l)
    /\ out' = <<"push", l, d>>
    /\ UNCHANGED spent

\* The new node, zeroed by zalloc, becomes the head or goes behind the last
\* node, which is found by walking, not through tail.
list_push(l, d, n) ==
    /\ Usable(l) /\ n \notin live
    /\ LET nodes == NodesOf(l)
           last  == nodes[Len(nodes)]
       IN  \/ /\ nodes = <<>>
              /\ list' = [list EXCEPT ![l].head = n, ![l].tail = n, ![l].size = @ + 1]
              /\ next' = [next EXCEPT ![n] = NULL] /\ prev' = [prev EXCEPT ![n] = NULL]
           \/ /\ nodes # <<>>
              /\ list' = [list EXCEPT ![l].tail = n, ![l].size = @ + 1]
              /\ next' = [next EXCEPT ![n] = NULL, ![last] = n]
              /\ prev' = [prev EXCEPT ![n] = last]
    /\ data' = [data EXCEPT ![n] = d]
    /\ live' = live \cup {n}
    /\ broken' = ~Sound(l)
    /\ out' = <<"push", l, d>>
    /\ UNCHANGED spent

list_pop_head(l) ==
    /\ Usable(l)
    /\ \/ /\ list[l].size = 0
          /\ out' = <<"pop", l, NONE>>
          /\ UNCHANGED <<list, next, prev, data, live, broken>>
       \/ /\ list[l].size > 0
          /\ LET tmp == list[l].head
             IN  /\ list' = [list EXCEPT ![l].head = next[tmp], ![l].size = @ - 1]
                 /\ Free({tmp})
                 /\ broken' = (tmp \notin live)
                 /\ out' = <<"pop", l, data[tmp]>>
    /\ UNCHANGED spent

\* list_iter_init, list_iter_next until it returns NULL, list_iter_release.
list_iterate(l) ==
    /\ Usable(l)
    /\ out' = <<"read", l, ItemsOf(l)>>
    /\ broken' = ~Sound(l)
    /\ UNCHANGED <<list, next, prev, data, live, spent>>

\* No pop left a link to what it released: the new head's prev, or tail.
Unpopped(l) == IF list[l].head = NULL THEN list[l].tail = NULL
               ELSE prev[list[l].head] = NULL

\* forward goes from the tail to the head, which callers must not ask for
\* once the list was popped; the other way is that of the iterator.
list_traverse(l, forward) ==
    /\ Usable(l) /\ (forward => Unpopped(l))
    /\ LET met == IF forward THEN WalkBack(list[l].tail) ELSE NodesOf(l)
       IN  /\ out' = <<"traverse", l, forward, [i \in 1..Len(met) |-> data[met[i]]]>>
           /\ broken' = ~(SetOf(met) \subseteq live)
    /\ UNCHANGED <<list, next, prev, data, live, spent>>

\* rel_cb on each item and zfree on each node, then the list_t itself.
list_release(l) ==
    /\ Usable(l) \/ (~broken /\ ReleasesBoth /\ l \in spent)
    /\ list' = [list EXCEPT ![l] = NONE]
    /\ Free(SetOf(NodesOf(l)))
    /\ spent' = spent \ {l}
    /\ broken' = ~Sound(l)
    /\ out' = <<"release", l, ItemsOf(l)>>

\* Mutant of list_merge: the way back from b to a is not set.
MergeOneWay(a, b) ==
    /\ Usable(a) /\ Usable(b)
    /\ out' = <<"merge", a, b>>
    /\ \/ /\ list[a].size = 0 /\ list[b].size = 0
          /\ UNCHANGED <<list, next, spent, broken>>
       \/ /\ list[a].size > 0 /\ list[b].size > 0
          /\ next' = [next EXCEPT ![list[a].tail] = list[b].head]
          /\ list' = [list EXCEPT ![a].size = @ + list[b].size, ![a].tail = list[b].tail]
          /\ spent' = spent \cup {b}
          /\ broken' = ~({list[a].tail, list[b].head} \subseteq live)
    /\ UNCHANGED <<prev, data, live>>

\* Two empty lists are refused; with only one empty, a NULL is dereferenced,
\* which callers must avoid.  b keeps its head, tail and size.
list_merge(a, b) ==
    /\ Usable(a) /\ Usable(b)
    /\ out' = <<"merge", a, b>>
    /\ \/ /\ list[a].size = 0 /\ list[b].size = 0
          /\ UNCHANGED <<list, next, prev, spent, broken>>
       \/ /\ list[a].size > 0 /\ list[b].size > 0
          /\ next' = [next EXCEPT ![list[a].tail] = list[b].head]
          /\ prev' = [prev EXCEPT ![list[b].head] = list[a].tail]
          /\ list' = [list EXCEPT ![a].size = @ + list[b].size, ![a].tail = list[b].tail]
          /\ spent' = spent \cup {b}
          /\ broken' = ~({list[a].tail, list[b].head} \subseteq live)
    /\ UNCHANGED <<data, live>>

Next ==
    \/ \E l \in Lists : \/ list_init(l) \/ list_pop_head(l)
                        \/ list_iterate(l) \/ list_release(l)
    \/ \E l \in Lists, forward \in BOOLEAN : list_traverse(l, forward)
    \/ \E l \in Lists, d \in Items, n \in Nodes : list_push(l, d, n)
    \/ \E a, b \in Lists : a # b /\ list_merge(a, b)

Spec == Init /\ [][Next]_vars
-----------------------------------------------------------------------------
Pointers == Nodes \cup {NULL}

TypeOK ==
    /\ list \in [Lists -> [head : Pointers, tail : Pointers, size : Nat] \cup {NONE}]
    /\ next \in [Nodes -> Pointers] /\ prev \in [Nodes -> Pointers]
    /\ data \in [Nodes -> Items \cup {NULL}]
    /\ live \subseteq Nodes /\ spent \subseteq Lists
    /\ broken \in BOOLEAN

InUse == {l \in Lists : list[l] # NONE /\ l \notin spent}

(* Every node in use is in exactly one list and every node of a list in    *)
(* use; size counts them, tail is the last of them, and prev leads from    *)
(* each to the one before, so that the list reads the same both ways,      *)
(* whatever was pushed, popped and merged before.                          *)
LinkedBothWays ==
    /\ live = UNION {SetOf(NodesOf(l)) : l \in InUse}
    /\ \A k, l \in InUse : k # l => SetOf(NodesOf(k)) \cap SetOf(NodesOf(l)) = {}
    /\ \A l \in InUse :
          LET nodes == NodesOf(l)
          IN  /\ Len(nodes) = list[l].size
              /\ nodes # <<>> => list[l].tail = nodes[Len(nodes)]
              /\ \A i \in 2..Len(nodes) : prev[nodes[i]] = nodes[i - 1]

\* The list that was merged away is nobody's any more.
Abstract == INSTANCE Queues
    WITH queue <- [l \in Lists |-> IF l \in InUse THEN ItemsOf(l) ELSE NONE]

(* Through any sequence of calls the lists hand out the items of Queues,   *)
(* in their order, each to be released once.                               *)
ImplementsQueues == Abstract!Spec

(* What the end of test_list does: after list_merge both lists may be      *)
(* released, and no node is followed or released after its release.        *)
MergedListsReleasable == ~broken
=============================================================================
