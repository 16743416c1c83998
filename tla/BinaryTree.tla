------------------------------ MODULE BinaryTree ------------------------------
(***************************************************************************)
(* binary_tree.c: nodes with a hash and a pointer, those with larger       *)
(* hashes to the left and those with smaller ones to the right.  Only its  *)
(* tests use it, with a callback that releases the data; a pointer is      *)
(* stored once at a time.  The recursive functions are here the path they  *)
(* take, or the order in which they come by the nodes.                     *)
(***************************************************************************)
EXTENDS Naturals, Sequences, FiniteSets, SequencesExt, Links

CONSTANTS
    Vertices,   \* the addresses zalloc may return for a node
    HashKeys,   \* hashes; two keys with one hash are one key
    Payloads,   \* the pointers callers store
    NIL

ASSUME TreeAssumption == IsFiniteSet(Vertices) /\ HashKeys \subseteq Nat
ASSUME NilAssumption  == \* NIL is neither an address, nor a tree, nor what is in one
    /\ NIL \notin Vertices \cup Payloads \cup [head : Vertices \cup {NIL}]
    /\ \A keys \in SUBSET HashKeys : NIL \notin [keys -> Payloads]

VARIABLES
    tree,                                      \* NIL, or its head
    left, right, parent, hash_key, payload,    \* the fields of the nodes
    vertices,                                  \* the nodes allocated
    tree_out      \* the latest call and what it handed out

nodeVars == <<left, right, parent, hash_key, payload, vertices>>
treeVars == <<tree, nodeVars, tree_out>>

Zeroed == [n \in Vertices |-> NIL]

TreeInit ==
    /\ tree = NIL
    /\ left = Zeroed /\ right = Zeroed /\ parent = Zeroed /\ payload = Zeroed
    /\ hash_key = [n \in Vertices |-> 0]
    /\ vertices = {} /\ tree_out = NIL

\* The nodes that a search for h comes by: the last one has h, or it has no
\* child on the side where h belongs.
Path(h) ==
    Along([n \in Vertices |-> IF hash_key[n] > h THEN right[n]
                             ELSE IF hash_key[n] < h THEN left[n] ELSE NIL],
          tree.head, NIL)

Found(h) == tree.head # NIL /\ hash_key[Last(Path(h))] = h

\* The subtree of a node, both its subtrees first.
PostOrder(head) ==
    LET below[k \in 0..Cardinality(Vertices)] ==
            [n \in vertices |->
                IF k = 0 THEN <<>>
                ELSE (IF left[n] = NIL THEN <<>> ELSE below[k - 1][left[n]])
                       \o (IF right[n] = NIL THEN <<>> ELSE below[k - 1][right[n]])
                       \o <<n>>]
    IN  IF head = NIL THEN <<>> ELSE below[Cardinality(Vertices)][head]

PayloadsOf(head) == LET s == PostOrder(head) IN [k \in DOMAIN s |-> payload[s[k]]]

-----------------------------------------------------------------------------
bt_init ==
    /\ tree = NIL /\ tree' = [head |-> NIL]
    /\ tree_out' = <<"init">>
    /\ UNCHANGED nodeVars

\* bt_node_set where the path ends: a zeroed node, linked to its parent.
Grow(h, d) ==
    LET n    == CHOOSE v \in Vertices : v \notin vertices
        last == IF tree.head = NIL THEN NIL ELSE Last(Path(h))
    IN  /\ vertices # Vertices /\ vertices' = vertices \cup {n}
        /\ hash_key' = [hash_key EXCEPT ![n] = h]
        /\ payload' = [payload EXCEPT ![n] = d]
        /\ parent' = [parent EXCEPT ![n] = last]
        /\ tree' = IF last = NIL THEN [head |-> n] ELSE tree
        /\ right' = IF last # NIL /\ hash_key[last] > h
                    THEN [right EXCEPT ![last] = n] ELSE right
        /\ left' = IF last # NIL /\ hash_key[last] < h
                   THEN [left EXCEPT ![last] = n] ELSE left

\* Mutant of bt_node_set: the data that is replaced is not released.
SetKeepsOld(h, d) ==
    /\ tree # NIL /\ d \notin {payload[n] : n \in vertices}
    /\ IF Found(h)
       THEN LET n == Last(Path(h))
            IN  /\ payload' = [payload EXCEPT ![n] = d]
                /\ tree_out' = <<"set", h, d, NIL>>
                /\ UNCHANGED <<tree, left, right, parent, hash_key, vertices>>
       ELSE Grow(h, d) /\ tree_out' = <<"set", h, d, NIL>>

\* The data of an equal hash goes to the callback and is replaced.
bt_node_set(h, d) ==
    /\ tree # NIL /\ d \notin {payload[n] : n \in vertices}
    /\ IF Found(h)
       THEN LET n == Last(Path(h))
            IN  /\ tree_out' = <<"set", h, d, payload[n]>>
                /\ payload' = [payload EXCEPT ![n] = d]
                /\ UNCHANGED <<tree, left, right, parent, hash_key, vertices>>
       ELSE Grow(h, d) /\ tree_out' = <<"set", h, d, NIL>>

bt_node_get(h) ==
    /\ tree # NIL
    /\ tree_out' = <<"get", h, IF Found(h) THEN payload[Last(Path(h))] ELSE NIL>>
    /\ UNCHANGED <<tree, nodeVars>>

\* The node at the end of the left children.
bt_node_left ==
    /\ tree # NIL
    /\ LET way == Along(left, tree.head, NIL)
       IN  tree_out' = <<"left", IF way = <<>> THEN NIL ELSE payload[Last(way)]>>
    /\ UNCHANGED <<tree, nodeVars>>

bt_node_traverse ==
    /\ tree # NIL
    /\ tree_out' = <<"traverse", PayloadsOf(tree.head)>>
    /\ UNCHANGED <<tree, nodeVars>>

\* The nodes of both subtrees before the node itself.
bt_node_release(head) ==
    LET gone == ToSet(PostOrder(head))
        Without(f, z) == [n \in Vertices |-> IF n \in gone THEN z ELSE f[n]]
    IN  /\ vertices' = vertices \ gone
        /\ left' = Without(left, NIL) /\ right' = Without(right, NIL)
        /\ parent' = Without(parent, NIL) /\ payload' = Without(payload, NIL)
        /\ hash_key' = Without(hash_key, 0)

bt_release(release_data) ==
    /\ tree # NIL /\ tree' = NIL
    /\ tree_out' = <<"release", IF release_data THEN PayloadsOf(tree.head) ELSE <<>>>>
    /\ bt_node_release(tree.head)

TreeNext ==
    \/ bt_init \/ bt_node_left \/ bt_node_traverse
    \/ \E h \in HashKeys : bt_node_get(h) \/ \E d \in Payloads : bt_node_set(h, d)
    \/ \E release_data \in BOOLEAN : bt_release(release_data)

TreeSpec == TreeInit /\ [][TreeNext]_treeVars
-----------------------------------------------------------------------------
TreeTypeOK ==
    /\ tree \in {NIL} \cup [head : Vertices \cup {NIL}]
    /\ left \in [Vertices -> Vertices \cup {NIL}]
    /\ right \in [Vertices -> Vertices \cup {NIL}]
    /\ parent \in [Vertices -> Vertices \cup {NIL}]
    /\ hash_key \in [Vertices -> HashKeys \cup {0}]
    /\ payload \in [Vertices -> Payloads \cup {NIL}]
    /\ vertices = IF tree = NIL THEN {} ELSE ToSet(PostOrder(tree.head))
    /\ \A n \in vertices : \A c \in {left[n], right[n]} \ {NIL} : parent[c] = n
=============================================================================
