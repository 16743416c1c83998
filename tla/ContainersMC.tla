----------------------------- MODULE ContainersMC -----------------------------
(* The containers one at a time, each with every sequence of its calls:     *)
(* the lists of LinkedListMC, a queue and a stack, a tree, a vector.        *)
EXTENDS LinkedListMC, Lines, BinaryTree, Vector

ASSUME NullsAssumption == NIL = VOID /\ NOVEC = VOID

VARIABLE container   \* the one that is used

allVars == <<container, vars, lineVars, treeVars, vecVars>>

ContainersInit ==
    /\ container \in {"list", "line", "tree", "vector"}
    /\ Init /\ LinesInit /\ TreeInit /\ VecInit

Only(c, others) == container = c /\ UNCHANGED <<container, others>>

ContainersNext ==
    \/ Next      /\ Only("list", <<lineVars, treeVars, vecVars>>)
    \/ LinesNext /\ Only("line", <<vars, treeVars, vecVars>>)
    \/ TreeNext  /\ Only("tree", <<vars, lineVars, vecVars>>)
    \/ VecNext   /\ Only("vector", <<vars, lineVars, treeVars>>)

ContainersSpec == ContainersInit /\ [][ContainersNext]_allVars

(* The types of all containers, and what their links and sizes need to make *)
(* sense: none leads to a released node, sizes count nodes.                 *)
ContainersTypeOK == TypeOK /\ LinesTypeOK /\ TreeTypeOK /\ VecTypeOK

Dict ==
    IF tree = NIL THEN NIL
    ELSE [h \in {hash_key[n] : n \in vertices} |->
             payload[CHOOSE n \in vertices : hash_key[n] = h]]

Promised == INSTANCE Collections WITH
    NIL    <- VOID,
    lines  <- [q \in Kinds |-> IF line[q] = VOID THEN VOID ELSE ThingsOf(q)],
    dict   <- Dict,
    array  <- IF vec = NOVEC THEN VOID ELSE vec.ptr,
    lent   <- IF borrowed = NOVEC THEN VOID ELSE IF moved THEN 0 ELSE borrowed + 1,
    answer <- [lines |-> line_out, dict |-> tree_out,
               array |-> vec_out]

(* Through any sequence of calls the queue, the stack, the tree and the     *)
(* vector hand out what the collections they stand for do, every pointer to *)
(* be released once; a NULL in a line cuts its release short, and an        *)
(* address in a vector is good until the vector outgrows its first block.   *)
ImplementsCollections == Promised!Spec
=============================================================================
