-------------------------------- MODULE Links --------------------------------
(* Following the pointers from node to node, the loop that every container *)
(* of linked nodes is read with.                                           *)
EXTENDS Naturals, Sequences, FiniteSets

\* The nodes met by following link from head until the null pointer, in
\* order; at most as many as there are nodes.
Along(link, head, null) ==
    LET steps == 1..Cardinality(DOMAIN link)
        at[k \in steps] == IF k = 1 THEN head
                           ELSE IF at[k - 1] = null THEN null ELSE link[at[k - 1]]
    IN  [k \in 1..Cardinality({j \in steps : at[j] # null}) |-> at[k]]
=============================================================================
