-------------------------------- MODULE Queues --------------------------------
(***************************************************************************)
(* What double_linked_list.c promises: a list is a sequence of pointers,   *)
(* pushed at its end, taken from its front, read in order, and emptied     *)
(* into the end of another by list_merge.                                  *)
(***************************************************************************)
EXTENDS Naturals, Sequences

CONSTANTS Lists, Items, NONE

VARIABLES
    queue,   \* the items of each list, or NONE
    out      \* the latest call and what it handed out

vars == <<queue, out>>

Absent(l) == queue[l] = NONE

Init == queue = [l \in Lists |-> NONE] /\ out = NONE

Create(l)  == Absent(l) /\ queue' = [queue EXCEPT ![l] = <<>>] /\ out' = <<"init", l>>

Push(l, d) == ~Absent(l) /\ queue' = [queue EXCEPT ![l] = Append(@, d)]
              /\ out' = <<"push", l, d>>

PopNone(l) == queue[l] = <<>> /\ out' = <<"pop", l, NONE>> /\ UNCHANGED queue

Pop(l) == /\ ~Absent(l) /\ queue[l] # <<>>
          /\ queue' = [queue EXCEPT ![l] = Tail(@)]
          /\ out' = <<"pop", l, Head(queue[l])>>

Read(l) == ~Absent(l) /\ out' = <<"read", l, queue[l]>> /\ UNCHANGED queue

\* The items from the front, or from the end, which a Pop may have spoiled.
Traverse(l, forward) ==
    /\ ~Absent(l) /\ UNCHANGED queue
    /\ out' = <<"traverse", l, forward,
                IF forward THEN [i \in DOMAIN queue[l] |-> queue[l][Len(queue[l]) + 1 - i]]
                ELSE queue[l]>>

\* Every item is handed to the release callback, in order.
Release(l) == ~Absent(l) /\ queue' = [queue EXCEPT ![l] = NONE]
              /\ out' = <<"release", l, queue[l]>>

\* After a refused merge of two empty lists both stay as they are.
Merge(k, l) ==
    /\ ~Absent(k) /\ ~Absent(l)
    /\ \/ queue[k] \o queue[l] # <<>>
          /\ queue' = [queue EXCEPT ![k] = @ \o queue[l], ![l] = NONE]
       \/ queue[k] \o queue[l] = <<>> /\ UNCHANGED queue
    /\ out' = <<"merge", k, l>>

Next ==
    \/ \E l \in Lists : Create(l) \/ PopNone(l) \/ Pop(l) \/ Read(l) \/ Release(l)
    \/ \E l \in Lists, forward \in BOOLEAN : Traverse(l, forward)
    \/ \E l \in Lists, d \in Items : Push(l, d)
    \/ \E k, l \in Lists : k # l /\ Merge(k, l)

Spec == Init /\ [][Next]_vars
=============================================================================
