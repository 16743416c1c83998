-------------------------------- MODULE Vector --------------------------------
(***************************************************************************)
(* vector.c: elements of one size side by side in a dynamic_allocator_t.   *)
(* Nothing but a helper of blk_dev.c that nobody calls uses it.            *)
(* vector_get hands out the address of an element, which the caller may    *)
(* keep; da_append moves the elements when the block is full.              *)
(***************************************************************************)
EXTENDS Naturals, Sequences

CONSTANTS
    Elems,
    FirstRoom,   \* 10 in the code: the elements that fit into the first block
    MaxElems,    \* bound on the elements added
    NOVEC

ASSUME RoomAssumption  == FirstRoom \in Nat \ {0} /\ MaxElems \in Nat
ASSUME NovecAssumption == \* NOVEC is no index, no vector and not what one holds
    NOVEC \notin Nat \cup Seq(Elems) \cup [ptr : Seq(Elems), room : Nat, size : Nat]

VARIABLES
    vec,       \* NOVEC, or the block's elements, its room, and the size
    borrowed,  \* the index behind the address lent last, NOVEC for none
    moved,     \* whether the elements moved since it was lent
    vec_out    \* the latest call and what it handed out

vecVars == <<vec, borrowed, moved, vec_out>>

VecInit == vec = NOVEC /\ borrowed = NOVEC /\ moved = FALSE /\ vec_out = NOVEC

vector_init ==
    /\ vec = NOVEC /\ vec' = [ptr |-> <<>>, room |-> FirstRoom, size |-> 0]
    /\ vec_out' = <<"init">>
    /\ UNCHANGED <<borrowed, moved>>

\* da_append: without room the block grows by one element, and realloc may
\* leave it where it is or not.
vector_add(e) ==
    /\ vec # NOVEC /\ vec.size < MaxElems
    /\ LET full == Len(vec.ptr) = vec.room
       IN  /\ vec' = [ptr |-> Append(vec.ptr, e),
                      room |-> IF full THEN vec.room + 1 ELSE vec.room,
                      size |-> vec.size + 1]
           /\ moved' \in IF full /\ borrowed # NOVEC THEN {TRUE, moved} ELSE {moved}
    /\ vec_out' = <<"add", e>>
    /\ UNCHANGED borrowed

vector_get(i) ==
    /\ vec # NOVEC
    /\ IF i >= vec.size
       THEN vec_out' = <<"out_of_range", i>> /\ UNCHANGED <<borrowed, moved>>
       ELSE borrowed' = i /\ moved' = FALSE /\ vec_out' = <<"get", i>>
    /\ UNCHANGED vec

vector_set(i, e) ==
    /\ vec # NOVEC
    /\ IF i >= vec.size
       THEN vec_out' = <<"out_of_range", i>> /\ UNCHANGED vec
       ELSE vec' = [vec EXCEPT !.ptr[i + 1] = e] /\ vec_out' = <<"set", i, e>>
    /\ UNCHANGED <<borrowed, moved>>

\* The caller reads what the address it was lent points to; once the block
\* moved that is released memory.
Use ==
    /\ vec # NOVEC /\ borrowed # NOVEC
    /\ \E e \in Elems : /\ moved \/ e = vec.ptr[borrowed + 1]
                        /\ vec_out' = <<"use", e>>
    /\ UNCHANGED <<vec, borrowed, moved>>

\* The callback sees the elements in order; the last call sums them up.
vector_foreach ==
    /\ vec # NOVEC
    /\ vec_out' = <<"foreach", SubSeq(vec.ptr, 1, vec.size)>>
    /\ UNCHANGED <<vec, borrowed, moved>>

vector_release ==
    /\ vec # NOVEC /\ vec' = NOVEC
    /\ borrowed' = NOVEC /\ moved' = FALSE
    /\ vec_out' = <<"release">>

VecNext ==
    \/ vector_init \/ Use \/ vector_foreach \/ vector_release
    \/ \E e \in Elems : vector_add(e)
    \/ vec # NOVEC /\ \E i \in 0..vec.size :
                        vector_get(i) \/ \E e \in Elems : vector_set(i, e)

VecSpec == VecInit /\ [][VecNext]_vecVars
-----------------------------------------------------------------------------
VecTypeOK ==
    /\ vec = NOVEC \/ /\ vec.ptr \in Seq(Elems) /\ vec.size = Len(vec.ptr)
                      /\ vec.room >= vec.size /\ vec.size <= MaxElems
    /\ borrowed = NOVEC \/ (vec # NOVEC /\ borrowed < vec.size)
    /\ moved \in BOOLEAN
    /\ moved => borrowed # NOVEC
=============================================================================
