----------------------------- MODULE Collections -----------------------------
(***************************************************************************)
(* What fifo.c, lifo.c, binary_tree.c and vector.c promise, for one        *)
(* container of each kind: a queue and a stack of pointers, a map from     *)
(* hashes to pointers, and an array that lends the addresses of its        *)
(* elements.  answer is what the latest call on each has handed out.       *)
(***************************************************************************)
EXTENDS Naturals, Sequences, FiniteSets, SequencesExt

CONSTANTS
    Things, HashKeys, Payloads, Elems,
    FirstRoom,   \* how many elements fit before addresses may change
    NIL

VARIABLES
    lines,    \* "fifo" and "lifo": the pointers in the order they come out
    dict,     \* NIL, or the pointer stored for each hash in use
    array,    \* NIL, or the elements
    lent,     \* NIL, or the index of the address lent, 0 once it is void
    answer

vars == <<lines, dict, array, lent, answer>>

Init ==
    /\ lines = [fifo |-> NIL, lifo |-> NIL]
    /\ dict = NIL /\ array = NIL /\ lent = NIL
    /\ answer = [lines |-> NIL, dict |-> NIL, array |-> NIL]

OnLines == UNCHANGED <<dict, array, lent>>
OnDict  == UNCHANGED <<lines, array, lent>>
OnArray == UNCHANGED <<lines, dict>>

Answer(c, a) == answer' = [answer EXCEPT ![c] = a]

-----------------------------------------------------------------------------
(* A queue and a stack differ in where a pointer goes, not in where it     *)
(* comes out.  A release stops after the first NULL and loses the rest.    *)

LinesCreate(q) ==
    /\ lines[q] = NIL /\ lines' = [lines EXCEPT ![q] = <<>>]
    /\ Answer("lines", <<"init", q>>) /\ OnLines

LinesPush(q, d) ==
    /\ lines[q] # NIL
    /\ lines' = [lines EXCEPT ![q] = IF q = "fifo" THEN Append(@, d) ELSE <<d>> \o @]
    /\ Answer("lines", <<"push", q, d>>) /\ OnLines

LinesPop(q) ==
    /\ lines[q] # NIL
    /\ \/ lines[q] = <<>> /\ UNCHANGED lines /\ Answer("lines", <<"pop", q, NIL>>)
       \/ /\ lines[q] # <<>>
          /\ lines' = [lines EXCEPT ![q] = Tail(@)]
          /\ Answer("lines", <<"pop", q, Head(lines[q])>>)
    /\ OnLines

UpToNull(s) == SelectInSeq(s, LAMBDA d : d = NIL)

LinesRelease(q) ==
    /\ lines[q] # NIL /\ lines' = [lines EXCEPT ![q] = NIL]
    /\ LET k == UpToNull(lines[q])
       IN  Answer("lines", <<"release", q, IF k = 0 THEN lines[q]
                                           ELSE SubSeq(lines[q], 1, k - 1),
                             IF k = 0 THEN 0 ELSE Len(lines[q]) - k>>)
    /\ OnLines

-----------------------------------------------------------------------------
(* The map.  A pointer that is replaced goes to the release callback.      *)

With(f, h, d) == [k \in DOMAIN f \cup {h} |-> IF k = h THEN d ELSE f[k]]
Stored        == {dict[h] : h \in DOMAIN dict}

DictCreate ==
    /\ dict = NIL /\ dict' = [h \in {} |-> NIL]
    /\ Answer("dict", <<"init">>) /\ OnDict

DictSet(h, d) ==
    /\ dict # NIL /\ d \notin Stored
    /\ dict' = With(dict, h, d)
    /\ Answer("dict", <<"set", h, d, IF h \in DOMAIN dict THEN dict[h] ELSE NIL>>)
    /\ OnDict

DictGet(h) ==
    /\ dict # NIL
    /\ Answer("dict", <<"get", h, IF h \in DOMAIN dict THEN dict[h] ELSE NIL>>)
    /\ UNCHANGED dict /\ OnDict

\* The pointer of the largest hash.
DictLargest ==
    /\ dict # NIL
    /\ \/ DOMAIN dict = {} /\ Answer("dict", <<"left", NIL>>)
       \/ \E h \in DOMAIN dict : /\ \A k \in DOMAIN dict : k <= h
                                 /\ Answer("dict", <<"left", dict[h]>>)
    /\ UNCHANGED dict /\ OnDict

DictTraverse ==
    /\ dict # NIL
    /\ \E s \in SetToSeqs(Stored) : Answer("dict", <<"traverse", s>>)
    /\ UNCHANGED dict /\ OnDict

\* With its data or without.
DictRelease ==
    /\ dict # NIL /\ dict' = NIL
    /\ \/ Answer("dict", <<"release", <<>>>>)
       \/ \E s \in SetToSeqs(Stored) : Answer("dict", <<"release", s>>)
    /\ OnDict

-----------------------------------------------------------------------------
(* The array.  An address lent is good as long as the array does not grow  *)
(* over its first room; after that what is read there is anything.         *)

ArrayCreate ==
    /\ array = NIL /\ array' = <<>> /\ UNCHANGED lent
    /\ Answer("array", <<"init">>) /\ OnArray

ArrayAdd(e) ==
    /\ array # NIL /\ array' = Append(array, e)
    /\ lent' \in IF lent # NIL /\ Len(array) >= FirstRoom THEN {0, lent} ELSE {lent}
    /\ Answer("array", <<"add", e>>) /\ OnArray

ArraySet(i, e) ==
    /\ array # NIL
    /\ IF i < Len(array)
       THEN /\ array' = [array EXCEPT ![i + 1] = e]
            /\ Answer("array", <<"set", i, e>>)
       ELSE UNCHANGED array /\ Answer("array", <<"out_of_range", i>>)
    /\ UNCHANGED lent /\ OnArray

ArrayGet(i) ==
    /\ array # NIL
    /\ IF i < Len(array)
       THEN lent' = i + 1 /\ Answer("array", <<"get", i>>)
       ELSE UNCHANGED lent /\ Answer("array", <<"out_of_range", i>>)
    /\ UNCHANGED array /\ OnArray

ArrayUse(e) ==
    /\ array # NIL /\ lent # NIL
    /\ lent = 0 \/ array[lent] = e
    /\ Answer("array", <<"use", e>>)
    /\ UNCHANGED <<array, lent>> /\ OnArray

ArrayForeach ==
    /\ array # NIL
    /\ Answer("array", <<"foreach", array>>)
    /\ UNCHANGED <<array, lent>> /\ OnArray

ArrayRelease ==
    /\ array # NIL /\ array' = NIL /\ lent' = NIL
    /\ Answer("array", <<"release">>) /\ OnArray

Indices == 0..IF array = NIL THEN 0 ELSE Len(array)

Next ==
    \/ \E q \in {"fifo", "lifo"} :
          \/ LinesCreate(q) \/ LinesPop(q) \/ LinesRelease(q)
          \/ \E d \in Things \cup {NIL} : LinesPush(q, d)
    \/ DictCreate \/ DictLargest \/ DictTraverse \/ DictRelease
    \/ \E h \in HashKeys : DictGet(h) \/ \E d \in Payloads : DictSet(h, d)
    \/ ArrayCreate \/ ArrayForeach \/ ArrayRelease
    \/ \E e \in Elems : ArrayAdd(e) \/ ArrayUse(e)
    \/ \E i \in Indices : ArrayGet(i) \/ \E e \in Elems : ArraySet(i, e)

Spec == Init /\ [][Next]_vars
=============================================================================
