--------------------------- MODULE DynamicAllocator ---------------------------
(***************************************************************************)
(* dynamic_allocator.c, the growing byte buffer under every string: a      *)
(* block of size bytes of which the first used are the content.  Callers   *)
(* use it from one thread, so each function is one step; the functions of  *)
(* string.c that only pass a call on are the same steps.  The name of two  *)
(* functions misleads: da_crop_tail drops bytes from the front, and        *)
(* da_pop_head from the end.                                               *)
(***************************************************************************)
EXTENDS Naturals, Sequences

CONSTANTS
    Handles,
    Bytes,        \* the bytes of the content
    Zero,         \* the byte memset writes
    InitBuffer,   \* STRING_INIT_BUFFER
    MaxLen,       \* bound on the content's length
    NONE

ASSUME InitBufferAssumption == InitBuffer \in Nat
ASSUME MaxLenAssumption     == MaxLen \in Nat
ASSUME NoneAssumption       ==
    NONE \notin [mem : Seq(Bytes \cup {Zero}), used : Nat] \cup Seq(Bytes \cup {Zero})

VARIABLES
    da,     \* NONE or the block behind ptr, of size Len(mem), and used
    call    \* the latest call and its arguments

vars == <<da, call>>

Buffers == [mem : Seq(Bytes \cup {Zero}), used : Nat]

Zeros(n) == [i \in 1..n |-> Zero]
Upto(s, n) == SubSeq(s, 1, n)

\* da_init_n: zeroed by zalloc.
InitN(n) == [mem |-> Zeros(n), used |-> 0]

\* Mutant of Realloc: the new room is not zeroed.
ReallocUnzeroed(a, n) ==
    IF n = Len(a.mem) THEN a
    ELSE IF n < Len(a.mem) THEN [mem |-> Upto(a.mem, n), used |-> n]
    ELSE [mem  |-> a.mem \o [i \in 1..n - Len(a.mem) |-> CHOOSE x \in Bytes : TRUE],
          used |-> a.used]

\* Shrinking makes all of the block content; growing zeroes what is new.
Realloc(a, n) ==
    IF n = Len(a.mem) THEN a
    ELSE IF n < Len(a.mem) THEN [mem |-> Upto(a.mem, n), used |-> n]
    ELSE [mem |-> a.mem \o Zeros(n - Len(a.mem)), used |-> a.used]

Fit(a) == Realloc(a, a.used)

CheckSize(a, n) ==
    IF Len(a.mem) < a.used + n THEN Realloc(a, a.used + n) ELSE a

\* memcpy(a->ptr + a->used, data, size) with room for size bytes.
CopyIn(a, data) ==
    [mem  |-> [i \in 1..Len(a.mem) |->
                  IF i > a.used /\ i <= a.used + Len(data) THEN data[i - a.used]
                  ELSE a.mem[i]],
     used |-> a.used + Len(data)]

Append_(a, data) == CopyIn(CheckSize(a, Len(data)), data)

\* Mutant of CropTail: used is not adjusted.
CropTailKeepsUsed(a, n) ==
    IF n > Len(a.mem) THEN a
    ELSE [mem |-> SubSeq(a.mem, n + 1, a.used), used |-> a.used]

CropTail(a, n) ==
    IF n > Len(a.mem) THEN a
    ELSE [mem |-> SubSeq(a.mem, n + 1, a.used), used |-> a.used - n]

PopHead(a, n) ==
    LET f == Fit(a) IN IF n > Len(f.mem) THEN f ELSE Realloc(f, Len(f.mem) - n)

Sub(a, begin, end) ==
    Append_(InitN(end - begin), SubSeq(a.mem, begin + 1, end))

Dub(a) == Append_(InitN(a.used), Upto(a.mem, a.used))

\* Mutant of Concat: the second buffer is not fitted before it is copied.
ConcatUnfitted(a, b) ==
    CopyIn(Realloc(Fit(a), Len(Fit(a).mem) + Len(b.mem)), b.mem)

\* da_merge and da_concat once both buffers fit.
Concat(a, b) ==
    CopyIn(Realloc(Fit(a), Len(Fit(a).mem) + Len(Fit(b).mem)), Fit(b).mem)

\* The bytes after end are saved, the rest is cut at begin, and they are joined.
Remove(a, begin, end) == Concat(Realloc(a, begin), Sub(a, end, a.used))

-----------------------------------------------------------------------------
Exists(h) == da[h] # NONE
Put(h, a) == da' = [da EXCEPT ![h] = a]

Data == UNION {[1..n -> Bytes] : n \in 0..2}

Init == da = [h \in Handles |-> NONE] /\ call = NONE

da_init(h)    == ~Exists(h) /\ call' = <<"init", h>>   /\ Put(h, InitN(InitBuffer))
da_release(h) == Exists(h)  /\ call' = <<"release", h>> /\ Put(h, NONE)
da_fit(h)     == Exists(h)  /\ call' = <<"fit", h>>    /\ Put(h, Fit(da[h]))

\* Outside dynamic_allocator.c it only makes room, before a file is read.
da_realloc(h) == Exists(h) /\ \E n \in Len(da[h].mem)..MaxLen :
    call' = <<"realloc", h, n>> /\ Put(h, Realloc(da[h], n))

da_append(h) == Exists(h) /\ \E data \in Data :
    /\ da[h].used + Len(data) <= MaxLen
    /\ call' = <<"append", h, data>> /\ Put(h, Append_(da[h], data))

\* Its range check looks at size, so a caller must not pass n in used+1..size.
da_crop_tail(h) == Exists(h) /\ \E n \in (0..da[h].used) \cup {Len(da[h].mem) + 1} :
    call' = <<"crop_tail", h, n>> /\ Put(h, CropTail(da[h], n))

da_pop_head(h) == Exists(h) /\ \E n \in 0..da[h].used + 1 :
    call' = <<"pop_head", h, n>> /\ Put(h, PopHead(da[h], n))

da_sub(h, g) == Exists(h) /\ ~Exists(g) /\ \E begin, end \in 0..da[h].used :
    /\ begin <= end
    /\ call' = <<"sub", h, g, begin, end>> /\ Put(g, Sub(da[h], begin, end))

da_dub(h, g) ==
    /\ Exists(h) /\ ~Exists(g)
    /\ call' = <<"dub", h, g>> /\ Put(g, Dub(da[h]))

da_merge(h, g) ==
    /\ Exists(h) /\ Exists(g) /\ da[h].used + da[g].used <= MaxLen
    /\ call' = <<"merge", h, g>>
    /\ da' = [da EXCEPT ![h] = Concat(da[h], da[g]), ![g] = NONE]

da_concat(h, g) ==
    /\ Exists(h) /\ Exists(g) /\ da[h].used + da[g].used <= MaxLen
    /\ call' = <<"concat", h, g>>
    /\ da' = [da EXCEPT ![h] = Concat(da[h], da[g]), ![g] = Fit(da[g])]

\* As for da_sub, the caller must keep end within the content.
da_remove(h) == Exists(h) /\ \E begin, end \in 0..da[h].used :
    /\ begin <= end
    /\ call' = <<"remove", h, begin, end>> /\ Put(h, Remove(da[h], begin, end))

\* memcmp of the first n bytes of a block with others.
Memcmp(mem, other, n) == \A i \in 1..n : mem[i] = other[i]

da_compare(a, b) == a.used = b.used /\ Memcmp(a.mem, b.mem, a.used)

\* Unlike string_comparez it compares only as far as both go.
da_comparez(a, data) ==
    Memcmp(a.mem, data, IF a.used < Len(data) THEN a.used ELSE Len(data))

string_comparez(a, data) == a.used = Len(data) /\ Memcmp(a.mem, data, Len(data))

string_starts_with(a, data) == Len(data) <= a.used /\ Memcmp(a.mem, data, Len(data))

\* The functions that only read, here with all their arguments at once.
Read(h) ==
    /\ Exists(h) /\ UNCHANGED da
    /\ call' = <<"read", h,
                [g \in {f \in Handles : Exists(f)} |-> da_compare(da[h], da[g])],
                [data \in Data |-> <<da_comparez(da[h], data), string_comparez(da[h], data),
                                      string_starts_with(da[h], data)>>]>>

Next ==
    \/ \E h \in Handles :
          \/ Read(h)
          \/ da_init(h) \/ da_release(h) \/ da_fit(h)
          \/ da_realloc(h) \/ da_append(h)
          \/ da_crop_tail(h) \/ da_pop_head(h) \/ da_remove(h)
    \/ \E h, g \in Handles :
          /\ h # g
          /\ \/ da_sub(h, g) \/ da_dub(h, g) \/ da_merge(h, g)
             \/ da_concat(h, g)

Spec == Init /\ [][Next]_vars
-----------------------------------------------------------------------------
(* Every buffer keeps its content inside its block.                         *)
TypeOK ==
    /\ DOMAIN da = Handles
    /\ \A h \in Handles : Exists(h) =>
          da[h] \in Buffers /\ da[h].used <= Len(da[h].mem)

(* What is behind the content is zero: no operation leaves bytes of an     *)
(* earlier content in the room that a later append will use.               *)
RoomIsZero ==
    \A h \in Handles : Exists(h) =>
        \A i \in da[h].used + 1..Len(da[h].mem) : da[h].mem[i] = Zero

Content(h) == IF Exists(h) THEN Upto(da[h].mem, da[h].used) ELSE NONE

Abstract == INSTANCE ByteStrings
    WITH str <- [h \in Handles |-> Content(h)], Strings <- Data,
         MaxArg <- InitBuffer + MaxLen + 1

(* Through any sequence of calls the buffers behave as the strings of      *)
(* ByteStrings: growing, shrinking, saving and joining never lose, repeat  *)
(* or invent a byte.                                                       *)
ImplementsStrings == Abstract!Spec
=============================================================================
