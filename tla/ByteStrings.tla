----------------------------- MODULE ByteStrings -----------------------------
(***************************************************************************)
(* What dynamic_allocator.c promises: a handle is nothing or a string of   *)
(* bytes, and each call has the effect of the plain operation on strings,  *)
(* whatever room is kept behind them.  An argument out of range changes    *)
(* nothing.                                                                *)
(***************************************************************************)
EXTENDS Naturals, Sequences

CONSTANTS
    Handles,
    Strings,    \* the strings that are given as data
    MaxArg,     \* bound on the numbers that are given
    NONE

VARIABLES
    str,    \* the string of each handle, or NONE
    call    \* the latest call and its arguments

vars == <<str, call>>

Empty(h) == str[h] = NONE
Put(h, s) == str' = [str EXCEPT ![h] = s]
Between(s, i, j) == SubSeq(s, i + 1, j)

Init == str = [h \in Handles |-> NONE] /\ call = NONE

Create(h)  == Empty(h)  /\ call' = <<"init", h>>    /\ Put(h, <<>>)
Release(h) == ~Empty(h) /\ call' = <<"release", h>> /\ Put(h, NONE)
Fit(h)     == ~Empty(h) /\ call' = <<"fit", h>>     /\ UNCHANGED str

Reserve(h) == ~Empty(h) /\ UNCHANGED str /\ \E n \in 0..MaxArg :
    call' = <<"realloc", h, n>>

Extend(h) == ~Empty(h) /\ \E s \in Strings :
    call' = <<"append", h, s>> /\ Put(h, str[h] \o s)

DropFirst(h) == ~Empty(h) /\ \E n \in 0..MaxArg :
    /\ call' = <<"crop_tail", h, n>>
    /\ Put(h, IF n > Len(str[h]) THEN str[h] ELSE Between(str[h], n, Len(str[h])))

DropLast(h) == ~Empty(h) /\ \E n \in 0..MaxArg :
    /\ call' = <<"pop_head", h, n>>
    /\ Put(h, IF n > Len(str[h]) THEN str[h] ELSE Between(str[h], 0, Len(str[h]) - n))

Slice(h, g) == ~Empty(h) /\ Empty(g) /\ \E i, j \in 0..Len(str[h]) :
    i <= j /\ call' = <<"sub", h, g, i, j>> /\ Put(g, Between(str[h], i, j))

Copy(h, g) == ~Empty(h) /\ Empty(g) /\ call' = <<"dub", h, g>> /\ Put(g, str[h])

Cut(h) == ~Empty(h) /\ \E i, j \in 0..Len(str[h]) :
    /\ i <= j /\ call' = <<"remove", h, i, j>>
    /\ Put(h, Between(str[h], 0, i) \o Between(str[h], j, Len(str[h])))

Join(h, g) == /\ ~Empty(h) /\ ~Empty(g) /\ call' = <<"concat", h, g>>
              /\ Put(h, str[h] \o str[g])

Merge(h, g) == /\ ~Empty(h) /\ ~Empty(g) /\ call' = <<"merge", h, g>>
               /\ str' = [str EXCEPT ![h] = @ \o str[g], ![g] = NONE]

Prefix(s, t) == Len(s) <= Len(t) /\ SubSeq(t, 1, Len(s)) = s

\* A string compared with the others, and with each C string as a whole, as
\* far as both go, and at its start.
Read(h) ==
    /\ ~Empty(h) /\ UNCHANGED str
    /\ call' = <<"read", h,
                [g \in {f \in Handles : ~Empty(f)} |-> str[h] = str[g]],
                [s \in Strings |-> <<Prefix(s, str[h]) \/ Prefix(str[h], s), s = str[h],
                                      Prefix(s, str[h])>>]>>

Next ==
    \/ \E h \in Handles : \/ Read(h)
                          \/ Create(h) \/ Release(h) \/ Fit(h)
                          \/ Reserve(h) \/ Extend(h)
                          \/ DropFirst(h) \/ DropLast(h) \/ Cut(h)
    \/ \E h, g \in Handles :
          /\ h # g
          /\ \/ Slice(h, g) \/ Copy(h, g) \/ Join(h, g)
             \/ Merge(h, g)

Spec == Init /\ [][Next]_vars
=============================================================================
