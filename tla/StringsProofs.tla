----------------------------- MODULE StringsProofs -----------------------------
(***************************************************************************)
(* Proofs about string_split and string_strip, for strings of any length   *)
(* over any alphabet: popping blanks gives the trimmed input, reducing     *)
(* runs of the delimiter leaves the words as they are, and the tokens cut  *)
(* so far are the words that start before the index.                       *)
(***************************************************************************)
EXTENDS Strings, SequenceTheorems, FiniteSetTheorems, WellFoundedInduction, TLAPS

-----------------------------------------------------------------------------
(* Words, with the delimiter as a parameter.                                *)

Starts(str, d)    == {i \in 1..Len(str) : str[i] # d /\ (i = 1 \/ str[i - 1] = d)}
Before(str, d, i) == {k \in Starts(str, d) : k <= i}
Count(str, d, i)  == Cardinality(Before(str, d, i))
IsEnd(str, d, i, k) == /\ \A n \in i..k : str[n] # d
                       /\ k = Len(str) \/ str[k + 1] = d
EndOf(str, d, i)  == CHOOSE k \in i..Len(str) : IsEnd(str, d, i, k)
Nth(str, d, n)    == CHOOSE i \in Starts(str, d) : n = Count(str, d, i)
WordsOf(str, d)   ==
    [n \in 1..Cardinality(Starts(str, d)) |->
        SubSeq(str, Nth(str, d, n), EndOf(str, d, Nth(str, d, n)))]

\* The empty token in front of a string that starts with the delimiter.
Leading(str, d) == str = <<>> \/ str[1] = d
Lead(str, d)    == IF Leading(str, d) THEN <<(<<>>)>> ELSE <<>>

\* What string_rstrip_ws left so far: all that it popped were blanks.
PoppedInv ==
    /\ s # <<>> /\ Size <= Len(input) /\ s = SubSeq(input, 1, Size)
    /\ \A k \in Size + 1..Len(input) : k > 2 /\ input[k] \in Blank

\* Reducing runs of the delimiter leaves the words alone; the last byte is the
\* delimiter only in a short string; there is no run before the index.
ReducedInv ==
    /\ WordsOf(s, delm) = WordsOf(TrimmedInput, delm)
    /\ Leading(s, delm) <=> TrimmedInput[1] = delm
    /\ s # <<>> /\ s[Size] = delm => Short

NoRun(m) == \A k \in 1..m : k < Size /\ s[k] = delm => s[k + 1] # delm

\* The tokens are the words that start before cb, and an empty one in front of
\* them; a token starts at cb and goes on to ccur at least.
CutInv ==
    /\ NoRun(Size)
    /\ cb > 0 => ccur > cb
    /\ ccur > Size => cb > 0 /\ ccur = cb + 1
    /\ cb <= Size + 1
    /\ cb > 0 /\ cb <= Size => s[cb] = delm
    /\ \A k \in cb + 1..ccur : k <= Size => s[k] # delm
    /\ tokens = (IF cb = 0 THEN <<>> ELSE Lead(s, delm))
                \o SubSeq(WordsOf(s, delm), 1, Count(s, delm, cb))

SplitInv ==
    /\ pc = "called" => s = input
    /\ pc \in {"called", "rstrip", "dedup"} => cb = 0 /\ ccur = 0
    /\ pc \in {"called", "rstrip"} => j = 0
    /\ pc = "rstrip" => PoppedInv
    /\ pc \in {"dedup", "cut"} => ReducedInv
    /\ pc = "dedup" => NoRun(j)
    /\ pc = "cut" => CutInv

IInv == TypeOK /\ SplitInv /\ StripTrims /\ SplitGivesWords /\ OverreadOnlyShort

-----------------------------------------------------------------------------
(* Numbers.                                                                 *)

\* A set of numbers that is not empty has a least one.
LEMMA LeastNumber ==
    ASSUME NEW T, T \subseteq Nat, T # {}
    PROVE  \E x \in T : \A y \in T : x <= y
<1> DEFINE R == OpToRel(<, Nat)
<1>1. IsWellFoundedOn(R, Nat)
  BY NatLessThanWellFounded
<1>2. \A x, y \in Nat : x < y => <<x, y>> \in R
  BY DEF OpToRel
<1> HIDE DEF R
<1>3. PICK x \in T : \A y \in T : ~(<<y, x>> \in R)
  BY <1>1, WFMin
<1>4. \A y \in T : ~(y < x)
  BY <1>2, <1>3
<1>5. \A y \in T : x <= y
  BY <1>4
<1> QED
  BY <1>5

\* One with a bound has a greatest one.
LEMMA GreatestNumber ==
    ASSUME NEW T, T \subseteq Nat, T # {}, NEW m \in Nat, \A x \in T : x <= m
    PROVE  \E x \in T : \A y \in T : y <= x
<1> DEFINE D == {n \in Nat : m - n \in T}
<1>1. D \subseteq Nat /\ D # {}
  <2>1. PICK x \in T : TRUE
    OBVIOUS
  <2>2. m - x \in Nat /\ m - (m - x) = x
    BY <2>1
  <2> QED
    BY <2>1, <2>2
<1>2. PICK n \in D : \A k \in D : n <= k
  BY <1>1, LeastNumber
<1>3. m - n \in T
  BY <1>2
<1>4. ASSUME NEW y \in T PROVE y <= m - n
  <2>1. m - y \in Nat /\ m - (m - y) = y
    OBVIOUS
  <2>2. n <= m - y
    BY <1>2, <2>1
  <2> QED
    BY <1>2, <2>2
<1> QED
  BY <1>3, <1>4

\* Induction over the numbers, stated about a set of them.
LEMMA Induction ==
    ASSUME NEW S, 0 \in S, \A n \in Nat : n \in S => n + 1 \in S
    PROVE  Nat \subseteq S
<1> DEFINE T == Nat \ S
<1>1. CASE T = {}
  BY <1>1
<1>2. CASE T # {}
  <2>1. PICK x \in T : \A y \in T : x <= y
    BY <1>2, LeastNumber
  <2>2. x # 0 /\ x - 1 \in Nat
    BY <2>1
  <2>3. x - 1 \in S
    BY <2>1, <2>2
  <2> QED
    BY <2>2, <2>3
<1> QED
  BY <1>1, <1>2

-----------------------------------------------------------------------------
(* Counting the words.                                                      *)

LEMMA StartsAreFinite ==
    ASSUME NEW str, Len(str) \in Nat, NEW d
    PROVE  /\ Starts(str, d) \subseteq 1..Len(str)
           /\ IsFiniteSet(Starts(str, d)) /\ Cardinality(Starts(str, d)) \in Nat
           /\ \A i : /\ IsFiniteSet(Before(str, d, i)) /\ Count(str, d, i) \in Nat
                     /\ Count(str, d, i) <= Cardinality(Starts(str, d))
<1>1. Starts(str, d) \subseteq 1..Len(str)
  BY DEF Starts
<1>2. IsFiniteSet(1..Len(str))
  BY FS_Interval
<1>3. IsFiniteSet(Starts(str, d))
  BY <1>1, <1>2, FS_Subset
<1>4. ASSUME NEW i
      PROVE  /\ IsFiniteSet(Before(str, d, i)) /\ Count(str, d, i) \in Nat
             /\ Count(str, d, i) <= Cardinality(Starts(str, d))
  <2>1. Before(str, d, i) \in SUBSET Starts(str, d)
    BY DEF Before
  <2>2. IsFiniteSet(Before(str, d, i)) /\ Count(str, d, i) <= Cardinality(Starts(str, d))
    BY <1>3, <2>1, FS_Subset DEF Count
  <2> QED
    BY <2>2, FS_CardinalityType DEF Count
<1> QED
  BY <1>1, <1>3, <1>4, FS_CardinalityType

\* Different starts have different counts.
LEMMA CountGrows ==
    ASSUME NEW str, Len(str) \in Nat, NEW d,
           NEW i \in Starts(str, d), NEW k \in Starts(str, d), i < k
    PROVE  Count(str, d, i) # Count(str, d, k)
<1>1. i \in Nat /\ k \in Nat
  BY StartsAreFinite
<1>2. k \in Before(str, d, k) /\ k \notin Before(str, d, i)
  BY <1>1 DEF Before
<1>3. Before(str, d, i) \in SUBSET Before(str, d, k)
  BY <1>1, StartsAreFinite DEF Before
<1>4. IsFiniteSet(Before(str, d, k))
  BY StartsAreFinite
<1> QED
  BY <1>2, <1>3, <1>4, FS_Subset DEF Count

\* The n-th start is the one up to which there are n.
LEMMA NthIs ==
    ASSUME NEW str, Len(str) \in Nat, NEW d, NEW i \in Starts(str, d)
    PROVE  Nth(str, d, Count(str, d, i)) = i
<1> DEFINE n == Count(str, d, i)
<1>1. ASSUME NEW k \in Starts(str, d), n = Count(str, d, k) PROVE k = i
  <2>1. i \in Nat /\ k \in Nat
    BY StartsAreFinite
  <2>2. ~(i < k) /\ ~(k < i)
    BY <1>1, CountGrows
  <2> QED
    BY <2>1, <2>2
<1> QED
  BY <1>1 DEF Nth

\* What changes the count from one place to the next.
LEMMA CountStep ==
    ASSUME NEW str, Len(str) \in Nat, NEW d, NEW i \in Nat
    PROVE  Count(str, d, i + 1) = IF i + 1 \in Starts(str, d) THEN Count(str, d, i) + 1
                                  ELSE Count(str, d, i)
<1>1. Starts(str, d) \subseteq Nat /\ IsFiniteSet(Before(str, d, i))
  <2>1. Starts(str, d) \subseteq 1..Len(str) /\ IsFiniteSet(Before(str, d, i))
    BY StartsAreFinite, Zenon
  <2> QED
    BY <2>1
<1>2. i + 1 \notin Before(str, d, i)
  BY DEF Before
<1>3. CASE i + 1 \in Starts(str, d)
  <2>1. Before(str, d, i + 1) = Before(str, d, i) \cup {i + 1}
    BY <1>1, <1>3 DEF Before
  <2>2. Cardinality(Before(str, d, i) \cup {i + 1}) = Cardinality(Before(str, d, i)) + 1
    BY <1>1, <1>2, FS_AddElement
  <2> QED
    BY <1>3, <2>1, <2>2 DEF Count
<1>4. CASE i + 1 \notin Starts(str, d)
  <2>1. Before(str, d, i + 1) = Before(str, d, i)
    BY <1>1, <1>4 DEF Before
  <2> QED
    BY <1>4, <2>1 DEF Count
<1> QED
  BY <1>3, <1>4

LEMMA CountNone ==
    ASSUME NEW str, Len(str) \in Nat, NEW d
    PROVE  Count(str, d, 0) = 0
<1>1. Before(str, d, 0) = {}
  BY StartsAreFinite DEF Before
<1> QED
  BY <1>1, FS_EmptySet DEF Count

LEMMA CountAll ==
    ASSUME NEW str, Len(str) \in Nat, NEW d, NEW i \in Nat, Len(str) <= i
    PROVE  Count(str, d, i) = Cardinality(Starts(str, d))
<1>1. Before(str, d, i) = Starts(str, d)
  BY StartsAreFinite DEF Before
<1> QED
  BY <1>1 DEF Count

\* There is an n-th start for every n up to their number.
LEMMA NthExists ==
    ASSUME NEW str, Len(str) \in Nat, NEW d, NEW n \in 1..Cardinality(Starts(str, d))
    PROVE  \E i \in Starts(str, d) : n = Count(str, d, i)
<1> DEFINE Found(m) == n <= Count(str, d, m) => \E i \in Starts(str, d) : n = Count(str, d, i)
           S == {m \in Nat : Found(m)}
<1>1. n \in Nat \ {0} /\ n <= Cardinality(Starts(str, d))
  BY StartsAreFinite
<1>2. 0 \in S
  BY <1>1, CountNone
<1>3. ASSUME NEW m \in Nat, m \in S PROVE m + 1 \in S
  <2>1. Count(str, d, m) \in Nat
    BY StartsAreFinite
  <2>2. CASE m + 1 \in Starts(str, d)
    <3>1. Count(str, d, m + 1) = Count(str, d, m) + 1
      BY <2>2, CountStep
    <3>2. n <= Count(str, d, m + 1) => n <= Count(str, d, m) \/ n = Count(str, d, m + 1)
      BY <1>1, <2>1, <3>1
    <3> QED
      BY <1>3, <2>2, <3>2
  <2>3. CASE m + 1 \notin Starts(str, d)
    <3>1. Count(str, d, m + 1) = Count(str, d, m)
      BY <2>3, CountStep
    <3> QED
      BY <1>3, <3>1
  <2> QED
    BY <2>2, <2>3
<1>4. Nat \subseteq S
  <2> HIDE DEF S
  <2> QED
    BY <1>2, <1>3, Induction
<1>5. Found(Len(str))
  BY <1>4
<1>6. Count(str, d, Len(str)) = Cardinality(Starts(str, d))
  BY CountAll
<1> QED
  BY <1>1, <1>5, <1>6

\* A word has one end.
LEMMA EndIs ==
    ASSUME NEW str, Len(str) \in Nat, NEW d,
           NEW i \in 1..Len(str), NEW k \in i..Len(str), IsEnd(str, d, i, k)
    PROVE  EndOf(str, d, i) = k
<1>1. ASSUME NEW n \in i..Len(str), IsEnd(str, d, i, n) PROVE n = k
  <2>1. ~(n < k)
    <3>1. n < k => n + 1 \in i..k /\ n # Len(str)
      OBVIOUS
    <3> QED
      BY <1>1, <3>1 DEF IsEnd
  <2>2. ~(k < n)
    <3>1. k < n => k + 1 \in i..n /\ k # Len(str)
      OBVIOUS
    <3> QED
      BY <1>1, <3>1 DEF IsEnd
  <2> QED
    BY <2>1, <2>2
<1> QED
  BY <1>1 DEF EndOf

LEMMA EndExists ==
    ASSUME NEW str, Len(str) \in Nat, NEW d, NEW i \in Starts(str, d)
    PROVE  \E k \in i..Len(str) : IsEnd(str, d, i, k)
<1> DEFINE T == {k \in i..Len(str) : k = Len(str) \/ str[k + 1] = d}
<1>1. i \in 1..Len(str) /\ str[i] # d
  BY DEF Starts
<1>2. T \subseteq Nat /\ T # {}
  <2>1. Len(str) \in T
    BY <1>1
  <2> QED
    BY <1>1, <2>1
<1>3. PICK k \in T : \A n \in T : k <= n
  BY <1>2, LeastNumber
<1>4. ASSUME NEW n \in i..k PROVE str[n] # d
  <2>1. CASE n = i
    BY <1>1, <2>1
  <2>2. CASE n # i
    <3>1. n - 1 \in i..Len(str) /\ n - 1 < k /\ n - 1 + 1 = n /\ n - 1 # Len(str)
      BY <1>1, <1>3, <2>2
    <3>2. n - 1 \notin T
      <4>1. ASSUME n - 1 \in T PROVE FALSE
        <5>1. k <= n - 1 /\ k \in Nat /\ n - 1 \in Nat
          BY <1>2, <1>3, <4>1
        <5> QED
          BY <3>1, <5>1
      <4> QED
        BY <4>1
    <3> QED
      BY <3>1, <3>2
  <2> QED
    BY <2>1, <2>2
<1> QED
  BY <1>3, <1>4 DEF IsEnd

\* The words are SubSeqs of the string.
LEMMA WordsType ==
    ASSUME NEW A, NEW str \in Seq(A), NEW d
    PROVE  /\ WordsOf(str, d) \in Seq(Seq(A))
           /\ Len(WordsOf(str, d)) = Cardinality(Starts(str, d))
           /\ \A n \in 1..Cardinality(Starts(str, d)) :
                 WordsOf(str, d)[n] = SubSeq(str, Nth(str, d, n), EndOf(str, d, Nth(str, d, n)))
<1>1. Len(str) \in Nat /\ \A i \in 1..Len(str) : str[i] \in A
  BY LenProperties, ElementOfSeq
<1> DEFINE m == Cardinality(Starts(str, d))
           W(n) == SubSeq(str, Nth(str, d, n), EndOf(str, d, Nth(str, d, n)))
<1>2. m \in Nat
  BY <1>1, StartsAreFinite
<1>3. ASSUME NEW n \in 1..m PROVE W(n) \in Seq(A)
  <2>1. PICK i \in Starts(str, d) : n = Count(str, d, i)
    BY <1>1, NthExists
  <2>2. Nth(str, d, n) = i /\ i \in 1..Len(str)
    BY <1>1, <2>1, NthIs, StartsAreFinite
  <2>3. PICK k \in i..Len(str) : IsEnd(str, d, i, k)
    BY <1>1, EndExists
  <2>4. EndOf(str, d, i) = k
    BY <1>1, <2>2, <2>3, EndIs
  <2>5. i \in Int /\ k \in Int /\ \A x \in i..k : str[x] \in A
    BY <1>1, <2>2
  <2>6. SubSeq(str, i, k) \in Seq(A)
    BY <2>5, SubSeqProperties
  <2> QED
    BY <2>2, <2>4, <2>6
<1>4. WordsOf(str, d) = [n \in 1..m |-> W(n)]
  BY DEF WordsOf
<1> HIDE DEF m, W
<1>5. [n \in 1..m |-> W(n)] \in Seq(Seq(A)) /\ Len([n \in 1..m |-> W(n)]) = m
  BY <1>2, <1>3
<1> QED
  BY <1>4, <1>5 DEF m, W

-----------------------------------------------------------------------------
(* Reducing a run of delimiters.                                            *)

\* The string without the bytes after the first a up to e.
Without(str, a, e) == SubSeq(str, 1, a) \o SubSeq(str, e + 1, Len(str))

\* Where a byte of it was before.
Was(i, a, e) == IF i <= a THEN i ELSE i + (e - a)

LEMMA BytesWithout ==
    ASSUME NEW A, NEW str \in Seq(A), NEW a \in 0..Len(str), NEW e \in a..Len(str)
    PROVE  /\ Without(str, a, e) \in Seq(A) /\ Len(str) \in Nat
           /\ Len(Without(str, a, e)) = Len(str) - (e - a)
           /\ \A i \in 1..Len(str) - (e - a) :
                 Without(str, a, e)[i] = str[Was(i, a, e)]
<1> DEFINE L == Len(str)
           x == SubSeq(str, 1, a)
           y == SubSeq(str, e + 1, L)
<1>1. L \in Nat /\ (\A i \in 1..L : str[i] \in A) /\ a \in Nat /\ e \in Nat /\ a <= e /\ e <= L
  BY LenProperties, ElementOfSeq
<1>2. /\ x \in Seq(A) /\ Len(x) = a
      /\ \A i \in 1..a : x[i] = str[i]
  <2>1. 1 \in Int /\ a \in Int /\ \A i \in 1..a : str[i] \in A
    BY <1>1
  <2>2. /\ x \in Seq(A) /\ Len(x) = IF 1 <= a THEN a - 1 + 1 ELSE 0
        /\ \A i \in 1..a - 1 + 1 : x[i] = str[1 + i - 1]
    BY <2>1, SubSeqProperties
  <2> QED
    BY <1>1, <2>2
<1>3. /\ y \in Seq(A) /\ Len(y) = L - e
      /\ \A i \in 1..L - e : y[i] = str[e + i]
  <2>1. e + 1 \in Int /\ L \in Int /\ \A i \in e + 1..L : str[i] \in A
    BY <1>1
  <2>2. /\ y \in Seq(A) /\ Len(y) = IF e + 1 <= L THEN L - (e + 1) + 1 ELSE 0
        /\ \A i \in 1..L - (e + 1) + 1 : y[i] = str[e + 1 + i - 1]
    BY <2>1, SubSeqProperties
  <2>3. /\ L - (e + 1) + 1 = L - e /\ (e + 1 <= L \/ L - e = 0)
        /\ \A i \in 1..L - e : e + 1 + i - 1 = e + i
    BY <1>1
  <2> QED
    BY <2>2, <2>3
<1> HIDE DEF x, y
<1>4. /\ x \o y \in Seq(A) /\ Len(x \o y) = Len(x) + Len(y)
      /\ \A i \in 1..Len(x) + Len(y) : (x \o y)[i] = IF i <= Len(x) THEN x[i] ELSE y[i - Len(x)]
  BY <1>2, <1>3, ConcatProperties
<1>5. Len(x) + Len(y) = L - (e - a)
  BY <1>1, <1>2, <1>3
<1>6. ASSUME NEW i \in 1..L - (e - a) PROVE (x \o y)[i] = str[Was(i, a, e)]
  <2>1. (x \o y)[i] = IF i <= a THEN x[i] ELSE y[i - a]
    BY <1>2, <1>4, <1>5
  <2>2. CASE i <= a
    <3>1. i \in 1..a
      BY <1>1, <2>2
    <3> QED
      BY <1>2, <2>1, <2>2, <3>1 DEF Was
  <2>3. CASE ~(i <= a)
    <3>1. i - a \in 1..L - e /\ e + (i - a) = i + (e - a)
      BY <1>1, <2>3
    <3> QED
      BY <1>3, <2>1, <2>3, <3>1 DEF Was
  <2> QED
    BY <2>2, <2>3
<1> QED
  BY <1>1, <1>4, <1>5, <1>6 DEF Without, x, y

\* A run of the delimiter may go but for its last byte, and all of it at the
\* end of the string: the words stay.
LEMMA RunGone ==
    ASSUME NEW A, NEW str \in Seq(A), NEW d,
           NEW a \in 0..Len(str), NEW e \in a + 1..Len(str),
           \A k \in a + 1..e : str[k] = d,
           e = Len(str) \/ str[e + 1] = d
    PROVE  WordsOf(Without(str, a, e), d) = WordsOf(str, d)
<1> DEFINE L == Len(str)
           c == e - a
           M == L - c
           new == Without(str, a, e)
           g == [i \in 1..M |-> Was(i, a, e)]
<1>1. /\ new \in Seq(A) /\ Len(new) = M /\ L \in Nat /\ M \in Nat /\ c \in Nat \ {0}
      /\ a \in Nat /\ e \in Nat /\ e = a + c /\ a <= M /\ e <= L
      /\ \A i \in 1..M : new[i] = str[g[i]]
  <2>1. a \in Nat /\ e \in Nat /\ e \in a..Len(str) /\ L \in Nat
    BY LenProperties
  <2>2. /\ new \in Seq(A) /\ Len(new) = M
        /\ \A i \in 1..M : new[i] = str[g[i]]
    BY <2>1, BytesWithout
  <2> QED
    BY <2>1, <2>2
<1>2. /\ \A i \in 1..M : g[i] \in 1..L /\ (i <= a => g[i] = i) /\ (~(i <= a) => g[i] = i + c)
      /\ \A i, k \in 1..M : i <= k <=> g[i] <= g[k]
  <2>1. \A i \in 1..M : g[i] = IF i <= a THEN i ELSE i + c
    BY DEF Was
  <2> HIDE DEF g, c, M, L, new
  <2>2. ASSUME NEW i \in 1..M
        PROVE  g[i] \in 1..L /\ (i <= a => g[i] = i) /\ (~(i <= a) => g[i] = i + c)
    <3>1. L = M + c
      BY <1>1 DEF M
    <3> QED
      BY <1>1, <2>1, <3>1
  <2>3. ASSUME NEW i \in 1..M, NEW k \in 1..M PROVE i <= k <=> g[i] <= g[k]
    <3> DEFINE u == g[i]
               v == g[k]
    <3>1. (i <= a => u = i) /\ (~(i <= a) => u = i + c) /\ (k <= a => v = k) /\ (~(k <= a) => v = k + c)
      BY <2>2
    <3> HIDE DEF u, v
    <3>2. i \in Nat /\ k \in Nat
      BY <1>1
    <3>3. i <= k <=> u <= v
      BY <1>1, <3>1, <3>2
    <3> QED
      BY <3>3 DEF u, v
  <2> QED
    BY <2>2, <2>3
<1>3. \A k \in a + 1..e : k \in 1..L /\ str[k] = d
  BY <1>1
<1> HIDE DEF g, new, c, M, L
<1>4. M > a => new[a + 1] = d
  <2>1. ASSUME M > a PROVE new[a + 1] = d
    <3>1. a + 1 \in 1..M /\ ~(a + 1 <= a) /\ a + 1 + c = e + 1 /\ e # L
      BY <1>1, <2>1 DEF M
    <3>2. new[a + 1] = str[e + 1]
      <4> DEFINE i == a + 1
      <4>1. i \in 1..M /\ ~(i <= a) /\ i + c = e + 1
        BY <3>1
      <4> HIDE DEF i
      <4>2. new[i] = str[g[i]] /\ g[i] = i + c
        BY <1>1, <1>2, <4>1
      <4> QED
        BY <4>1, <4>2 DEF i
    <3> QED
      BY <3>1, <3>2 DEF L
  <2> QED
    BY <2>1
<1>5. ASSUME NEW i \in Starts(new, d) PROVE i \in 1..M /\ g[i] \in Starts(str, d)
  <2>1. i \in 1..M /\ new[i] # d /\ (i = 1 \/ new[i - 1] = d)
    BY <1>1, <1>5 DEF Starts
  <2>2. CASE i <= a
    <3>1. g[i] = i /\ str[i] # d /\ i \in 1..L
      BY <1>1, <1>2, <2>1, <2>2
    <3>2. i = 1 \/ str[i - 1] = d
      <4>1. i = 1 \/ (i - 1 \in 1..M /\ i - 1 <= a)
        BY <1>1, <2>1, <2>2
      <4>2. ASSUME NEW h \in 1..M, h <= a, new[h] = d PROVE str[h] = d
        <5>1. new[h] = str[g[h]] /\ g[h] = h
          BY <1>1, <1>2, <4>2
        <5> QED
          BY <4>2, <5>1
      <4> QED
        BY <2>1, <4>1, <4>2
    <3> QED
      BY <2>1, <3>1, <3>2 DEF Starts, L
  <2>3. CASE ~(i <= a)
    <3>1. i # a + 1 /\ a + 1 \in 1..M
      BY <1>1, <1>4, <2>1, <2>3
    <3>2. i - 1 \in 1..M /\ ~(i - 1 <= a) /\ i # 1 /\ i - 1 + c = i + c - 1
      BY <1>1, <2>1, <2>3, <3>1
    <3>3. g[i] = i + c /\ g[i - 1] = i + c - 1 /\ g[i] \in 1..L
      BY <1>2, <2>1, <2>3, <3>2
    <3>4. str[g[i]] # d /\ str[g[i - 1]] = d
      BY <1>1, <2>1, <3>2
    <3>5. g[i - 1] = g[i] - 1
      BY <1>1, <2>1, <3>3
    <3> QED
      BY <2>1, <3>3, <3>4, <3>5 DEF Starts, L
  <2> QED
    BY <2>2, <2>3
<1>6. ASSUME NEW k \in Starts(str, d) PROVE \E i \in Starts(new, d) : g[i] = k
  <2>1. k \in 1..L /\ str[k] # d /\ (k = 1 \/ str[k - 1] = d)
    BY <1>6 DEF Starts, L
  <2>2. CASE k <= a
    <3>1. k \in 1..M /\ g[k] = k /\ new[k] # d
      <4>1. k \in 1..M
        BY <1>1, <2>1, <2>2
      <4> QED
        BY <1>1, <1>2, <2>1, <2>2, <4>1
    <3>2. k = 1 \/ new[k - 1] = d
      <4>1. k = 1 \/ (k - 1 \in 1..M /\ k - 1 <= a)
        BY <1>1, <2>1, <2>2
      <4> QED
        BY <1>1, <1>2, <2>1, <4>1
    <3> QED
      BY <1>1, <3>1, <3>2 DEF Starts
  <2>3. CASE ~(k <= a)
    <3>1. ~(k <= e)
      BY <1>1, <1>3, <2>1, <2>3
    <3>2. k # e + 1
      <4>1. k = e + 1 => e # L
        BY <1>1, <2>1
      <4> QED
        BY <2>1, <4>1 DEF L
    <3> DEFINE i == k - c
    <3>3. /\ i \in 1..M /\ i - 1 \in 1..M /\ ~(i <= a) /\ ~(i - 1 <= a)
          /\ i + c = k /\ i - 1 + c = k - 1 /\ k # 1
      BY <1>1, <2>1, <3>1, <3>2 DEF M
    <3> HIDE DEF i
    <3>4. g[i] = k /\ g[i - 1] = k - 1
      BY <1>2, <3>3
    <3>5. new[i] # d /\ new[i - 1] = d
      BY <1>1, <2>1, <3>3, <3>4
    <3>6. i \in Starts(new, d)
      BY <1>1, <3>3, <3>5 DEF Starts
    <3> QED
      BY <3>4, <3>6
  <2> QED
    BY <2>2, <2>3
<1>7. ASSUME NEW S, NEW T, IsFiniteSet(S), S \subseteq 1..M,
             \A i \in S : g[i] \in T, \A k \in T : \E i \in S : g[i] = k
      PROVE  Cardinality(T) = Cardinality(S)
  <2> DEFINE f == [i \in S |-> g[i]]
  <2>1. f \in Surjection(S, T)
    BY <1>7 DEF Surjection
  <2>2. \A i, k \in S : g[i] = g[k] => i = k
    <3>1. ASSUME NEW i \in S, NEW k \in S, g[i] = g[k] PROVE i = k
      <4>1. i \in 1..M /\ k \in 1..M /\ g[i] \in Int
        BY <1>1, <1>2, <1>7
      <4>2. i <= k /\ k <= i
        BY <1>2, <3>1, <4>1
      <4> QED
        BY <1>1, <4>1, <4>2
    <3> QED
      BY <3>1
  <2>3. f \in Injection(S, T)
    <3>1. f \in [S -> T] /\ \A i \in S : f[i] = g[i]
      BY <1>7
    <3> HIDE DEF f
    <3> QED
      BY <2>2, <3>1 DEF Injection, IsInjective
  <2> HIDE DEF f
  <2> QED
    BY <1>7, <2>1, <2>3, FS_Surjection
<1>8. Cardinality(Starts(str, d)) = Cardinality(Starts(new, d))
  <2>1. IsFiniteSet(Starts(new, d)) /\ Starts(new, d) \subseteq 1..M
    BY <1>1, StartsAreFinite
  <2> QED
    BY <1>5, <1>6, <1>7, <2>1
<1>9. ASSUME NEW i \in Starts(new, d) PROVE Count(str, d, g[i]) = Count(new, d, i)
  <2>1. IsFiniteSet(Before(new, d, i)) /\ Before(new, d, i) \subseteq 1..M
    <3>1. /\ Starts(new, d) \subseteq 1..Len(new)
          /\ IsFiniteSet(Before(new, d, i))
      BY <1>1, StartsAreFinite, Zenon
    <3> QED
      BY <1>1, <3>1 DEF Before
  <2>2. \A k \in Before(new, d, i) : g[k] \in Before(str, d, g[i])
    BY <1>2, <1>5 DEF Before
  <2>3. \A x \in Before(str, d, g[i]) : \E k \in Before(new, d, i) : g[k] = x
    <3>1. ASSUME NEW x \in Before(str, d, g[i])
          PROVE  \E k \in Before(new, d, i) : g[k] = x
      <4>1. PICK k \in Starts(new, d) : g[k] = x
        BY <1>6 DEF Before
      <4>2. g[k] <= g[i]
        BY <4>1 DEF Before
      <4>3. k <= i
        BY <1>2, <1>5, <4>2
      <4> QED
        BY <4>1, <4>3 DEF Before
    <3> QED
      BY <3>1
  <2> QED
    BY <1>7, <2>1, <2>2, <2>3 DEF Count
<1>10. ASSUME NEW n \in 1..Cardinality(Starts(new, d))
       PROVE  WordsOf(new, d)[n] = WordsOf(str, d)[n]
  <2>1. PICK i \in Starts(new, d) : n = Count(new, d, i)
    BY <1>1, NthExists
  <2>2. Nth(new, d, n) = i
    BY <1>1, <2>1, NthIs
  <2>3. Nth(str, d, n) = g[i]
    <3>1. g[i] \in Starts(str, d) /\ n = Count(str, d, g[i])
      BY <1>5, <1>9, <2>1
    <3> QED
      BY <1>1, <3>1, NthIs DEF L
  <2>4. PICK k \in i..M : IsEnd(new, d, i, k)
    BY <1>1, EndExists
  <2>5. i \in 1..M /\ k \in 1..M /\ i <= k
    BY <1>1, <1>5
  <2>6. EndOf(new, d, i) = k
    BY <1>1, <2>4, <2>5, EndIs
  <2>7. (\A x \in i..k : new[x] # d) /\ (k = M \/ new[k + 1] = d)
    BY <1>1, <2>4 DEF IsEnd
  <2>8. (i <= a /\ k <= a) \/ (~(i <= a) /\ ~(k <= a))
    <3>1. ASSUME i <= a, ~(k <= a) PROVE FALSE
      <4>1. a + 1 \in i..k /\ M > a
        BY <1>1, <2>5, <3>1
      <4> QED
        BY <1>4, <2>7, <4>1
    <3> QED
      BY <1>1, <2>5, <3>1
  <2>9. /\ g[i] \in 1..L /\ g[k] \in g[i]..L /\ g[k] - g[i] = k - i
        /\ \A x \in i..k : x \in 1..M /\ g[x] = g[i] + (x - i)
    <3>1. g[i] \in 1..L /\ g[k] \in 1..L /\ g[i] <= g[k]
      BY <1>2, <2>5
    <3>2. \A x \in i..k : x \in 1..M
      BY <1>1, <2>5
    <3>3. CASE i <= a /\ k <= a
      <4>1. g[i] = i /\ g[k] = k /\ \A x \in i..k : g[x] = x
        <5>1. \A x \in i..k : x \in 1..M /\ x <= a
          BY <1>1, <2>5, <3>2, <3>3
        <5> QED
          BY <1>2, <2>5, <3>3, <5>1
      <4>2. \A x \in i..k : x = i + (x - i)
        BY <1>1, <2>5
      <4> QED
        BY <1>1, <2>5, <3>1, <3>2, <4>1, <4>2
    <3>4. CASE ~(i <= a) /\ ~(k <= a)
      <4>1. g[i] = i + c /\ g[k] = k + c /\ \A x \in i..k : g[x] = x + c
        <5>1. \A x \in i..k : x \in 1..M /\ ~(x <= a)
          BY <1>1, <2>5, <3>2, <3>4
        <5> QED
          BY <1>2, <2>5, <3>4, <5>1
      <4>2. \A x \in i..k : x + c = (i + c) + (x - i)
        BY <1>1, <2>5
      <4> QED
        BY <1>1, <2>5, <3>1, <3>2, <4>1, <4>2
    <3> QED
      BY <2>8, <3>3, <3>4
  <2>10. IsEnd(str, d, g[i], g[k])
    <3>1. ASSUME NEW y \in g[i]..g[k] PROVE str[y] # d
      <4> DEFINE x == i + (y - g[i])
      <4>1. x \in i..k /\ g[i] + (x - i) = y
        <5> DEFINE u == g[i]
                   w == g[k]
        <5>1. u \in Int /\ w \in Int /\ w - u = k - i /\ y \in u..w
          BY <2>9
        <5> HIDE DEF u, w
        <5>2. i + (y - u) \in i..k /\ u + ((i + (y - u)) - i) = y
          BY <1>1, <2>5, <5>1
        <5> QED
          BY <5>2 DEF u
      <4> HIDE DEF x
      <4>2. x \in 1..M /\ g[x] = y
        BY <2>9, <4>1
      <4> QED
        BY <1>1, <2>7, <4>1, <4>2
    <3>2. g[k] = L \/ str[g[k] + 1] = d
      <4>1. CASE k <= a
        <5>1. g[k] = k
          BY <1>2, <2>5, <4>1
        <5>2. CASE k = a
          <6>1. a + 1 \in a + 1..e
            BY <1>1
          <6> QED
            BY <1>3, <5>1, <5>2, <6>1
        <5>3. CASE k # a
          <6>1. k + 1 \in 1..M /\ k + 1 <= a /\ k # M
            BY <1>1, <2>5, <4>1, <5>3
          <6>2. g[k + 1] = k + 1
            BY <1>2, <6>1
          <6> QED
            BY <1>1, <2>7, <5>1, <6>1, <6>2
        <5> QED
          BY <5>2, <5>3
      <4>2. CASE ~(k <= a)
        <5>1. g[k] = k + c
          BY <1>2, <2>5, <4>2
        <5>2. CASE k = M
          BY <1>1, <5>1, <5>2 DEF M
        <5>3. CASE k # M
          <6>1. k + 1 \in 1..M /\ ~(k + 1 <= a) /\ k + 1 + c = k + c + 1
            BY <1>1, <2>5, <4>2, <5>3
          <6>2. g[k + 1] = g[k] + 1
            BY <1>2, <5>1, <6>1
          <6> QED
            BY <1>1, <2>7, <5>3, <6>1, <6>2
        <5> QED
          BY <5>2, <5>3
      <4> QED
        BY <4>1, <4>2
    <3> QED
      BY <3>1, <3>2 DEF IsEnd, L
  <2>11. EndOf(str, d, g[i]) = g[k]
    BY <1>1, <2>9, <2>10, EndIs DEF L
  <2>12. SubSeq(new, i, k) = SubSeq(str, g[i], g[k])
    <3>1. /\ SubSeq(new, i, k) \in Seq(A) /\ Len(SubSeq(new, i, k)) = k - i + 1
          /\ \A x \in 1..k - i + 1 : SubSeq(new, i, k)[x] = new[i + x - 1]
      <4>1. i \in Int /\ k \in Int /\ i <= k /\ \A x \in i..k : new[x] \in A
        BY <1>1, <2>5, ElementOfSeq
      <4> QED
        BY <4>1, SubSeqProperties
    <3>2. /\ SubSeq(str, g[i], g[k]) \in Seq(A)
          /\ Len(SubSeq(str, g[i], g[k])) = k - i + 1
          /\ \A x \in 1..k - i + 1 : SubSeq(str, g[i], g[k])[x] = str[g[i] + x - 1]
      <4>1. /\ g[i] \in Int /\ g[k] \in Int /\ g[i] <= g[k] /\ g[k] - g[i] + 1 = k - i + 1
        BY <1>1, <2>5, <2>9
      <4>2. \A x \in g[i]..g[k] : str[x] \in A
        <5>1. \A x \in g[i]..g[k] : x \in 1..Len(str)
          BY <1>1, <2>9 DEF L
        <5> QED
          BY <5>1, ElementOfSeq
      <4> DEFINE u == g[i]
                 v == g[k]
      <4>3. u \in Int /\ v \in Int /\ u <= v /\ v - u + 1 = k - i + 1 /\ \A x \in u..v : str[x] \in A
        BY <4>1, <4>2
      <4> HIDE DEF u, v
      <4>4. /\ SubSeq(str, u, v) \in Seq(A)
            /\ Len(SubSeq(str, u, v)) = IF u <= v THEN v - u + 1 ELSE 0
            /\ \A x \in 1..v - u + 1 : SubSeq(str, u, v)[x] = str[u + x - 1]
        BY <4>3, SubSeqProperties
      <4>5. /\ SubSeq(str, u, v) \in Seq(A)
            /\ Len(SubSeq(str, u, v)) = k - i + 1
            /\ \A x \in 1..k - i + 1 : SubSeq(str, u, v)[x] = str[u + x - 1]
        BY <4>3, <4>4
      <4> QED
        BY <4>5 DEF u, v
    <3>3. ASSUME NEW x \in 1..k - i + 1 PROVE new[i + x - 1] = str[g[i] + x - 1]
      <4>1. i + x - 1 \in i..k /\ g[i] + ((i + x - 1) - i) = g[i] + x - 1
        BY <1>1, <2>5, <2>9
      <4>2. i + x - 1 \in 1..M /\ g[i + x - 1] = g[i] + x - 1
        BY <2>9, <4>1
      <4> QED
        BY <1>1, <4>2
    <3> DEFINE x == SubSeq(new, i, k)
               y == SubSeq(str, g[i], g[k])
    <3>4. /\ x \in Seq(A) /\ y \in Seq(A) /\ Len(x) = Len(y)
          /\ \A n_ \in 1..Len(x) : x[n_] = y[n_]
      BY <3>1, <3>2, <3>3
    <3> HIDE DEF x, y
    <3>5. x = y
      BY <3>4, SeqEqual
    <3> QED
      BY <3>5 DEF x, y
  <2>13. WordsOf(new, d)[n] = SubSeq(new, i, k)
    BY <2>2, <2>6 DEF WordsOf
  <2>14. WordsOf(str, d)[n] = SubSeq(str, g[i], g[k])
    BY <1>8, <2>3, <2>11 DEF WordsOf
  <2> QED
    BY <2>12, <2>13, <2>14
<1>11. /\ WordsOf(new, d) \in Seq(Seq(A)) /\ WordsOf(str, d) \in Seq(Seq(A))
       /\ Len(WordsOf(new, d)) = Cardinality(Starts(new, d))
       /\ Len(WordsOf(str, d)) = Cardinality(Starts(new, d))
  BY <1>1, <1>8, WordsType
<1> QED
  BY <1>10, <1>11, SeqEqual DEF new

-----------------------------------------------------------------------------
(* Least and greatest numbers, chosen; parts of strings; string_strip.      *)

LEMMA LeastIs ==
    ASSUME NEW T, T \subseteq Nat, NEW x \in T, \A y \in T : x <= y
    PROVE  (CHOOSE i \in T : \A k \in T : i <= k) = x
<1>1. ASSUME NEW i \in T, \A k \in T : i <= k PROVE i = x
  <2>1. i <= x /\ x <= i /\ i \in Nat /\ x \in Nat
    BY <1>1
  <2> QED
    BY <2>1
<1> QED
  BY <1>1

LEMMA GreatestIs ==
    ASSUME NEW T, T \subseteq Nat, NEW x \in T, \A y \in T : y <= x
    PROVE  (CHOOSE i \in T : \A k \in T : k <= i) = x
<1>1. ASSUME NEW i \in T, \A k \in T : k <= i PROVE i = x
  <2>1. i <= x /\ x <= i /\ i \in Nat /\ x \in Nat
    BY <1>1
  <2> QED
    BY <2>1
<1> QED
  BY <1>1

LEMMA Bounds == InitBuffer \in Nat /\ MaxLen \in Nat /\ MaxOver \in Nat /\ Delims \subseteq Blank
BY BoundsAssumption, AlphabetAssumption

LEMMA InputsAre ==
    ASSUME NEW x
    PROVE  x \in Inputs <=> x \in Seq(Alphabet) /\ Len(x) <= MaxLen
<1>1. ASSUME x \in Inputs PROVE x \in Seq(Alphabet) /\ Len(x) <= MaxLen
  <2>1. PICK n \in 0..MaxLen : x \in [1..n -> Alphabet]
    BY <1>1 DEF Inputs
  <2>2. n \in Nat
    BY <2>1, Bounds
  <2> QED
    BY <2>1, <2>2, Bounds
<1>2. ASSUME x \in Seq(Alphabet), Len(x) <= MaxLen PROVE x \in Inputs
  <2>1. Len(x) \in Nat /\ x \in [1..Len(x) -> Alphabet]
    BY <1>2, LenProperties
  <2>2. Len(x) \in 0..MaxLen
    BY <1>2, <2>1, Bounds
  <2> QED
    BY <2>1, <2>2 DEF Inputs
<1> QED
  BY <1>1, <1>2

LEMMA PartOf ==
    ASSUME NEW x \in Inputs, NEW i \in 0..Len(x), NEW k \in i..Len(x)
    PROVE  /\ From(x, i, k) \in Inputs /\ Len(From(x, i, k)) = k - i
           /\ \A n \in 1..k - i : From(x, i, k)[n] = x[i + n]
<1>1. x \in Seq(Alphabet) /\ Len(x) <= MaxLen
  BY InputsAre
<1>2. /\ Len(x) \in Nat /\ i \in Nat /\ k \in Nat /\ i <= k /\ k <= Len(x)
      /\ \A n \in 1..Len(x) : x[n] \in Alphabet
  BY <1>1, LenProperties, ElementOfSeq
<1>3. i + 1 \in Int /\ k \in Int /\ \A n \in i + 1..k : x[n] \in Alphabet
  BY <1>2
<1>4. /\ SubSeq(x, i + 1, k) \in Seq(Alphabet)
      /\ Len(SubSeq(x, i + 1, k)) = IF i + 1 <= k THEN k - (i + 1) + 1 ELSE 0
      /\ \A n \in 1..k - (i + 1) + 1 : SubSeq(x, i + 1, k)[n] = x[i + 1 + n - 1]
  BY <1>3, SubSeqProperties
<1>5. /\ k - (i + 1) + 1 = k - i /\ (i + 1 <= k \/ k - i = 0) /\ k - i <= MaxLen
      /\ \A n \in 1..k - i : i + 1 + n - 1 = i + n
  BY <1>1, <1>2, Bounds
<1>6. /\ From(x, i, k) \in Seq(Alphabet) /\ Len(From(x, i, k)) = k - i
      /\ \A n \in 1..k - i : From(x, i, k)[n] = x[i + n]
  BY <1>4, <1>5 DEF From
<1> QED
  BY <1>5, <1>6, InputsAre

\* string_strip takes what Trim takes.
LEMMA StripIsTrim ==
    ASSUME NEW x \in Inputs, Len(x) >= 3
    PROVE  Strip(x) = Trim(x, Dict) /\ Strip(x) \in Inputs
<1> DEFINE L == Len(x)
           kept == {i \in 1..L : x[i] \notin Dict}
           last == {0} \cup {i \in 0..L - 1 : x[i + 1] \notin Dict}
           Right(n) == From(x, 0, 1 + n)
           First(r) == {i \in 0..Len(r) : i = Len(r) \/ x[i + 1] \notin Dict}
<1>1. L \in Nat /\ L >= 3 /\ x \in Seq(Alphabet)
  BY InputsAre, LenProperties
<1>2. ASSUME NEW n, NEW k,
             n = CHOOSE i \in last : \A y \in last : y <= i,
             k = CHOOSE i \in First(Right(n)) : \A y \in First(Right(n)) : i <= y
      PROVE  Strip(x) = From(Right(n), k, Len(Right(n)))
  BY <1>2 DEF Strip
<1>3. CASE kept = {}
  <2>1. \A i \in 1..L : x[i] \in Dict
    BY <1>3
  <2>2. last = {0}
    <3>1. \A i \in 0..L - 1 : i + 1 \in 1..L
      BY <1>1
    <3> QED
      BY <2>1, <3>1
  <2>3. (CHOOSE i \in last : \A y \in last : y <= i) = 0
    BY <2>2, GreatestIs
  <2> DEFINE r == Right(0)
  <2>4. r \in Inputs /\ Len(r) = 1
    <3> DEFINE e == 1 + 0
    <3>1. 0 \in 0..Len(x) /\ e \in 0..Len(x) /\ e - 0 = 1
      BY <1>1
    <3> HIDE DEF e
    <3>2. From(x, 0, e) \in Inputs /\ Len(From(x, 0, e)) = e - 0
      BY <3>1, PartOf
    <3> QED
      BY <3>1, <3>2 DEF e
  <2>5. First(r) = {1}
    <3>1. x[0 + 1] \in Dict
      BY <1>1, <2>1
    <3>2. 0..1 = {0, 1}
      OBVIOUS
    <3> HIDE DEF r
    <3> QED
      BY <2>4, <3>1, <3>2
  <2>6. (CHOOSE i \in First(r) : \A y \in First(r) : i <= y) = 1
    <3> DEFINE F == First(r)
    <3>0. F = {1}
      BY <2>5
    <3> HIDE DEF F
    <3>1. F \subseteq Nat /\ 1 \in F /\ \A y \in F : 1 <= y
      BY <3>0
    <3>2. (CHOOSE i \in F : \A y \in F : i <= y) = 1
      BY <3>1, LeastIs
    <3> QED
      BY <3>2 DEF F
  <2>7. Strip(x) = From(r, 1, Len(r))
    BY <1>2, <2>3, <2>6
  <2>8. From(r, 1, 1) = <<>>
    BY SubSeqEmpty DEF From
  <2>9. Trim(x, Dict) = <<>>
    BY <1>3 DEF Trim
  <2>10. <<>> \in Inputs
    <3>1. <<>> \in Seq(Alphabet) /\ Len(<<>>) = 0 /\ 0 <= MaxLen
      BY EmptySeq, Bounds
    <3> QED
      BY <3>1, InputsAre
  <2> QED
    BY <2>4, <2>7, <2>8, <2>9, <2>10
<1>4. CASE kept # {}
  <2>1. kept \subseteq Nat /\ \A i \in kept : i <= L
    BY <1>1
  <2> HIDE DEF kept
  <2>2. PICK a \in kept : \A y \in kept : a <= y
    BY <1>4, <2>1, LeastNumber
  <2>3. PICK b \in kept : \A y \in kept : y <= b
    BY <1>1, <1>4, <2>1, GreatestNumber
  <2>4. /\ a \in 1..L /\ b \in 1..L /\ a <= b /\ x[a] \notin Dict /\ x[b] \notin Dict
        /\ a - 1 + 1 = a /\ b - 1 + 1 = b
    BY <2>2, <2>3 DEF kept
  <2>5. Trim(x, Dict) = SubSeq(x, a, b)
    <3>1. (CHOOSE i \in kept : \A k \in kept : i <= k) = a
      BY <2>1, <2>2, LeastIs
    <3>2. (CHOOSE i \in kept : \A k \in kept : k <= i) = b
      BY <2>1, <2>3, GreatestIs
    <3> QED
      BY <1>4, <3>1, <3>2 DEF Trim, kept
  <2>6. (CHOOSE i \in last : \A y \in last : y <= i) = b - 1
    <3>1. last \subseteq Nat /\ b - 1 \in last
      <4>1. b - 1 \in 0..L - 1
        BY <2>4
      <4> QED
        BY <1>1, <2>4, <4>1
    <3>2. ASSUME NEW y \in last PROVE y <= b - 1
      <4>1. CASE y = 0
        BY <2>4, <4>1
      <4>2. CASE y # 0
        <5>1. y \in 0..L - 1 /\ y + 1 \in kept
          BY <1>1, <4>2 DEF kept
        <5>2. y + 1 <= b
          BY <2>3, <5>1
        <5> QED
          BY <2>4, <5>1, <5>2
      <4> QED
        BY <4>1, <4>2
    <3> HIDE DEF last
    <3> QED
      BY <3>1, <3>2, GreatestIs
  <2> DEFINE r == Right(b - 1)
  <2>7. /\ r \in Inputs /\ Len(r) = b
        /\ \A n \in 1..b : r[n] = x[n]
    <3> DEFINE e == 1 + (b - 1)
    <3>1. /\ 0 \in 0..Len(x) /\ e \in 0..Len(x) /\ e - 0 = b
          /\ \A n \in 1..b : 0 + n = n
      BY <1>1, <2>4
    <3> HIDE DEF e
    <3>2. /\ From(x, 0, e) \in Inputs /\ Len(From(x, 0, e)) = e - 0
          /\ \A n \in 1..e - 0 : From(x, 0, e)[n] = x[0 + n]
      BY <3>1, PartOf
    <3> QED
      BY <3>1, <3>2 DEF e
  <2>8. (CHOOSE i \in First(r) : \A y \in First(r) : i <= y) = a - 1
    <3>1. First(r) \subseteq Nat /\ a - 1 \in First(r)
      <4>1. a - 1 \in 0..b
        BY <2>4
      <4> HIDE DEF r
      <4> QED
        BY <2>4, <2>7, <4>1
    <3>2. ASSUME NEW y \in First(r) PROVE a - 1 <= y
      <4>1. y \in 0..b /\ (y = b \/ x[y + 1] \notin Dict)
        BY <2>7
      <4>2. CASE y = b
        BY <2>4, <4>2
      <4>3. CASE y # b
        <5>1. y + 1 \in kept
          <6>1. y + 1 \in 1..L
            BY <1>1, <2>4, <4>1, <4>3
          <6> QED
            BY <4>1, <4>3, <6>1 DEF kept
        <5>2. a <= y + 1
          BY <2>2, <5>1
        <5> QED
          BY <2>4, <4>1, <5>2
      <4> QED
        BY <4>2, <4>3
    <3> DEFINE F == First(r)
    <3>3. F \subseteq Nat /\ a - 1 \in F /\ \A y \in F : a - 1 <= y
      BY <3>1, <3>2
    <3> HIDE DEF F
    <3>4. (CHOOSE i \in F : \A y \in F : i <= y) = a - 1
      BY <3>3, LeastIs
    <3> QED
      BY <3>4 DEF F
  <2>9. Strip(x) = From(r, a - 1, Len(r))
    BY <1>2, <2>6, <2>8
  <2>10. /\ From(r, a - 1, b) \in Inputs /\ Len(From(r, a - 1, b)) = b - (a - 1)
         /\ \A n \in 1..b - (a - 1) : From(r, a - 1, b)[n] = r[a - 1 + n]
    <3>1. a - 1 \in 0..Len(r) /\ b \in a - 1..Len(r)
      BY <2>4, <2>7
    <3> HIDE DEF r
    <3> QED
      BY <2>7, <3>1, PartOf
  <2>11. /\ From(x, a - 1, b) \in Inputs /\ Len(From(x, a - 1, b)) = b - (a - 1)
         /\ \A n \in 1..b - (a - 1) : From(x, a - 1, b)[n] = x[a - 1 + n]
    <3>1. a - 1 \in 0..Len(x) /\ b \in a - 1..Len(x)
      BY <2>4
    <3> QED
      BY <3>1, PartOf
  <2>12. \A n \in 1..b - (a - 1) : r[a - 1 + n] = x[a - 1 + n]
    <3>1. \A n \in 1..b - (a - 1) : a - 1 + n \in 1..b
      BY <2>4
    <3> QED
      BY <2>7, <3>1
  <2> HIDE DEF r
  <2> DEFINE y == From(r, a - 1, b)
             z == From(x, a - 1, b)
  <2>13. y \in Seq(Alphabet) /\ z \in Seq(Alphabet)
    BY <2>10, <2>11, InputsAre
  <2>14. Len(y) = Len(z) /\ \A n \in 1..Len(y) : y[n] = z[n]
    BY <2>10, <2>11, <2>12
  <2> HIDE DEF y, z
  <2>15. y = z
    BY <2>13, <2>14, SeqEqual
  <2>16. From(x, a - 1, b) = SubSeq(x, a, b)
    BY <2>4 DEF From
  <2> QED
    BY <2>5, <2>7, <2>9, <2>10, <2>15, <2>16 DEF y, z
<1> QED
  BY <1>3, <1>4

-----------------------------------------------------------------------------
(* The steps of string_split.                                               *)

LEMMA WordsAre == ASSUME NEW str PROVE Words(str) = WordsOf(str, delm)
BY DEF Words, WordsOf, Nth, EndOf, IsEnd, Count, Before, Starts

LEMMA Types ==
    ASSUME TypeOK
    PROVE  /\ input \in Seq(Alphabet) /\ Len(input) \in Nat /\ Len(input) <= MaxLen
           /\ s \in Seq(Alphabet) /\ Size \in Nat /\ Size <= MaxLen
           /\ s \in Inputs /\ input \in Inputs
           /\ delm \in Delims /\ delm \in Blank
           /\ j \in Nat /\ cb \in Nat /\ ccur \in Nat
<1>1. s \in Inputs /\ input \in Inputs /\ delm \in Delims
  BY DEF TypeOK
<1>2. /\ input \in Seq(Alphabet) /\ Len(input) <= MaxLen
      /\ s \in Seq(Alphabet) /\ Len(s) <= MaxLen
  BY <1>1, InputsAre
<1>3. j \in Nat /\ cb \in Nat /\ ccur \in Nat
  BY Bounds DEF TypeOK
<1>4. Len(input) \in Nat /\ Len(s) \in Nat
  BY <1>2, LenProperties
<1> QED
  BY <1>1, <1>2, <1>3, <1>4, Bounds DEF Size

\* The text does not change under way.
LEMMA SameText ==
    ASSUME UNCHANGED <<input, delm>>
    PROVE  TrimmedInput' = TrimmedInput /\ (Short' <=> Short)
<1>1. TrimmedInput' = TrimmedInput
  BY DEF TrimmedInput
<1> QED
  BY <1>1 DEF Short

LEMMA InitStep == Init => IInv
<1> SUFFICES ASSUME Init PROVE IInv
  OBVIOUS
<1>1. TypeOK
  <2>1. Rooms(input) \subseteq 0..InitBuffer
    BY Bounds DEF Rooms
  <2> QED
    BY <2>1, Bounds DEF Init, TypeOK
<1>2. SplitInv /\ StripTrims /\ SplitGivesWords /\ OverreadOnlyShort
  BY DEF Init, SplitInv, StripTrims, SplitGivesWords, OverreadOnlyShort
<1> QED
  BY <1>1, <1>2 DEF IInv

LEMMA CallStripStep == ASSUME IInv, CallStrip PROVE IInv'
<1>1. /\ pc = "called" /\ pc' = "stripped" /\ s = input
      /\ UNCHANGED <<input, delm, j, cb, ccur, tokens>>
  BY DEF CallStrip, Goto, IInv, SplitInv
<1>2. TypeOK /\ Size = Len(s) /\ s \in Inputs /\ Size \in Nat
  BY Types DEF IInv, Size
<1>3. /\ s' \in Inputs /\ room' \in 0..InitBuffer
      /\ s' = IF Len(input) < 3 THEN input ELSE Trim(input, Dict)
  <2>1. CASE Size < 3 /\ UNCHANGED <<s, room>>
    BY <1>1, <1>2, <2>1 DEF TypeOK
  <2>2. CASE Size >= 3 /\ s' = Strip(s) /\ room' = 0
    <3>1. Strip(input) = Trim(input, Dict) /\ Strip(input) \in Inputs /\ ~(Len(input) < 3)
      BY <1>1, <1>2, <2>2, StripIsTrim
    <3> QED
      BY <1>1, <2>2, <3>1, Bounds
  <2> QED
    BY <2>1, <2>2 DEF CallStrip
<1>4. TypeOK'
  BY <1>1, <1>2, <1>3 DEF TypeOK
<1>5. StripTrims'
  BY <1>1, <1>3 DEF StripTrims, Dict
<1>6. SplitInv' /\ SplitGivesWords' /\ OverreadOnlyShort'
  BY <1>1 DEF SplitInv, SplitGivesWords, OverreadOnlyShort
<1> QED
  BY <1>4, <1>5, <1>6 DEF IInv

LEMMA CallSplitStep == ASSUME IInv, CallSplit PROVE IInv'
<1>1. /\ pc = "called" /\ pc' = (IF Size = 0 THEN "refused" ELSE "rstrip") /\ s = input
      /\ UNCHANGED <<input, delm, s, room, j, cb, ccur, tokens>>
      /\ cb = 0 /\ ccur = 0 /\ j = 0
  BY DEF CallSplit, Goto, IInv, SplitInv
<1>2. TypeOK /\ Size = Len(s) /\ s \in Seq(Alphabet) /\ Size \in Nat
  BY Types DEF IInv, Size
<1>3. TypeOK'
  BY <1>1, <1>2 DEF TypeOK
<1>4. pc' = "rstrip" => PoppedInv'
  <2>1. SubSeq(s, 1, Len(s)) = s
    BY <1>2, SubSeqFull
  <2>2. pc' = "rstrip" => s # <<>>
    BY <1>1, <1>2, EmptySeq
  <2>3. Size + 1..Len(input) = {}
    BY <1>1, <1>2
  <2> QED
    BY <1>1, <1>2, <2>1, <2>2, <2>3 DEF PoppedInv, Size
<1>5. SplitInv'
  BY <1>1, <1>4 DEF SplitInv
<1>6. StripTrims' /\ SplitGivesWords' /\ OverreadOnlyShort'
  BY <1>1 DEF StripTrims, SplitGivesWords, OverreadOnlyShort
<1> QED
  BY <1>3, <1>5, <1>6 DEF IInv

LEMMA PopBlankStep == ASSUME IInv, PopBlank PROVE IInv'
<1> DEFINE n == Size - 1
<1>1. /\ pc = "rstrip" /\ pc' = "rstrip" /\ Size > 2 /\ Byte(Size - 1) \in Blank
      /\ s' = From(s, 0, n) /\ room' = 0
      /\ UNCHANGED <<input, delm, j, cb, ccur, tokens>>
      /\ cb = 0 /\ ccur = 0 /\ j = 0 /\ PoppedInv
  BY DEF PopBlank, Goto, IInv, SplitInv
<1>2. /\ TypeOK /\ Size = Len(s) /\ s \in Inputs /\ Size \in Nat
      /\ input \in Inputs /\ input \in Seq(Alphabet) /\ Len(input) \in Nat /\ Size <= Len(input)
  BY <1>1, Types DEF IInv, Size, PoppedInv
<1>3. n \in Nat /\ n >= 2 /\ n + 1 = Size /\ n <= Len(input) /\ 0 + 1 = 1 /\ n - 0 = n
  BY <1>1, <1>2
<1> HIDE DEF n
<1>4. s' \in Inputs /\ Len(s') = n /\ \A k \in 1..n : s'[k] = s[k]
  <2>1. 0 \in 0..Len(s) /\ n \in 0..Len(s) /\ \A k \in 1..n : 0 + k = k
    BY <1>2, <1>3
  <2>2. /\ From(s, 0, n) \in Inputs /\ Len(From(s, 0, n)) = n - 0
        /\ \A k \in 1..n - 0 : From(s, 0, n)[k] = s[0 + k]
    BY <1>2, <2>1, PartOf
  <2> QED
    BY <1>1, <1>3, <2>1, <2>2
<1>5. \A k \in 1..Size : s[k] = input[k]
  <2>1. 0 \in 0..Len(input) /\ Size \in 0..Len(input) /\ \A k \in 1..Size : 0 + k = k
    BY <1>2
  <2>2. \A k \in 1..Size - 0 : From(input, 0, Size)[k] = input[0 + k]
    BY <1>2, <2>1, PartOf
  <2>3. s = From(input, 0, Size) /\ Size - 0 = Size
    BY <1>1, <1>2, <1>3 DEF PoppedInv, From
  <2> QED
    BY <2>1, <2>2, <2>3
<1>6. s' = SubSeq(input, 1, n)
  <2>1. 0 \in 0..Len(input) /\ n \in 0..Len(input) /\ \A k \in 1..n : 0 + k = k /\ k \in 1..Size
    BY <1>2, <1>3
  <2> DEFINE x == From(input, 0, n)
  <2>2. /\ x \in Inputs /\ Len(x) = n - 0
        /\ \A k \in 1..n - 0 : x[k] = input[0 + k]
    BY <1>2, <2>1, PartOf
  <2>3. x = SubSeq(input, 1, n)
    BY <1>3 DEF From
  <2> HIDE DEF x
  <2>4. s' \in Seq(Alphabet) /\ x \in Seq(Alphabet)
    BY <1>4, <2>2, InputsAre
  <2>5. Len(s') = Len(x) /\ \A k \in 1..Len(s') : s'[k] = x[k]
    BY <1>3, <1>4, <1>5, <2>1, <2>2
  <2>6. s' = x
    BY <2>4, <2>5, SeqEqual
  <2> QED
    BY <2>3, <2>6
<1>7. PoppedInv'
  <2>1. \A k \in n + 1..Len(input) : k > 2 /\ input[k] \in Blank
    <3>1. ASSUME NEW k \in n + 1..Len(input) PROVE k > 2 /\ input[k] \in Blank
      <4>1. CASE k = Size
        <5>1. Byte(Size - 1) = s[Size - 1 + 1] /\ Size - 1 + 1 = Size /\ Size \in 1..Size
          BY <1>2, <1>3 DEF Byte
        <5> QED
          BY <1>1, <1>5, <4>1, <5>1
      <4>2. CASE k # Size
        <5>1. k \in Size + 1..Len(input)
          BY <1>2, <1>3, <4>2
        <5> QED
          BY <1>1, <5>1 DEF PoppedInv
      <4> QED
        BY <4>1, <4>2
    <3> QED
      BY <3>1
  <2>2. s' # <<>>
    BY <1>3, <1>4, EmptySeq
  <2> QED
    BY <1>1, <1>3, <1>4, <1>6, <2>1, <2>2 DEF PoppedInv, Size
<1>8. TypeOK'
  BY <1>1, <1>2, <1>4, Bounds DEF TypeOK
<1>9. SplitInv'
  BY <1>1, <1>7 DEF SplitInv
<1>10. StripTrims' /\ SplitGivesWords' /\ OverreadOnlyShort'
  BY <1>1 DEF StripTrims, SplitGivesWords, OverreadOnlyShort
<1> QED
  BY <1>8, <1>9, <1>10 DEF IInv

\* What is left after the blanks are popped is TrimmedInput.
LEMMA TrimmedStep == ASSUME IInv, Trimmed PROVE IInv'
<1>1. /\ pc = "rstrip" /\ pc' = "dedup" /\ (Size <= 2 \/ Byte(Size - 1) \notin Blank)
      /\ UNCHANGED <<input, delm, s, room, j, cb, ccur, tokens>>
      /\ cb = 0 /\ ccur = 0 /\ j = 0 /\ PoppedInv
  BY DEF Trimmed, Goto, IInv, SplitInv
<1>2. /\ TypeOK /\ Size = Len(s) /\ s \in Seq(Alphabet) /\ Size \in Nat
      /\ input \in Inputs /\ Len(input) \in Nat /\ Size <= Len(input) /\ s # <<>>
      /\ delm \in Blank /\ s = SubSeq(input, 1, Size)
  BY <1>1, Types DEF IInv, Size, PoppedInv
<1>3. Size \in Nat \ {0} /\ Size - 1 + 1 = Size
  BY <1>2, EmptySeq
<1>4. s[Size] = input[Size]
  <2>1. 0 \in 0..Len(input) /\ Size \in 0..Len(input) /\ 0 + Size = Size /\ Size \in 1..Size - 0
    BY <1>2, <1>3
  <2>2. From(input, 0, Size)[Size] = input[0 + Size]
    BY <1>2, <2>1, PartOf
  <2>3. s = From(input, 0, Size)
    <3>1. 0 + 1 = 1
      OBVIOUS
    <3> QED
      BY <1>2, <3>1 DEF From
  <2> QED
    BY <2>1, <2>2, <2>3
<1>5. Byte(Size - 1) = s[Size]
  BY <1>3 DEF Byte
<1>6. TrimmedInput = s
  <2> DEFINE ends == {n \in 0..Len(input) : n <= 2 \/ input[n] \notin Blank}
  <2>1. ends \subseteq Nat /\ Size \in ends
    BY <1>1, <1>2, <1>4, <1>5
  <2>2. ASSUME NEW n \in ends PROVE n <= Size
    <3>1. n \notin Size + 1..Len(input)
      BY <1>1, <2>2 DEF PoppedInv
    <3> QED
      BY <1>2, <3>1
  <2>3. (CHOOSE n \in ends : \A k \in ends : k <= n) = Size
    <3> HIDE DEF ends
    <3> QED
      BY <2>1, <2>2, GreatestIs
  <2> QED
    BY <1>2, <2>3 DEF TrimmedInput
<1>7. ReducedInv
  <2>1. Leading(s, delm) <=> TrimmedInput[1] = delm
    BY <1>2, <1>6 DEF Leading
  <2>2. s[Size] = delm => Short
    <3>1. ASSUME s[Size] = delm PROVE Short
      <4>1. Size <= 2
        BY <1>1, <1>2, <1>5, <3>1
      <4>2. Size \in 1..2
        BY <1>3, <4>1
      <4>3. Len(TrimmedInput) = Size
        BY <1>2, <1>6
      <4> QED
        BY <1>6, <3>1, <4>2, <4>3 DEF Short
    <3> QED
      BY <3>1
  <2> QED
    BY <1>6, <2>1, <2>2 DEF ReducedInv
<1>8. ReducedInv'
  <2>1. TrimmedInput' = TrimmedInput /\ (Short' <=> Short)
    BY <1>1, SameText
  <2> QED
    BY <1>1, <1>7, <2>1 DEF ReducedInv, Size
<1>9. NoRun(j)'
  <2>1. 1..j' = {}
    BY <1>1
  <2> QED
    BY <2>1 DEF NoRun
<1>10. TypeOK'
  BY <1>1, <1>2 DEF TypeOK
<1>11. SplitInv'
  BY <1>1, <1>8, <1>9 DEF SplitInv
<1>12. StripTrims' /\ SplitGivesWords' /\ OverreadOnlyShort'
  BY <1>1 DEF StripTrims, SplitGivesWords, OverreadOnlyShort
<1> QED
  BY <1>10, <1>11, <1>12 DEF IInv

\* The end of a run, and what the run is.
LEMMA RunEndIs ==
    ASSUME TypeOK, j < Size, Byte(j) = delm
    PROVE  /\ RunEnd \in j + 1..Size
           /\ RunEnd = Size \/ s[RunEnd + 1] # delm
           /\ \A k \in j + 1..RunEnd : s[k] = delm
<1> DEFINE ends == {e \in j + 1..Size : e = Size \/ Byte(e) # delm}
<1>1. j \in Nat /\ Size \in Nat
  BY Types
<1>2. ends \subseteq Nat /\ Size \in ends
  BY <1>1
<1>3. PICK e \in ends : \A y \in ends : e <= y
  <2> HIDE DEF ends
  <2> QED
    BY <1>2, LeastNumber
<1>4. RunEnd = e
  <2>1. (CHOOSE x \in ends : \A y \in ends : x <= y) = e
    <3> HIDE DEF ends
    <3> QED
      BY <1>2, <1>3, LeastIs
  <2> QED
    BY <2>1 DEF RunEnd
<1>5. e \in j + 1..Size /\ (e = Size \/ s[e + 1] # delm)
  BY <1>3 DEF Byte
<1>6. ASSUME NEW k \in j + 1..e PROVE s[k] = delm
  <2>1. CASE k = j + 1
    BY <2>1 DEF Byte
  <2>2. CASE k # j + 1
    <3>1. k - 1 \in j + 1..Size /\ k - 1 < e /\ k - 1 + 1 = k /\ k - 1 # Size
      BY <1>1, <1>5, <2>2
    <3>2. k - 1 \notin ends
      <4>1. ASSUME k - 1 \in ends PROVE FALSE
        <5>1. e <= k - 1 /\ e \in Nat /\ k - 1 \in Nat
          BY <1>1, <1>3, <1>5, <3>1, <4>1
        <5> QED
          BY <3>1, <5>1
      <4> QED
        BY <4>1
    <3>3. Byte(k - 1) = delm
      BY <3>1, <3>2
    <3> QED
      BY <3>1, <3>3 DEF Byte
  <2> QED
    BY <2>1, <2>2
<1> QED
  BY <1>4, <1>5, <1>6

LEMMA NextByteStep == ASSUME IInv, NextByte PROVE IInv'
<1>1. /\ pc = "dedup" /\ pc' = "dedup" /\ j < Size /\ j' = j + 1
      /\ Byte(j) # delm \/ RunEnd = j + 1
      /\ UNCHANGED <<input, delm, s, room, cb, ccur, tokens>>
      /\ cb = 0 /\ ccur = 0 /\ ReducedInv /\ NoRun(j)
  BY DEF NextByte, Goto, IInv, SplitInv
<1>2. TypeOK /\ j \in Nat /\ Size \in Nat /\ Size <= MaxLen /\ MaxLen \in Nat
  BY Types, Bounds DEF IInv
<1>3. ReducedInv'
  <2>1. TrimmedInput' = TrimmedInput /\ (Short' <=> Short)
    BY <1>1, SameText
  <2> QED
    BY <1>1, <2>1 DEF ReducedInv, Size
<1>4. ASSUME NEW k \in 1..j + 1, k < Size, s[k] = delm PROVE s[k + 1] # delm
  <2>1. CASE k = j + 1
    <3>1. Byte(j) = delm /\ RunEnd = j + 1 /\ RunEnd # Size
      BY <1>1, <1>2, <1>4, <2>1 DEF Byte
    <3>2. RunEnd = Size \/ s[RunEnd + 1] # delm
      BY <1>1, <1>2, <3>1, RunEndIs
    <3> QED
      BY <2>1, <3>1, <3>2
  <2>2. CASE k # j + 1
    <3>1. k \in 1..j
      BY <1>2, <2>2
    <3> QED
      BY <1>1, <1>4, <3>1 DEF NoRun
  <2> QED
    BY <2>1, <2>2
<1>5. NoRun(j)'
  BY <1>1, <1>4 DEF NoRun, Size
<1>6. TypeOK'
  <2>1. j' \in 0..MaxLen
    BY <1>1, <1>2
  <2> QED
    BY <1>1, <1>2, <2>1 DEF TypeOK
<1>7. SplitInv'
  BY <1>1, <1>3, <1>5 DEF SplitInv
<1>8. StripTrims' /\ SplitGivesWords' /\ OverreadOnlyShort'
  BY <1>1 DEF StripTrims, SplitGivesWords, OverreadOnlyShort
<1> QED
  BY <1>6, <1>7, <1>8 DEF IInv

\* Each of the three outcomes of da_remove.
LEMMA ReduceStep == ASSUME IInv, NEW over \in 0..MaxOver, Reduce(over) PROVE IInv'
<1> DEFINE end == RunEnd + over - 1
<1>1. /\ pc = "dedup" /\ j < Size /\ Byte(j) = delm /\ over \in Over /\ j' = 0 /\ end > j
      /\ UNCHANGED <<input, delm, cb, ccur, tokens>>
      /\ cb = 0 /\ ccur = 0 /\ ReducedInv
  BY DEF Reduce, Goto, IInv, SplitInv
<1>2. /\ TypeOK /\ j \in Nat /\ Size \in Nat /\ Size <= MaxLen /\ MaxLen \in Nat /\ over \in Nat
      /\ Size = Len(s) /\ s \in Seq(Alphabet) /\ s \in Inputs
  BY Types, Bounds DEF IInv, Size
<1>3. /\ RunEnd \in j + 1..Size /\ RunEnd \in Nat /\ RunEnd <= Size
      /\ \A k \in j + 1..RunEnd : s[k] = delm
  BY <1>1, <1>2, RunEndIs
<1>4. over = 0 \/ RunEnd = Size
  BY <1>1 DEF Over
<1>5. end \in Nat
  BY <1>1, <1>2, <1>3
<1>6. over # 0 => s # <<>> /\ s[Size] = delm
  <2>1. ASSUME over # 0 PROVE s # <<>> /\ s[Size] = delm
    <3>1. RunEnd = Size /\ Size \in j + 1..RunEnd /\ Size # 0
      BY <1>2, <1>3, <1>4, <2>1
    <3>2. s # <<>>
      BY <1>2, <3>1, EmptySeq
    <3> QED
      BY <1>3, <3>1, <3>2
  <2> QED
    BY <2>1
<1>7. TrimmedInput' = TrimmedInput /\ (Short' <=> Short)
  BY <1>1, SameText
<1>8. NoRun(j)'
  <2>1. 1..j' = {}
    BY <1>1
  <2> QED
    BY <2>1 DEF NoRun
<1>9. CASE end - j > Size /\ pc' = "dedup" /\ UNCHANGED <<s, room>>
  <2>1. ReducedInv'
    BY <1>1, <1>7, <1>9 DEF ReducedInv, Size
  <2>2. TypeOK'
    BY <1>1, <1>2, <1>9 DEF TypeOK
  <2>3. SplitInv'
    BY <1>1, <1>8, <1>9, <2>1 DEF SplitInv
  <2>4. StripTrims' /\ SplitGivesWords' /\ OverreadOnlyShort'
    BY <1>9 DEF StripTrims, SplitGivesWords, OverreadOnlyShort
  <2> QED
    BY <2>2, <2>3, <2>4 DEF IInv
<1>10. CASE end > Size /\ pc' = "crashed" /\ UNCHANGED <<s, room>>
  <2>1. over # 0
    BY <1>2, <1>3, <1>10
  <2>2. Short
    BY <1>1, <1>6, <2>1 DEF ReducedInv
  <2>3. TypeOK'
    BY <1>1, <1>2, <1>10 DEF TypeOK
  <2>4. SplitInv' /\ StripTrims' /\ SplitGivesWords'
    BY <1>10 DEF SplitInv, StripTrims, SplitGivesWords
  <2>5. OverreadOnlyShort'
    BY <1>7, <2>2 DEF OverreadOnlyShort
  <2> QED
    BY <2>3, <2>4, <2>5 DEF IInv
<1>11. CASE /\ end <= Size /\ pc' = "dedup"
            /\ s' = From(s, 0, j) \o From(s, end, Size) /\ room' = 0
  <2>1. /\ j \in 0..Len(s) /\ end \in j + 1..Len(s) /\ end \in j..Len(s) /\ Len(s) = Size
        /\ end <= RunEnd
    BY <1>1, <1>2, <1>3, <1>4, <1>5, <1>11
  <2>2. s' = Without(s, j, end)
    <3>1. 0 + 1 = 1
      OBVIOUS
    <3> QED
      BY <1>2, <1>11, <3>1 DEF Without, From
  <2>3. \A k \in j + 1..end : s[k] = delm
    <3>1. \A k \in j + 1..end : k \in j + 1..RunEnd
      BY <1>2, <1>3, <1>5, <2>1
    <3> QED
      BY <1>3, <3>1
  <2>4. end < Size => over = 0 /\ s[end + 1] = delm
    <3>1. ASSUME end < Size PROVE over = 0 /\ s[end + 1] = delm
      <4>1. over = 0 /\ end + 1 \in j + 1..RunEnd
        BY <1>1, <1>2, <1>3, <1>4, <1>5, <3>1
      <4> QED
        BY <1>3, <4>1
    <3> QED
      BY <3>1
  <2>5. end = Len(s) \/ s[end + 1] = delm
    BY <1>2, <1>5, <1>11, <2>4
  <2> HIDE DEF end
  <2>6. /\ s' \in Seq(Alphabet) /\ Len(s') = Size - (end - j)
        /\ \A i \in 1..Size - (end - j) : s'[i] = s[Was(i, j, end)]
    <3>1. /\ Without(s, j, end) \in Seq(Alphabet)
          /\ Len(Without(s, j, end)) = Len(s) - (end - j)
          /\ \A i \in 1..Len(s) - (end - j) : Without(s, j, end)[i] = s[Was(i, j, end)]
      <4>1. s \in Seq(Alphabet) /\ j \in 0..Len(s) /\ end \in j..Len(s)
        BY <1>2, <2>1
      <4>2. Without(s, j, end) \in Seq(Alphabet)
        BY <4>1, BytesWithout
      <4>3. Len(Without(s, j, end)) = Len(s) - (end - j)
        BY <4>1, BytesWithout
      <4>4. ASSUME NEW i \in 1..Len(s) - (end - j) PROVE Without(s, j, end)[i] = s[Was(i, j, end)]
        BY <4>1, BytesWithout
      <4> QED
        BY <4>2, <4>3, <4>4
    <3> QED
      BY <2>1, <2>2, <3>1
  <2>7. Len(s') \in Nat /\ Len(s') <= Size /\ j <= Len(s') /\ j < end
    BY <1>1, <1>2, <1>5, <1>11, <2>1, <2>6
  <2>8. s' \in Inputs
    BY <1>2, <2>6, <2>7, InputsAre
  <2>9. WordsOf(s', delm') = WordsOf(TrimmedInput', delm')
    <3>1. WordsOf(Without(s, j, end), delm) = WordsOf(s, delm)
      BY <1>2, <2>1, <2>3, <2>5, RunGone
    <3> QED
      BY <1>1, <1>7, <2>2, <3>1 DEF ReducedInv
  <2>10. s # <<>>
    BY <1>1, <1>2, EmptySeq
  <2>11. Leading(s', delm') <=> TrimmedInput'[1] = delm'
    <3>1. Leading(s, delm) <=> s[1] = delm
      BY <2>10 DEF Leading
    <3>2. CASE j = 0
      <4>1. s[1] = delm
        <5>1. 0 + 1 = 1
          OBVIOUS
        <5> QED
          BY <1>1, <3>2, <5>1 DEF Byte
      <4>2. CASE Len(s') = 0
        <5>1. s' = <<>>
          BY <2>6, <4>2, EmptySeq
        <5> QED
          BY <1>1, <1>7, <3>1, <4>1, <5>1 DEF Leading, ReducedInv
      <4>3. CASE Len(s') # 0
        <5>1. 1 \in 1..Size - (end - j) /\ ~(1 <= j) /\ 1 + (end - j) = end + 1 /\ end < Size
          BY <1>2, <1>5, <2>6, <2>7, <3>2, <4>3
        <5>2. s'[1] = s[end + 1]
          BY <2>6, <5>1 DEF Was
        <5> QED
          BY <1>1, <1>7, <2>4, <3>1, <4>1, <5>1, <5>2 DEF Leading, ReducedInv
      <4> QED
        BY <4>2, <4>3
    <3>3. CASE j # 0
      <4>1. 1 \in 1..Size - (end - j) /\ 1 <= j /\ Len(s') # 0
        BY <1>2, <2>6, <2>7, <3>3
      <4>2. s'[1] = s[1] /\ s' # <<>>
        BY <2>6, <4>1, EmptySeq DEF Was
      <4> QED
        BY <1>1, <1>7, <3>1, <4>2 DEF Leading, ReducedInv
    <3> QED
      BY <3>2, <3>3
  <2>12. s' # <<>> /\ s'[Size'] = delm' => Short'
    <3>1. ASSUME s' # <<>>, s'[Size'] = delm' PROVE Short
      <4>1. Size' = Size - (end - j) /\ Size' \in Nat \ {0}
        BY <2>6, <3>1, EmptySeq DEF Size
      <4>2. CASE end = Size
        <5>1. s[Size] = delm
          <6>1. end \in j + 1..end
            BY <2>1
          <6> QED
            BY <2>3, <4>2, <6>1
        <5> QED
          BY <1>1, <2>10, <5>1 DEF ReducedInv
      <4>3. CASE end # Size
        <5>1. ~(Size' <= j) /\ Size' + (end - j) = Size /\ Size' \in 1..Size - (end - j)
          BY <1>2, <1>5, <1>11, <4>1, <4>3, <2>7
        <5>2. s'[Size'] = s[Size]
          BY <2>6, <5>1 DEF Was
        <5> QED
          BY <1>1, <2>10, <3>1, <5>2 DEF ReducedInv
      <4> QED
        BY <4>2, <4>3
    <3> QED
      BY <1>7, <3>1
  <2>13. ReducedInv'
    BY <2>9, <2>11, <2>12 DEF ReducedInv
  <2>14. TypeOK'
    BY <1>1, <1>2, <1>11, <2>8, Bounds DEF TypeOK
  <2>15. SplitInv'
    BY <1>1, <1>8, <1>11, <2>13 DEF SplitInv
  <2>16. StripTrims' /\ SplitGivesWords' /\ OverreadOnlyShort'
    BY <1>11 DEF StripTrims, SplitGivesWords, OverreadOnlyShort
  <2> QED
    BY <2>14, <2>15, <2>16 DEF IInv
<1> QED
  <2>1. \/ end - j > Size /\ pc' = "dedup" /\ UNCHANGED <<s, room>>
        \/ end > Size /\ pc' = "crashed" /\ UNCHANGED <<s, room>>
        \/ /\ end <= Size /\ pc' = "dedup"
           /\ s' = From(s, 0, j) \o From(s, end, Size) /\ room' = 0
    BY DEF Reduce, Goto
  <2> QED
    BY <1>9, <1>10, <1>11, <2>1

LEMMA DedupedStep == ASSUME IInv, Deduped PROVE IInv'
<1>1. /\ pc = "dedup" /\ pc' = "cut" /\ j >= Size /\ tokens' = <<>>
      /\ UNCHANGED <<input, delm, s, room, j, cb, ccur>>
      /\ cb = 0 /\ ccur = 0 /\ ReducedInv /\ NoRun(j)
  BY DEF Deduped, Goto, IInv, SplitInv
<1>2. TypeOK /\ j \in Nat /\ Size \in Nat /\ Size = Len(s)
  BY Types DEF IInv, Size
<1>3. ReducedInv'
  <2>1. TrimmedInput' = TrimmedInput /\ (Short' <=> Short)
    BY <1>1, SameText
  <2> QED
    BY <1>1, <2>1 DEF ReducedInv, Size
<1>4. NoRun(Size)'
  <2>1. \A k \in 1..Size : k \in 1..j
    BY <1>1, <1>2
  <2> QED
    BY <1>1, <2>1 DEF NoRun, Size
<1>5. tokens' = <<>> \o SubSeq(WordsOf(s, delm), 1, Count(s, delm, 0))
  <2>1. Count(s, delm, 0) = 0
    BY <1>2, CountNone
  <2>2. SubSeq(WordsOf(s, delm), 1, 0) = <<>>
    BY SubSeqEmpty
  <2>3. <<>> \o <<>> = <<>>
    BY EmptySeq, ConcatEmptySeq
  <2> QED
    BY <1>1, <2>1, <2>2, <2>3
<1>6. CutInv'
  <2>1. \A k \in 0 + 1..0 : FALSE
    OBVIOUS
  <2> QED
    BY <1>1, <1>2, <1>4, <1>5, <2>1 DEF CutInv, Size
<1>7. TypeOK'
  <2>1. <<>> \in Seq(Inputs)
    BY EmptySeq
  <2> QED
    BY <1>1, <1>2, <2>1 DEF TypeOK
<1>8. SplitInv'
  BY <1>1, <1>3, <1>6 DEF SplitInv
<1>9. StripTrims' /\ SplitGivesWords' /\ OverreadOnlyShort'
  BY <1>1 DEF StripTrims, SplitGivesWords, OverreadOnlyShort
<1> QED
  BY <1>7, <1>8, <1>9 DEF IInv

\* Between the tokens: while string_split cuts, the words and the texts stay.
LEMMA CutFacts ==
    ASSUME IInv, pc = "cut"
    PROVE  /\ TypeOK /\ CutInv /\ ReducedInv
           /\ Size \in Nat /\ Size = Len(s) /\ Size <= MaxLen /\ MaxLen \in Nat
           /\ s \in Seq(Alphabet) /\ s \in Inputs /\ cb \in Nat /\ ccur \in Nat
           /\ WordsOf(s, delm) \in Seq(Inputs)
           /\ Len(WordsOf(s, delm)) = Cardinality(Starts(s, delm))
<1>1. TypeOK /\ CutInv /\ ReducedInv
  BY DEF IInv, SplitInv
<1>2. /\ Size \in Nat /\ Size = Len(s) /\ Size <= MaxLen /\ MaxLen \in Nat
      /\ s \in Seq(Alphabet) /\ s \in Inputs /\ cb \in Nat /\ ccur \in Nat
  BY <1>1, Types, Bounds DEF Size
<1>3. /\ WordsOf(s, delm) \in Seq(Seq(Alphabet))
      /\ Len(WordsOf(s, delm)) = Cardinality(Starts(s, delm))
  BY <1>2, WordsType
<1>4. ASSUME NEW n \in 1..Len(WordsOf(s, delm)) PROVE WordsOf(s, delm)[n] \in Inputs
  <2>1. PICK i \in Starts(s, delm) : n = Count(s, delm, i)
    BY <1>2, <1>3, NthExists
  <2>2. Nth(s, delm, n) = i /\ i \in 1..Len(s)
    BY <1>2, <2>1, NthIs, StartsAreFinite
  <2>3. PICK k \in i..Len(s) : IsEnd(s, delm, i, k)
    BY <1>2, EndExists
  <2>4. EndOf(s, delm, i) = k
    BY <1>2, <2>2, <2>3, EndIs
  <2>5. WordsOf(s, delm)[n] = SubSeq(s, i, k)
    BY <1>3, <2>2, <2>4 DEF WordsOf
  <2>6. i - 1 \in 0..Len(s) /\ k \in i - 1..Len(s) /\ i - 1 + 1 = i
    BY <1>2, <2>2, <2>3
  <2>7. From(s, i - 1, k) \in Inputs
    BY <1>2, <2>6, PartOf
  <2> QED
    BY <2>5, <2>6, <2>7 DEF From
<1>5. WordsOf(s, delm) \in Seq(Inputs)
  <2> DEFINE W == WordsOf(s, delm)
  <2>1. Len(W) \in Nat /\ W \in [1..Len(W) -> Seq(Alphabet)]
    BY <1>3, LenProperties
  <2>2. \A n \in 1..Len(W) : W[n] \in Inputs
    BY <1>4
  <2> HIDE DEF W
  <2>3. W \in [1..Len(W) -> Inputs]
    BY <2>1, <2>2
  <2>4. W \in Seq(Inputs)
    BY <2>1, <2>3
  <2> QED
    BY <2>4 DEF W
<1> QED
  BY <1>1, <1>2, <1>3, <1>5

\* The words up to one more are those before and that one.
LEMMA OneMore ==
    ASSUME NEW A, NEW w \in Seq(A), NEW n \in Nat, n + 1 <= Len(w)
    PROVE  SubSeq(w, 1, n + 1) = Append(SubSeq(w, 1, n), w[n + 1])
<1>1. Len(w) \in Nat /\ \A i \in 1..Len(w) : w[i] \in A
  BY LenProperties, ElementOfSeq
<1>2. ASSUME NEW m \in 0..Len(w)
      PROVE  /\ SubSeq(w, 1, m) \in Seq(A) /\ Len(SubSeq(w, 1, m)) = m
             /\ \A i \in 1..m : SubSeq(w, 1, m)[i] = w[i]
  <2>1. 1 \in Int /\ m \in Int /\ \A i \in 1..m : w[i] \in A
    BY <1>1
  <2>2. /\ SubSeq(w, 1, m) \in Seq(A)
        /\ Len(SubSeq(w, 1, m)) = IF 1 <= m THEN m - 1 + 1 ELSE 0
        /\ \A i \in 1..m - 1 + 1 : SubSeq(w, 1, m)[i] = w[1 + i - 1]
    BY <2>1, SubSeqProperties
  <2> QED
    BY <1>1, <2>2
<1> DEFINE x == SubSeq(w, 1, n)
           y == SubSeq(w, 1, n + 1)
<1>3. n \in 0..Len(w) /\ n + 1 \in 0..Len(w) /\ n + 1 \in 1..Len(w)
  BY <1>1
<1>4. /\ x \in Seq(A) /\ Len(x) = n /\ \A i \in 1..n : x[i] = w[i]
      /\ y \in Seq(A) /\ Len(y) = n + 1 /\ \A i \in 1..n + 1 : y[i] = w[i]
  BY <1>2, <1>3
<1>5. w[n + 1] \in A
  BY <1>1, <1>3
<1> HIDE DEF x, y
<1> DEFINE z == Append(x, w[n + 1])
<1>6. z \in Seq(A) /\ Len(z) = n + 1 /\ \A i \in 1..n + 1 : z[i] = IF i = n + 1 THEN w[n + 1] ELSE x[i]
  BY <1>4, <1>5
<1> HIDE DEF z
<1>7. \A i \in 1..n + 1 : i # n + 1 => i \in 1..n
  OBVIOUS
<1>8. y = z
  <2>1. \A i \in 1..Len(y) : y[i] = z[i]
    BY <1>4, <1>6, <1>7
  <2> QED
    BY <1>4, <1>6, <2>1, SeqEqual
<1> QED
  BY <1>8 DEF x, y, z

\* A token is the next word, or the empty one in front.
LEMMA PushTokenStep == ASSUME IInv, PushToken PROVE IInv'
<1>1. /\ pc = "cut" /\ pc' = "cut" /\ AtCut /\ cb' = ccur + 1 /\ ccur' = ccur + 2
      /\ tokens' = Append(tokens, From(s, cb, ccur))
      /\ UNCHANGED <<input, delm, s, room, j>>
  BY DEF PushToken, Goto
<1>2. /\ TypeOK /\ CutInv /\ ReducedInv
      /\ Size \in Nat /\ Size = Len(s) /\ Size <= MaxLen /\ MaxLen \in Nat
      /\ s \in Seq(Alphabet) /\ s \in Inputs /\ cb \in Nat /\ ccur \in Nat
      /\ WordsOf(s, delm) \in Seq(Inputs)
      /\ Len(WordsOf(s, delm)) = Cardinality(Starts(s, delm))
  BY <1>1, CutFacts
<1> DEFINE W == WordsOf(s, delm)
           C(i) == Count(s, delm, i)
<1>3. ccur <= Size /\ (ccur = Size \/ s[ccur + 1] = delm) /\ Size' = Size
  BY <1>1, <1>2 DEF AtCut, Byte, Size
<1>4. /\ NoRun(Size) /\ (cb > 0 => ccur > cb) /\ (cb > 0 /\ cb <= Size => s[cb] = delm)
      /\ \A k \in cb + 1..ccur : k <= Size => s[k] # delm
      /\ tokens = (IF cb = 0 THEN <<>> ELSE Lead(s, delm)) \o SubSeq(W, 1, C(cb))
  BY <1>2 DEF CutInv
<1>5. \A i \in Nat : C(i) \in Nat /\ C(i) <= Len(W)
  BY <1>2, StartsAreFinite
<1>6. ReducedInv'
  <2>1. TrimmedInput' = TrimmedInput /\ (Short' <=> Short)
    BY <1>1, SameText
  <2> QED
    BY <1>1, <1>2, <2>1 DEF ReducedInv, Size
<1>7. /\ cb <= ccur /\ (cb = ccur => cb = 0) /\ cb \in 0..Len(s) /\ ccur \in cb..Len(s)
      /\ ccur + 1 \in Nat /\ ccur + 1 > 0
  BY <1>2, <1>3, <1>4
<1>8. From(s, cb, ccur) \in Inputs
  BY <1>2, <1>7, PartOf
<1>9. Lead(s, delm) \in Seq(Inputs) /\ <<>> \in Seq(Inputs)
  <2>1. <<>> \in Inputs
    <3>1. <<>> \in Seq(Alphabet) /\ Len(<<>>) = 0 /\ 0 <= MaxLen
      BY <1>2, EmptySeq
    <3> QED
      BY <3>1, InputsAre
  <2> QED
    BY <2>1, EmptySeq DEF Lead
<1>10. SubSeq(W, 1, C(cb)) \in Seq(Inputs)
  <2> HIDE DEF C
  <2>1. C(cb) \in Int /\ \A i \in 1..C(cb) : i \in 1..Len(W)
    <3>1. C(cb) \in Nat /\ C(cb) <= Len(W) /\ Len(W) \in Nat
      BY <1>2, <1>5, LenProperties
    <3> HIDE DEF W
    <3> QED
      BY <3>1
  <2>2. \A i \in 1..C(cb) : W[i] \in Inputs
    BY <1>2, <2>1, ElementOfSeq
  <2> HIDE DEF W, C
  <2> QED
    BY <2>1, <2>2, SubSeqProperties
<1>11. tokens' = Lead(s, delm) \o SubSeq(W, 1, C(ccur + 1))
  <2>1. CASE cb = ccur
    <3>1. cb = 0 /\ ccur = 0
      BY <1>7, <2>1
    <3>2. Leading(s, delm)
      <4>1. CASE Size = 0
        BY <1>2, <4>1, EmptySeq DEF Leading
      <4>2. CASE Size # 0
        <5>1. 0 + 1 = 1
          OBVIOUS
        <5> QED
          BY <1>3, <3>1, <4>2, <5>1 DEF Leading
      <4> QED
        BY <4>1, <4>2
    <3>3. From(s, cb, ccur) = <<>>
      <4>1. 0 + 1 \in Int /\ 0 \in Int /\ 0 < 0 + 1
        OBVIOUS
      <4> QED
        BY <3>1, <4>1, SubSeqEmpty DEF From
    <3>4. C(0) = 0 /\ C(0 + 1) = 0
      <4>1. C(0) = 0
        BY <1>2, CountNone
      <4>2. 0 + 1 \notin Starts(s, delm)
        <5>1. 1 \in Starts(s, delm) => s # <<>> /\ s[1] # delm
          BY <1>2, EmptySeq DEF Starts
        <5> QED
          BY <3>2, <5>1 DEF Leading
      <4> HIDE DEF C
      <4>3. C(0 + 1) = C(0)
        BY <1>2, <4>2, CountStep DEF C
      <4> QED
        BY <4>1, <4>3
    <3>5. SubSeq(W, 1, 0) = <<>>
      BY SubSeqEmpty
    <3>6. tokens = <<>>
      BY <1>4, <3>1, <3>4, <3>5
    <3>7. Lead(s, delm) = <<(<<>>)>> /\ Append(<<>>, <<>>) = <<(<<>>)>>
      BY <3>2 DEF Lead
    <3>8. Lead(s, delm) \o <<>> = Lead(s, delm)
      BY <1>9, ConcatEmptySeq
    <3> HIDE DEF C, W
    <3> QED
      BY <1>1, <3>1, <3>3, <3>4, <3>5, <3>6, <3>7, <3>8
  <2>2. CASE cb # ccur
    <3> DEFINE b == cb + 1
    <3>1. b \in 1..Len(s) /\ b \in Nat /\ ccur \in b..Len(s) /\ b - 1 = cb /\ b \in cb + 1..ccur /\ b <= Size
      BY <1>2, <1>7, <2>2
    <3>2. b \in Starts(s, delm)
      <4>1. s[b] # delm
        BY <1>4, <3>1
      <4>2. b = 1 \/ s[b - 1] = delm
        BY <1>2, <1>4, <1>7, <3>1
      <4> QED
        BY <3>1, <4>1, <4>2 DEF Starts
    <3>3. IsEnd(s, delm, b, ccur)
      <4>1. \A n \in b..ccur : s[n] # delm
        <5>1. \A n \in b..ccur : n \in cb + 1..ccur /\ n <= Size
          BY <1>2, <1>3, <1>7
        <5> QED
          BY <1>4, <5>1
      <4> QED
        BY <1>2, <1>3, <4>1 DEF IsEnd
    <3>4. C(b) = C(cb) + 1
      BY <1>2, <3>2, CountStep
    <3>5. Before(s, delm, ccur + 1) = Before(s, delm, b)
      <4>1. ASSUME NEW k \in Starts(s, delm), k <= ccur + 1 PROVE k <= b
        <5>1. k \in 1..Size /\ s[k] # delm /\ (k = 1 \/ s[k - 1] = delm)
          BY <1>2 DEF Starts
        <5>2. ASSUME ~(k <= b) PROVE FALSE
          <6>1. k - 1 \in cb + 1..ccur /\ k - 1 <= Size /\ k # 1
            BY <1>2, <3>1, <4>1, <5>1, <5>2
          <6> QED
            BY <1>4, <5>1, <6>1
        <5> QED
          BY <5>2
      <4>2. ASSUME NEW k \in Starts(s, delm), k <= b PROVE k <= ccur + 1
        <5>1. k \in 1..Size
          BY <1>2 DEF Starts
        <5> QED
          BY <1>2, <3>1, <4>2, <5>1
      <4> HIDE DEF b
      <4> QED
        BY <4>1, <4>2 DEF Before
    <3>6. C(ccur + 1) = C(cb) + 1
      BY <3>4, <3>5 DEF Count
    <3>7. W[C(b)] = From(s, cb, ccur)
      <4>1. Nth(s, delm, C(b)) = b
        BY <1>2, <3>2, NthIs
      <4>2. EndOf(s, delm, b) = ccur
        BY <1>2, <3>1, <3>3, EndIs
      <4>3. C(b) \in 1..Cardinality(Starts(s, delm))
        <5>1. C(b) \in Nat /\ C(b) <= Len(W) /\ C(cb) \in Nat
          BY <1>2, <1>5, <3>1
        <5> HIDE DEF C, W
        <5>2. C(b) \in 1..Len(W)
          BY <3>4, <5>1
        <5> QED
          BY <1>2, <5>2 DEF W
      <4> QED
        BY <4>1, <4>2, <4>3 DEF WordsOf, From
    <3>8. SubSeq(W, 1, C(cb) + 1) = Append(SubSeq(W, 1, C(cb)), W[C(cb) + 1])
      <4>1. C(cb) \in Nat /\ C(cb) + 1 <= Len(W)
        <5>1. C(cb) \in Nat /\ C(b) <= Len(W)
          BY <1>2, <1>5, <3>1
        <5> HIDE DEF C, W
        <5> QED
          BY <3>4, <5>1
      <4> HIDE DEF C
      <4> QED
        BY <1>2, <4>1, OneMore
    <3> DEFINE p == IF cb = 0 THEN <<>> ELSE Lead(s, delm)
    <3>9. p = Lead(s, delm) /\ p \in Seq(Inputs)
      <4>1. CASE cb = 0
        <5>1. s[1] # delm /\ s # <<>>
          <6>1. 1 \in cb + 1..ccur /\ 1 <= Size
            BY <1>2, <3>1, <4>1
          <6> QED
            BY <1>2, <1>4, <6>1, EmptySeq
        <5> QED
          BY <1>9, <4>1, <5>1 DEF Lead, Leading
      <4>2. CASE cb # 0
        BY <1>9, <4>2
      <4> QED
        BY <4>1, <4>2
    <3> HIDE DEF p, b, C, W
    <3>10. tokens = p \o SubSeq(W, 1, C(cb))
      BY <1>4 DEF p
    <3> DEFINE x == SubSeq(W, 1, C(cb))
               e == From(s, cb, ccur)
    <3>11. Append(p \o x, e) = p \o Append(x, e)
      <4>1. p \in Seq(Inputs) /\ x \in Seq(Inputs) /\ e \in Inputs
        BY <1>8, <1>10, <3>9
      <4> HIDE DEF x, e
      <4> QED
        BY <4>1
    <3> QED
      BY <1>1, <3>4, <3>6, <3>7, <3>8, <3>9, <3>10, <3>11
  <2> QED
    BY <2>1, <2>2
<1>12. CutInv'
  <2>1. NoRun(Size)'
    BY <1>1, <1>4 DEF NoRun, Size
  <2>2. cb' > 0 => ccur' > cb'
    BY <1>1, <1>2
  <2>3. ccur' > Size' => cb' > 0 /\ ccur' = cb' + 1
    BY <1>1, <1>2, <1>3
  <2>4. cb' <= Size' + 1
    BY <1>1, <1>2, <1>3
  <2>5. cb' > 0 /\ cb' <= Size' => s'[cb'] = delm'
    BY <1>1, <1>2, <1>3
  <2>6. \A k \in cb' + 1..ccur' : k <= Size' => s'[k] # delm'
    <3>1. ASSUME NEW k \in cb' + 1..ccur', k <= Size' PROVE s'[k] # delm'
      <4>1. k = ccur + 2 /\ ccur + 1 \in 1..Size /\ ccur + 1 < Size /\ ccur + 1 + 1 = k /\ ccur # Size
        BY <1>1, <1>2, <1>3, <3>1
      <4> QED
        BY <1>1, <1>3, <1>4, <4>1 DEF NoRun
    <3> QED
      BY <3>1
  <2>7. tokens' = (IF cb' = 0 THEN <<>> ELSE Lead(s', delm')) \o SubSeq(WordsOf(s', delm'), 1, Count(s', delm', cb'))
    <3>1. cb' # 0
      BY <1>1, <1>2
    <3> QED
      BY <1>1, <1>11, <3>1
  <2> QED
    BY <2>1, <2>2, <2>3, <2>4, <2>5, <2>6, <2>7 DEF CutInv
<1>13. TypeOK'
  <2>1. cb' \in 0..MaxLen + 1 /\ ccur' \in 0..MaxLen + 2
    BY <1>1, <1>2, <1>3
  <2>2. tokens \in Seq(Inputs)
    BY <1>4, <1>9, <1>10
  <2>3. tokens' \in Seq(Inputs)
    BY <1>1, <1>8, <2>2
  <2> QED
    BY <1>1, <1>2, <2>1, <2>3 DEF TypeOK
<1>14. SplitInv'
  BY <1>1, <1>6, <1>12 DEF SplitInv
<1>15. StripTrims' /\ SplitGivesWords' /\ OverreadOnlyShort'
  BY <1>1 DEF StripTrims, SplitGivesWords, OverreadOnlyShort
<1> QED
  BY <1>13, <1>14, <1>15 DEF IInv

LEMMA AdvanceStep == ASSUME IInv, Advance PROVE IInv'
<1>1. /\ pc = "cut" /\ pc' = "cut" /\ ccur < Size /\ Byte(ccur) # delm /\ ccur' = ccur + 1
      /\ UNCHANGED <<input, delm, s, room, j, cb, tokens>>
  BY DEF Advance, AtCut, Goto
<1>2. /\ TypeOK /\ CutInv /\ ReducedInv
      /\ Size \in Nat /\ Size = Len(s) /\ Size <= MaxLen /\ MaxLen \in Nat
      /\ cb \in Nat /\ ccur \in Nat
  BY <1>1, CutFacts
<1>3. ReducedInv'
  <2>1. TrimmedInput' = TrimmedInput /\ (Short' <=> Short)
    BY <1>1, SameText
  <2> QED
    BY <1>1, <1>2, <2>1 DEF ReducedInv, Size
<1>4. Size' = Size
  BY <1>1 DEF Size
<1>5. CutInv'
  <2>1. NoRun(Size)'
    BY <1>1, <1>2, <1>4 DEF CutInv, NoRun
  <2>2. (cb' > 0 => ccur' > cb') /\ ~(ccur' > Size') /\ cb' <= Size' + 1
    BY <1>1, <1>2, <1>4 DEF CutInv
  <2>3. cb' > 0 /\ cb' <= Size' => s'[cb'] = delm'
    BY <1>1, <1>2, <1>4 DEF CutInv
  <2>4. \A k \in cb' + 1..ccur' : k <= Size' => s'[k] # delm'
    <3>1. ASSUME NEW k \in cb + 1..ccur + 1, k <= Size PROVE s[k] # delm
      <4>1. CASE k = ccur + 1
        BY <1>1, <4>1 DEF Byte
      <4>2. CASE k # ccur + 1
        <5>1. k \in cb + 1..ccur
          BY <1>2, <4>2
        <5> QED
          BY <1>2, <3>1, <5>1 DEF CutInv
      <4> QED
        BY <4>1, <4>2
    <3> QED
      BY <1>1, <1>4, <3>1
  <2>5. tokens' = (IF cb' = 0 THEN <<>> ELSE Lead(s', delm')) \o SubSeq(WordsOf(s', delm'), 1, Count(s', delm', cb'))
    BY <1>1, <1>2 DEF CutInv
  <2> QED
    BY <2>1, <2>2, <2>3, <2>4, <2>5 DEF CutInv
<1>6. TypeOK'
  <2>1. ccur' \in 0..MaxLen + 2
    BY <1>1, <1>2
  <2> QED
    BY <1>1, <1>2, <2>1 DEF TypeOK
<1>7. SplitInv'
  BY <1>1, <1>3, <1>5 DEF SplitInv
<1>8. StripTrims' /\ SplitGivesWords' /\ OverreadOnlyShort'
  BY <1>1 DEF StripTrims, SplitGivesWords, OverreadOnlyShort
<1> QED
  BY <1>6, <1>7, <1>8 DEF IInv

\* At the end the tokens are all the words.
LEMMA ReturnStep == ASSUME IInv, Return PROVE IInv'
<1>1. /\ pc = "cut" /\ pc' = "split" /\ ccur > Size
      /\ UNCHANGED <<input, delm, s, room, j, cb, ccur, tokens>>
  BY DEF Return, Goto
<1>2. /\ TypeOK /\ CutInv /\ ReducedInv
      /\ Size \in Nat /\ Size = Len(s) /\ s \in Seq(Alphabet) /\ cb \in Nat /\ ccur \in Nat
      /\ WordsOf(s, delm) \in Seq(Inputs)
      /\ Len(WordsOf(s, delm)) = Cardinality(Starts(s, delm))
  BY <1>1, CutFacts
<1>3. cb > 0 /\ ccur = cb + 1
  BY <1>1, <1>2 DEF CutInv
<1>4. cb >= Len(s)
  BY <1>1, <1>2, <1>3
<1>5. Count(s, delm, cb) = Len(WordsOf(s, delm))
  BY <1>2, <1>4, CountAll
<1>6. SubSeq(WordsOf(s, delm), 1, Count(s, delm, cb)) = WordsOf(s, delm)
  <2>1. SubSeq(WordsOf(s, delm), 1, Len(WordsOf(s, delm))) = WordsOf(s, delm)
    BY <1>2, SubSeqFull
  <2> QED
    BY <1>5, <2>1
<1>7. tokens = Lead(s, delm) \o WordsOf(s, delm)
  <2>1. tokens = (IF cb = 0 THEN <<>> ELSE Lead(s, delm)) \o SubSeq(WordsOf(s, delm), 1, Count(s, delm, cb))
    BY <1>2 DEF CutInv
  <2>2. cb # 0
    BY <1>2, <1>3
  <2> QED
    BY <1>6, <2>1, <2>2
<1>8. Words(TrimmedInput) = WordsOf(s, delm)
  BY <1>2, WordsAre DEF ReducedInv
<1>9. Lead(s, delm) = IF TrimmedInput[1] = delm THEN <<(<<>>)>> ELSE <<>>
  BY <1>2 DEF ReducedInv, Lead
<1>10. tokens = (IF TrimmedInput[1] = delm THEN <<(<<>>)>> ELSE <<>>) \o Words(TrimmedInput)
  BY <1>7, <1>8, <1>9
<1>11. SplitGivesWords'
  <2>1. TrimmedInput' = TrimmedInput
    BY <1>1, SameText
  <2>2. Words(TrimmedInput)' = Words(TrimmedInput)
    BY <1>1, <2>1 DEF Words
  <2> QED
    BY <1>1, <1>10, <2>1, <2>2 DEF SplitGivesWords
<1>12. TypeOK'
  BY <1>1, <1>2 DEF TypeOK
<1>13. SplitInv' /\ StripTrims' /\ OverreadOnlyShort'
  BY <1>1 DEF SplitInv, StripTrims, OverreadOnlyShort
<1> QED
  BY <1>11, <1>12, <1>13 DEF IInv

\* Nothing else happens to an ended call.
LEMMA StutterStep == ASSUME IInv, UNCHANGED vars PROVE IInv'
<1>1. UNCHANGED <<input, delm, s, room, j, cb, ccur, tokens, pc>>
  BY DEF vars
<1>2. TrimmedInput' = TrimmedInput /\ (Short' <=> Short)
  BY <1>1, SameText
<1>3. Words(TrimmedInput)' = Words(TrimmedInput)
  BY <1>1, <1>2 DEF Words
<1>4. TypeOK' /\ StripTrims'
  BY <1>1 DEF IInv, TypeOK, StripTrims
<1>5. SplitGivesWords' /\ OverreadOnlyShort'
  BY <1>1, <1>2, <1>3 DEF IInv, SplitGivesWords, OverreadOnlyShort
<1>6. PoppedInv' <=> PoppedInv
  BY <1>1 DEF PoppedInv, Size
<1>7. ReducedInv' <=> ReducedInv
  BY <1>1, <1>2 DEF ReducedInv, Size
<1>8. NoRun(j)' <=> NoRun(j)
  BY <1>1 DEF NoRun, Size
<1>9. CutInv' <=> CutInv
  BY <1>1 DEF CutInv, NoRun, Size
<1>10. SplitInv'
  BY <1>1, <1>6, <1>7, <1>8, <1>9 DEF IInv, SplitInv
<1> QED
  BY <1>4, <1>5, <1>10 DEF IInv

LEMMA StepKeeps == IInv /\ [Next]_vars => IInv'
<1> SUFFICES ASSUME IInv, [Next]_vars PROVE IInv'
  OBVIOUS
<1>1. ASSUME NEW over \in 0..MaxOver, Reduce(over) PROVE IInv'
  BY <1>1, ReduceStep
<1> QED
  BY <1>1, CallStripStep, CallSplitStep, PopBlankStep, TrimmedStep, NextByteStep, DedupedStep,
     PushTokenStep, AdvanceStep, ReturnStep, StutterStep DEF Next, Step, Ended

LEMMA Invariance == Spec => []IInv
  BY InitStep, StepKeeps, PTL DEF Spec

-----------------------------------------------------------------------------
(* The variables have their types, whatever the alphabet and the bounds:   *)
(* the two indices of string_split stay within two bytes of the content.   *)
THEOREM StringsTypeCorrect == Spec => []TypeOK
  BY Invariance, PTL DEF IInv

(* string_strip takes the blanks and the quotes off both ends of a string  *)
(* of three bytes or more, and nothing else.                               *)
THEOREM StripCorrect == Spec => []StripTrims
  BY Invariance, PTL DEF IInv

(* string_split returns the words between the delimiters, all of them, in  *)
(* order and whole, and one empty token in front exactly if the string     *)
(* starts with the delimiter.                                              *)
THEOREM SplitCorrect == Spec => []SplitGivesWords
  BY Invariance, PTL DEF IInv

(* The bytes that string_remove_dubseq reads behind the content bring      *)
(* string_split down only if the delimiter is the last byte that           *)
(* string_rstrip_ws leaves, in a string of one or two bytes.               *)
THEOREM OverreadCorrect == Spec => []OverreadOnlyShort
  BY Invariance, PTL DEF IInv
=============================================================================
