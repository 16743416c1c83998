------------------------ MODULE DynamicAllocatorProofs ------------------------
(***************************************************************************)
(* Proofs about the byte buffer: the room behind the content is always     *)
(* zero, and whatever calls are made the buffers hold the strings of       *)
(* ByteStrings.                                                            *)
(***************************************************************************)
EXTENDS DynamicAllocator, SequenceTheorems, TLAPS

\* A byte of a block.
Byte == Bytes \cup {Zero}

\* A block in order: the content fits, and what is behind it is zero.
Good(a) ==
    /\ a \in Buffers /\ a.used <= Len(a.mem)
    /\ \A i \in a.used + 1..Len(a.mem) : a.mem[i] = Zero

Str(a) == Upto(a.mem, a.used)

\* Two blocks that agree on their first n bytes.
SameUpto(a, b, n) == \A i \in 1..n : a.mem[i] = b.mem[i]

-----------------------------------------------------------------------------
(* Lemmas about the operators on one block.                                 *)

\* A block in order has these types.
LEMMA GoodTypes ==
    ASSUME NEW a, Good(a)
    PROVE  /\ a.mem \in Seq(Byte) /\ a.used \in Nat /\ Len(a.mem) \in Nat
           /\ a.used \in 0..Len(a.mem)
           /\ \A i \in 1..Len(a.mem) : a.mem[i] \in Byte
           /\ a = [mem |-> a.mem, used |-> a.used]
<1>1. a.mem \in Seq(Byte) /\ a.used \in Nat
  BY DEF Good, Buffers, Byte
<1>2. Len(a.mem) \in Nat /\ \A i \in 1..Len(a.mem) : a.mem[i] \in Byte
  BY <1>1, LenProperties, ElementOfSeq
<1>3. a.used \in 0..Len(a.mem)
  BY <1>1, <1>2 DEF Good
<1>4. a = [mem |-> a.mem, used |-> a.used]
  BY DEF Good, Buffers
<1> QED
  BY <1>1, <1>2, <1>3, <1>4

\* The slice of a block's bytes from one place to another.
LEMMA SliceOfBlock ==
    ASSUME NEW a, Good(a), NEW i \in 0..Len(a.mem), NEW j \in i..Len(a.mem)
    PROVE  /\ SubSeq(a.mem, i + 1, j) \in Seq(Byte)
           /\ Len(SubSeq(a.mem, i + 1, j)) = j - i
           /\ \A k \in 1..j - i : SubSeq(a.mem, i + 1, j)[k] = a.mem[i + k]
<1>1. /\ Len(a.mem) \in Nat
      /\ \A k \in 1..Len(a.mem) : a.mem[k] \in Byte
  BY GoodTypes
<1>2. i + 1 \in Int /\ j \in Int /\ i \in Nat /\ j \in Nat /\ i <= j
  BY <1>1
<1>3. \A k \in i + 1..j : a.mem[k] \in Byte
  BY <1>1, <1>2
<1>4. /\ SubSeq(a.mem, i + 1, j) \in Seq(Byte)
      /\ Len(SubSeq(a.mem, i + 1, j)) = IF i + 1 <= j THEN j - (i + 1) + 1 ELSE 0
      /\ \A k \in 1..j - (i + 1) + 1 : SubSeq(a.mem, i + 1, j)[k] = a.mem[i + 1 + k - 1]
  BY <1>2, <1>3, SubSeqProperties
<1>5. j - (i + 1) + 1 = j - i /\ (i + 1 <= j \/ j - i = 0)
  BY <1>2
<1>6. \A k \in 1..j - i : i + 1 + k - 1 = i + k
  BY <1>2
<1> QED
  BY <1>2, <1>4, <1>5, <1>6

\* The string of a block.
LEMMA StringOfBlock ==
    ASSUME NEW a, Good(a)
    PROVE  /\ Str(a) \in Seq(Byte)
           /\ Len(Str(a)) = a.used
           /\ \A k \in 1..a.used : Str(a)[k] = a.mem[k]
<1>1. a.used \in 0..Len(a.mem) /\ 0 \in 0..Len(a.mem) /\ Len(a.mem) \in Nat /\ a.used \in Nat
  BY GoodTypes
<1>2. /\ SubSeq(a.mem, 0 + 1, a.used) \in Seq(Byte)
      /\ Len(SubSeq(a.mem, 0 + 1, a.used)) = a.used - 0
      /\ \A k \in 1..a.used - 0 : SubSeq(a.mem, 0 + 1, a.used)[k] = a.mem[0 + k]
  BY <1>1, SliceOfBlock, Zenon
<1>3. a.used - 0 = a.used /\ 0 + 1 = 1 /\ \A k \in 1..a.used : 0 + k = k
  BY <1>1
<1> QED
  BY <1>2, <1>3 DEF Str, Upto

\* Zeros(n) is n zeros.
LEMMA ZerosOf ==
    ASSUME NEW n \in Nat
    PROVE  /\ Zeros(n) \in Seq(Byte)
           /\ Len(Zeros(n)) = n
           /\ \A k \in 1..n : Zeros(n)[k] = Zero
  BY DEF Zeros, Byte

\* A new block is in order and its string is empty.
LEMMA NewBlock ==
    ASSUME NEW n \in Nat
    PROVE  /\ Good(InitN(n)) /\ InitN(n).used = 0 /\ Len(InitN(n).mem) = n
           /\ Str(InitN(n)) = <<>>
<1>1. /\ InitN(n).mem = Zeros(n) /\ InitN(n).used = 0
      /\ InitN(n) = [mem |-> Zeros(n), used |-> 0]
  BY DEF InitN
<1>2. Good(InitN(n)) /\ Len(InitN(n).mem) = n
  BY <1>1, ZerosOf DEF Good, Buffers, Byte
<1>3. Len(Str(InitN(n))) = 0 /\ Str(InitN(n)) \in Seq(Byte)
  BY <1>1, <1>2, StringOfBlock
<1> QED
  BY <1>1, <1>2, <1>3, EmptySeq

\* Growing keeps the content and gives room of zeros.
LEMMA Grow ==
    ASSUME NEW a, Good(a), NEW n \in Nat, Len(a.mem) <= n
    PROVE  /\ Good(Realloc(a, n)) /\ Realloc(a, n).used = a.used
           /\ Len(Realloc(a, n).mem) = n
           /\ SameUpto(Realloc(a, n), a, a.used)
<1>1. /\ a.mem \in Seq(Byte) /\ a.used \in Nat /\ Len(a.mem) \in Nat
      /\ a.used \in 0..Len(a.mem)
      /\ \A i \in a.used + 1..Len(a.mem) : a.mem[i] = Zero
  BY GoodTypes DEF Good
<1>2. CASE n = Len(a.mem)
  BY <1>1, <1>2 DEF Realloc, SameUpto
<1>3. CASE n # Len(a.mem)
  <2> DEFINE m == n - Len(a.mem)
             mem == a.mem \o Zeros(m)
  <2>1. m \in Nat /\ Len(a.mem) < n /\ Len(a.mem) + m = n
    BY <1>1, <1>3
  <2>2. Realloc(a, n) = [mem |-> mem, used |-> a.used]
    BY <2>1, <1>1 DEF Realloc
  <2>3. /\ Zeros(m) \in Seq(Byte) /\ Len(Zeros(m)) = m
        /\ \A k \in 1..m : Zeros(m)[k] = Zero
    BY <2>1, ZerosOf
  <2> HIDE DEF m
  <2>4. /\ mem \in Seq(Byte) /\ Len(mem) = Len(a.mem) + m
        /\ \A i \in 1..Len(a.mem) + m :
              mem[i] = IF i <= Len(a.mem) THEN a.mem[i] ELSE Zeros(m)[i - Len(a.mem)]
    <3>1. /\ mem \in Seq(Byte) /\ Len(mem) = Len(a.mem) + Len(Zeros(m))
          /\ \A i \in 1..Len(a.mem) + Len(Zeros(m)) :
                mem[i] = IF i <= Len(a.mem) THEN a.mem[i] ELSE Zeros(m)[i - Len(a.mem)]
      BY <1>1, <2>3, ConcatProperties
    <3> QED
      BY <3>1, <2>3
  <2> HIDE DEF mem
  <2>5. \A i \in a.used + 1..n : mem[i] = Zero
    <3> TAKE i \in a.used + 1..n
    <3>1. CASE i <= Len(a.mem)
      <4>1. i \in 1..Len(a.mem) + m /\ i \in a.used + 1..Len(a.mem)
        BY <3>1, <1>1, <2>1
      <4>2. mem[i] = a.mem[i]
        BY <4>1, <3>1, <2>4
      <4> QED
        BY <4>1, <4>2, <1>1
    <3>2. CASE ~(i <= Len(a.mem))
      <4>1. i - Len(a.mem) \in 1..m /\ i \in 1..Len(a.mem) + m
        BY <3>2, <1>1, <2>1
      <4>2. mem[i] = Zeros(m)[i - Len(a.mem)]
        BY <4>1, <3>2, <2>4
      <4>3. Zeros(m)[i - Len(a.mem)] = Zero
        BY <4>1, <2>3
      <4> QED
        BY <4>2, <4>3
    <3> QED
      BY <3>1, <3>2
  <2>6. \A i \in 1..a.used : mem[i] = a.mem[i]
    <3>1. \A i \in 1..a.used : i \in 1..Len(a.mem) + m /\ i <= Len(a.mem)
      BY <1>1, <2>1
    <3> QED
      BY <3>1, <2>4
  <2>7. [mem |-> mem, used |-> a.used] \in Buffers
    BY <2>4, <1>1 DEF Buffers, Byte
  <2> QED
    BY <1>1, <2>1, <2>2, <2>4, <2>5, <2>6, <2>7 DEF Good, SameUpto
<1> QED
  BY <1>2, <1>3

\* Shrinking to no more than the content keeps the first bytes of it.
LEMMA Shrink ==
    ASSUME NEW a, Good(a), NEW n \in 0..a.used
    PROVE  /\ Good(Realloc(a, n)) /\ Realloc(a, n).used = n
           /\ Len(Realloc(a, n).mem) = n
           /\ SameUpto(Realloc(a, n), a, n)
<1>1. /\ a.mem \in Seq(Byte) /\ a.used \in Nat /\ Len(a.mem) \in Nat
      /\ a.used \in 0..Len(a.mem)
      /\ \A i \in 1..Len(a.mem) : a.mem[i] \in Byte
  BY GoodTypes
<1>2. CASE n = Len(a.mem)
  BY <1>1, <1>2 DEF Realloc, SameUpto
<1>3. CASE n # Len(a.mem)
  <2> DEFINE mem == Upto(a.mem, n)
  <2>1. n < Len(a.mem) /\ n \in Nat
    BY <1>1, <1>3
  <2>2. Realloc(a, n) = [mem |-> mem, used |-> n]
    BY <1>3, <2>1, <1>1 DEF Realloc
  <2>4. 0 \in 0..Len(a.mem) /\ n \in 0..Len(a.mem)
    BY <1>1
  <2>5. /\ SubSeq(a.mem, 0 + 1, n) \in Seq(Byte)
        /\ Len(SubSeq(a.mem, 0 + 1, n)) = n - 0
        /\ \A k \in 1..n - 0 : SubSeq(a.mem, 0 + 1, n)[k] = a.mem[0 + k]
    BY <2>4, SliceOfBlock, Zenon
  <2>6. mem \in Seq(Byte) /\ Len(mem) = n /\ \A k \in 1..n : mem[k] = a.mem[k]
    <3>1. n - 0 = n /\ 0 + 1 = 1 /\ \A k \in 1..n : 0 + k = k
      BY <2>1
    <3> QED
      BY <2>5, <3>1 DEF Upto
  <2> HIDE DEF mem
  <2>7. [mem |-> mem, used |-> n] \in Buffers
    BY <2>6, <2>1 DEF Buffers, Byte
  <2> QED
    BY <2>1, <2>2, <2>6, <2>7 DEF Good, SameUpto
<1> QED
  BY <1>2, <1>3

\* Blocks whose contents agree have the same string.
LEMMA SameString ==
    ASSUME NEW a, NEW b, Good(a), Good(b), a.used = b.used, SameUpto(a, b, a.used)
    PROVE  Str(a) = Str(b)
<1>1. /\ Str(a) \in Seq(Byte) /\ Len(Str(a)) = a.used
      /\ \A k \in 1..a.used : Str(a)[k] = a.mem[k]
  BY StringOfBlock
<1>2. /\ Str(b) \in Seq(Byte) /\ Len(Str(b)) = b.used
      /\ \A k \in 1..b.used : Str(b)[k] = b.mem[k]
  BY StringOfBlock
<1>3. Len(Str(a)) = Len(Str(b)) /\ \A k \in 1..Len(Str(a)) : Str(a)[k] = Str(b)[k]
  BY <1>1, <1>2 DEF SameUpto
<1> QED
  BY <1>1, <1>2, <1>3, SeqEqual

\* Fitting cuts the room off.
LEMMA Fitted ==
    ASSUME NEW a, Good(a)
    PROVE  /\ Good(Fit(a)) /\ Fit(a).used = a.used /\ Len(Fit(a).mem) = a.used
           /\ Str(Fit(a)) = Str(a) /\ Fit(a).mem = Str(a)
<1>1. a.used \in 0..a.used /\ a.used \in Nat
  BY GoodTypes
<1>2. /\ Good(Fit(a)) /\ Fit(a).used = a.used /\ Len(Fit(a).mem) = a.used
      /\ SameUpto(Fit(a), a, a.used)
  BY <1>1, Shrink DEF Fit
<1>3. Str(Fit(a)) = Str(a)
  BY <1>2, SameString
<1>4. Fit(a).mem \in Seq(Byte)
  BY <1>2, GoodTypes
<1>5. Str(Fit(a)) = Fit(a).mem
  BY <1>2, <1>4, SubSeqFull DEF Str, Upto
<1> QED
  BY <1>2, <1>3, <1>5

\* Bytes copied behind the content extend the string by them.
LEMMA Copied ==
    ASSUME NEW a, Good(a), NEW data \in Seq(Byte), a.used + Len(data) <= Len(a.mem)
    PROVE  /\ Good(CopyIn(a, data)) /\ CopyIn(a, data).used = a.used + Len(data)
           /\ Len(CopyIn(a, data).mem) = Len(a.mem)
           /\ Str(CopyIn(a, data)) = Str(a) \o data
<1> DEFINE u == a.used
           n == Len(a.mem)
           l == Len(data)
           mem == [i \in 1..n |-> IF i > u /\ i <= u + l THEN data[i - u] ELSE a.mem[i]]
           c == CopyIn(a, data)
<1>1. /\ a.mem \in Seq(Byte) /\ u \in Nat /\ n \in Nat /\ u \in 0..n /\ l \in Nat
      /\ \A i \in 1..n : a.mem[i] \in Byte
      /\ \A i \in 1..l : data[i] \in Byte
      /\ \A i \in u + 1..n : a.mem[i] = Zero
      /\ u + l <= n
  BY GoodTypes, LenProperties, ElementOfSeq DEF Good
<1>2. c = [mem |-> mem, used |-> u + l]
  BY DEF CopyIn
<1> HIDE DEF c, u, n, l
<1>3. /\ \A i \in 1..n : i > u /\ i <= u + l => i - u \in 1..l
      /\ \A i \in 1..l : u + i \in 1..n /\ u + i > u /\ u + i <= u + l /\ (u + i) - u = i
  BY <1>1
<1>4. \A i \in 1..n : mem[i] \in Byte
  BY <1>1, <1>3
<1>5. mem \in Seq(Byte) /\ Len(mem) = n
  BY <1>1, <1>4
<1>6. \A i \in u + l + 1..n : mem[i] = Zero
  <2> TAKE i \in u + l + 1..n
  <2>1. i \in 1..n /\ ~(i <= u + l) /\ i \in u + 1..n
    BY <1>1
  <2> QED
    BY <1>1, <2>1
<1>7. Good(c) /\ c.used = u + l /\ Len(c.mem) = n
  BY <1>1, <1>2, <1>5, <1>6 DEF Good, Buffers, Byte
<1>8. \A i \in 1..u + l : mem[i] = IF i <= u THEN a.mem[i] ELSE data[i - u]
  BY <1>1
<1>9. /\ Str(a) \in Seq(Byte) /\ Len(Str(a)) = u
      /\ \A k \in 1..u : Str(a)[k] = a.mem[k]
  BY StringOfBlock DEF u
<1>10. /\ Str(c) \in Seq(Byte) /\ Len(Str(c)) = u + l
       /\ \A k \in 1..u + l : Str(c)[k] = mem[k]
  <2>1. /\ Str(c) \in Seq(Byte) /\ Len(Str(c)) = c.used
        /\ \A k \in 1..c.used : Str(c)[k] = c.mem[k]
    BY <1>7, StringOfBlock
  <2>2. c.mem = mem
    BY <1>2
  <2> QED
    BY <1>7, <2>1, <2>2
<1>11. /\ Str(a) \o data \in Seq(Byte) /\ Len(Str(a) \o data) = u + l
       /\ \A k \in 1..u + l : (Str(a) \o data)[k] = IF k <= u THEN Str(a)[k] ELSE data[k - u]
  <2>1. /\ Str(a) \o data \in Seq(Byte) /\ Len(Str(a) \o data) = Len(Str(a)) + Len(data)
        /\ \A k \in 1..Len(Str(a)) + Len(data) :
              (Str(a) \o data)[k] = IF k <= Len(Str(a)) THEN Str(a)[k] ELSE data[k - Len(Str(a))]
    <3>1. Str(a) \in Seq(Byte)
      BY <1>9
    <3> QED
      BY <3>1, ConcatProperties
  <2>2. Len(data) = l
    BY DEF l
  <2> QED
    BY <2>1, <2>2, <1>9
<1> HIDE DEF mem
<1>12. \A k \in 1..u + l : Str(c)[k] = (Str(a) \o data)[k]
  <2> TAKE k \in 1..u + l
  <2>1. Str(c)[k] = IF k <= u THEN a.mem[k] ELSE data[k - u]
    BY <1>8, <1>10
  <2>2. (Str(a) \o data)[k] = IF k <= u THEN Str(a)[k] ELSE data[k - u]
    BY <1>11
  <2>3. k <= u => Str(a)[k] = a.mem[k]
    BY <1>1, <1>9
  <2> QED
    BY <2>1, <2>2, <2>3
<1>13. Str(c) = Str(a) \o data
  BY <1>10, <1>11, <1>12, SeqEqual
<1> QED
  BY <1>7, <1>13 DEF c, u, n, l

\* Appending makes the room it needs.
LEMMA Appended ==
    ASSUME NEW a, Good(a), NEW data \in Seq(Byte)
    PROVE  /\ Good(Append_(a, data)) /\ Append_(a, data).used = a.used + Len(data)
           /\ Len(Append_(a, data).mem) \in {Len(a.mem), a.used + Len(data)}
           /\ Str(Append_(a, data)) = Str(a) \o data
<1> DEFINE n == Len(data)
           b == CheckSize(a, n)
<1>1. a.used \in Nat /\ Len(a.mem) \in Nat /\ n \in Nat /\ a.used \in 0..Len(a.mem)
  BY GoodTypes, LenProperties
<1>2. /\ Good(b) /\ b.used = a.used /\ Str(b) = Str(a)
      /\ Len(b.mem) \in {Len(a.mem), a.used + n}
      /\ b.used + n <= Len(b.mem)
  <2>1. CASE Len(a.mem) < a.used + n
    <3>1. b = Realloc(a, a.used + n) /\ a.used + n \in Nat /\ Len(a.mem) <= a.used + n
      BY <2>1, <1>1 DEF CheckSize
    <3> HIDE DEF b
    <3>2. /\ Good(b) /\ b.used = a.used /\ Len(b.mem) = a.used + n
          /\ SameUpto(b, a, a.used)
      BY <3>1, Grow
    <3>3. Str(b) = Str(a)
      BY <3>2, SameString
    <3> QED
      BY <3>2, <3>3, <1>1
  <2>2. CASE ~(Len(a.mem) < a.used + n)
    BY <2>2, <1>1 DEF CheckSize
  <2> QED
    BY <2>1, <2>2
<1>3. Append_(a, data) = CopyIn(b, data)
  BY DEF Append_
<1> HIDE DEF b
<1> QED
  BY <1>1, <1>2, <1>3, Copied

\* A slice of the content is the same slice of the string.
LEMMA SliceOfString ==
    ASSUME NEW a, Good(a), NEW i \in 0..a.used, NEW j \in i..a.used
    PROVE  /\ SubSeq(Str(a), i + 1, j) = SubSeq(a.mem, i + 1, j)
           /\ SubSeq(a.mem, i + 1, j) \in Seq(Byte)
           /\ Len(SubSeq(a.mem, i + 1, j)) = j - i
           /\ \A k \in 1..j - i : SubSeq(a.mem, i + 1, j)[k] = a.mem[i + k]
<1> DEFINE s == SubSeq(Str(a), i + 1, j)
           t == SubSeq(a.mem, i + 1, j)
<1>1. /\ a.used \in Nat /\ Len(a.mem) \in Nat /\ a.used \in 0..Len(a.mem)
  BY GoodTypes
<1>2. /\ i \in 0..Len(a.mem) /\ j \in i..Len(a.mem) /\ i \in Nat /\ j \in Nat /\ i <= j
      /\ i + 1 \in Int /\ j \in Int /\ j <= a.used
  BY <1>1
<1>3. /\ t \in Seq(Byte) /\ Len(t) = j - i
      /\ \A k \in 1..j - i : t[k] = a.mem[i + k]
  BY <1>2, SliceOfBlock
<1>4. /\ Str(a) \in Seq(Byte) /\ Len(Str(a)) = a.used
      /\ \A k \in 1..a.used : Str(a)[k] = a.mem[k]
  BY StringOfBlock
<1>5. \A k \in i + 1..j : Str(a)[k] \in Byte
  <2>1. \A k \in 1..Len(Str(a)) : Str(a)[k] \in Byte
    BY <1>4, ElementOfSeq
  <2> QED
    BY <2>1, <1>1, <1>2, <1>4
<1>6. /\ s \in Seq(Byte)
      /\ Len(s) = IF i + 1 <= j THEN j - (i + 1) + 1 ELSE 0
      /\ \A k \in 1..j - (i + 1) + 1 : s[k] = Str(a)[i + 1 + k - 1]
  BY <1>2, <1>5, SubSeqProperties
<1>7. /\ j - (i + 1) + 1 = j - i /\ (i + 1 <= j \/ j - i = 0)
      /\ \A k \in 1..j - i : i + 1 + k - 1 = i + k /\ i + k \in 1..a.used
  BY <1>1, <1>2
<1> HIDE DEF s, t
<1>8. Len(s) = j - i /\ \A k \in 1..j - i : s[k] = a.mem[i + k]
  BY <1>4, <1>6, <1>7
<1>9. s = t
  BY <1>3, <1>6, <1>8, SeqEqual
<1> QED
  BY <1>3, <1>9 DEF s, t

\* A block of exactly these bytes, all of them content.
LEMMA FullBlock ==
    ASSUME NEW s \in Seq(Byte)
    PROVE  /\ Good([mem |-> s, used |-> Len(s)])
           /\ Str([mem |-> s, used |-> Len(s)]) = s
<1> DEFINE a == [mem |-> s, used |-> Len(s)]
<1>1. a.mem = s /\ a.used = Len(s) /\ Len(s) \in Nat
  BY LenProperties
<1>2. a \in Buffers
  BY <1>1 DEF Buffers, Byte
<1>3. Good(a)
  BY <1>1, <1>2 DEF Good
<1>4. Str(a) = s
  BY <1>1, SubSeqFull DEF Str, Upto
<1> QED
  BY <1>3, <1>4

\* da_crop_tail drops bytes from the front, and a number that is larger
\* than the block changes nothing.
LEMMA Cropped ==
    ASSUME NEW a, Good(a), NEW n \in 0..a.used
    PROVE  /\ Good(CropTail(a, n)) /\ CropTail(a, n).used = a.used - n
           /\ Len(CropTail(a, n).mem) = a.used - n
           /\ Str(CropTail(a, n)) = SubSeq(Str(a), n + 1, Len(Str(a)))
<1>1. /\ a.used \in Nat /\ Len(a.mem) \in Nat /\ a.used \in 0..Len(a.mem)
  BY GoodTypes
<1>2. ~(n > Len(a.mem)) /\ a.used \in n..a.used
  BY <1>1
<1> DEFINE s == SubSeq(a.mem, n + 1, a.used)
<1>3. /\ s \in Seq(Byte) /\ Len(s) = a.used - n
      /\ SubSeq(Str(a), n + 1, a.used) = s
  BY <1>2, SliceOfString
<1>4. CropTail(a, n) = [mem |-> s, used |-> Len(s)]
  BY <1>2, <1>3 DEF CropTail
<1>5. Len(Str(a)) = a.used
  BY StringOfBlock
<1> HIDE DEF s
<1>6. Good(CropTail(a, n)) /\ Str(CropTail(a, n)) = s
  BY <1>3, <1>4, FullBlock
<1> QED
  BY <1>3, <1>4, <1>5, <1>6

\* da_pop_head drops bytes from the end, once the block fits.
LEMMA Popped ==
    ASSUME NEW a, Good(a), NEW n \in 0..a.used + 1
    PROVE  /\ Good(PopHead(a, n)) /\ PopHead(a, n).used <= a.used
           /\ Len(PopHead(a, n).mem) <= a.used
           /\ Str(PopHead(a, n)) = IF n > Len(Str(a)) THEN Str(a)
                                   ELSE SubSeq(Str(a), 0 + 1, Len(Str(a)) - n)
<1> DEFINE f == Fit(a)
<1>1. a.used \in Nat /\ Len(Str(a)) = a.used
  BY GoodTypes, StringOfBlock
<1>2. Good(f) /\ f.used = a.used /\ Len(f.mem) = a.used /\ Str(f) = Str(a)
  BY Fitted
<1>3. PopHead(a, n) = IF n > Len(f.mem) THEN f ELSE Realloc(f, Len(f.mem) - n)
  BY DEF PopHead
<1> HIDE DEF f
<1>4. CASE n > a.used
  BY <1>1, <1>2, <1>3, <1>4
<1>5. CASE ~(n > a.used)
  <2> DEFINE m == a.used - n
             b == Realloc(f, m)
  <2>1. m \in 0..f.used /\ m \in 0..m /\ 0 \in 0..f.used /\ m \in Nat /\ m <= a.used
    BY <1>1, <1>2, <1>5
  <2>2. PopHead(a, n) = b
    BY <1>2, <1>3, <1>5
  <2> HIDE DEF m
  <2>3. Good(b) /\ b.used = m /\ Len(b.mem) = m /\ SameUpto(b, f, m)
    BY <1>2, <2>1, Shrink
  <2> HIDE DEF b
  <2>4. /\ SubSeq(Str(f), 0 + 1, m) \in Seq(Byte)
        /\ Len(SubSeq(Str(f), 0 + 1, m)) = m - 0
        /\ \A k \in 1..m - 0 : SubSeq(Str(f), 0 + 1, m)[k] = f.mem[0 + k]
    <3>1. /\ SubSeq(Str(f), 0 + 1, m) = SubSeq(f.mem, 0 + 1, m)
          /\ SubSeq(f.mem, 0 + 1, m) \in Seq(Byte)
          /\ Len(SubSeq(f.mem, 0 + 1, m)) = m - 0
          /\ \A k \in 1..m - 0 : SubSeq(f.mem, 0 + 1, m)[k] = f.mem[0 + k]
      BY <1>2, <2>1, SliceOfString, Zenon
    <3> QED
      BY <3>1, Zenon
  <2>5. /\ Str(b) \in Seq(Byte) /\ Len(Str(b)) = m
        /\ \A k \in 1..m : Str(b)[k] = b.mem[k]
    <3>1. /\ Str(b) \in Seq(Byte) /\ Len(Str(b)) = b.used
          /\ \A k \in 1..b.used : Str(b)[k] = b.mem[k]
      BY <2>3, StringOfBlock
    <3> QED
      BY <3>1, <2>3
  <2> DEFINE t == SubSeq(Str(f), 0 + 1, m)
  <2>6. t \in Seq(Byte) /\ Len(t) = m /\ \A k \in 1..m : t[k] = f.mem[k]
    <3>1. m - 0 = m /\ \A k \in 1..m : 0 + k = k
      BY <2>1
    <3> QED
      BY <2>4, <3>1
  <2> HIDE DEF t
  <2>7. Str(b) = t
    <3>1. Len(Str(b)) = Len(t) /\ \A k \in 1..Len(t) : Str(b)[k] = t[k]
      BY <2>3, <2>5, <2>6 DEF SameUpto
    <3> QED
      BY <2>5, <2>6, <3>1, SeqEqual
  <2>8. Str(PopHead(a, n)) = SubSeq(Str(a), 0 + 1, Len(Str(a)) - n)
    BY <1>1, <1>2, <2>2, <2>7 DEF t, m
  <2> QED
    BY <1>1, <1>5, <2>1, <2>2, <2>3, <2>8
<1> QED
  BY <1>4, <1>5

\* da_sub copies a slice of the content to a block of its size.
LEMMA Sliced ==
    ASSUME NEW a, Good(a), NEW i \in 0..a.used, NEW j \in i..a.used
    PROVE  /\ Good(Sub(a, i, j)) /\ Sub(a, i, j).used = j - i
           /\ Len(Sub(a, i, j).mem) = j - i
           /\ Str(Sub(a, i, j)) = SubSeq(Str(a), i + 1, j)
<1>1. j - i \in Nat /\ a.used \in Nat
  BY GoodTypes
<1> DEFINE s == SubSeq(a.mem, i + 1, j)
           b == InitN(j - i)
<1>2. s \in Seq(Byte) /\ Len(s) = j - i /\ SubSeq(Str(a), i + 1, j) = s
  BY SliceOfString
<1>3. Good(b) /\ b.used = 0 /\ Len(b.mem) = j - i /\ Str(b) = <<>>
  BY <1>1, NewBlock
<1>4. Sub(a, i, j) = Append_(b, s)
  BY DEF Sub
<1> HIDE DEF s, b
<1>5. /\ Good(Append_(b, s)) /\ Append_(b, s).used = b.used + Len(s)
      /\ Len(Append_(b, s).mem) \in {Len(b.mem), b.used + Len(s)}
      /\ Str(Append_(b, s)) = Str(b) \o s
  BY <1>2, <1>3, Appended
<1>6. <<>> \o s = s
  BY <1>2, ConcatEmptySeq
<1>7. 0 + (j - i) = j - i
  BY <1>1
<1> QED
  BY <1>2, <1>3, <1>4, <1>5, <1>6, <1>7

\* da_dub copies the content.
LEMMA Doubled ==
    ASSUME NEW a, Good(a)
    PROVE  /\ Good(Dub(a)) /\ Dub(a).used = a.used /\ Len(Dub(a).mem) = a.used
           /\ Str(Dub(a)) = Str(a)
<1>1. a.used \in Nat
  BY GoodTypes
<1> DEFINE s == Str(a)
           b == InitN(a.used)
<1>2. s \in Seq(Byte) /\ Len(s) = a.used
  BY StringOfBlock
<1>3. Good(b) /\ b.used = 0 /\ Len(b.mem) = a.used /\ Str(b) = <<>>
  BY <1>1, NewBlock
<1>4. Dub(a) = Append_(b, s)
  BY DEF Dub, Str
<1> HIDE DEF s, b
<1>5. /\ Good(Append_(b, s)) /\ Append_(b, s).used = b.used + Len(s)
      /\ Len(Append_(b, s).mem) \in {Len(b.mem), b.used + Len(s)}
      /\ Str(Append_(b, s)) = Str(b) \o s
  BY <1>2, <1>3, Appended
<1>6. <<>> \o s = s
  BY <1>2, ConcatEmptySeq
<1> QED
  BY <1>1, <1>2, <1>3, <1>4, <1>5, <1>6 DEF s

\* da_merge and da_concat join the two contents.
LEMMA Joined ==
    ASSUME NEW a, NEW b, Good(a), Good(b)
    PROVE  /\ Good(Concat(a, b)) /\ Concat(a, b).used = a.used + b.used
           /\ Len(Concat(a, b).mem) = a.used + b.used
           /\ Str(Concat(a, b)) = Str(a) \o Str(b)
<1>1. a.used \in Nat /\ b.used \in Nat
  BY GoodTypes
<1> DEFINE f == Fit(a)
           g == Fit(b)
           r == Realloc(f, Len(f.mem) + Len(g.mem))
<1>2. Good(f) /\ f.used = a.used /\ Len(f.mem) = a.used /\ Str(f) = Str(a)
  BY Fitted
<1>3. Len(g.mem) = b.used /\ g.mem = Str(b)
  BY Fitted
<1>4. Concat(a, b) = CopyIn(r, g.mem)
  BY DEF Concat
<1>5. Str(b) \in Seq(Byte)
  BY StringOfBlock
<1> HIDE DEF f, g
<1>6. Len(f.mem) + Len(g.mem) \in Nat /\ Len(f.mem) <= Len(f.mem) + Len(g.mem)
  BY <1>1, <1>2, <1>3
<1>7. /\ Good(r) /\ r.used = f.used /\ Len(r.mem) = Len(f.mem) + Len(g.mem)
      /\ SameUpto(r, f, f.used)
  BY <1>2, <1>6, Grow
<1> HIDE DEF r
<1>8. Str(r) = Str(a)
  BY <1>2, <1>7, SameString
<1>9. r.used + Len(g.mem) <= Len(r.mem) /\ g.mem \in Seq(Byte)
  BY <1>1, <1>2, <1>3, <1>5, <1>7
<1>10. /\ Good(CopyIn(r, g.mem)) /\ CopyIn(r, g.mem).used = r.used + Len(g.mem)
       /\ Len(CopyIn(r, g.mem).mem) = Len(r.mem)
       /\ Str(CopyIn(r, g.mem)) = Str(r) \o g.mem
  BY <1>7, <1>9, Copied
<1> QED
  BY <1>2, <1>3, <1>4, <1>7, <1>8, <1>10

\* da_remove joins what is before the cut to what is behind it.
LEMMA Removed ==
    ASSUME NEW a, Good(a), NEW i \in 0..a.used, NEW j \in i..a.used
    PROVE  /\ Good(Remove(a, i, j)) /\ Remove(a, i, j).used <= a.used
           /\ Len(Remove(a, i, j).mem) <= a.used
           /\ Str(Remove(a, i, j)) =
                 SubSeq(Str(a), 0 + 1, i) \o SubSeq(Str(a), j + 1, Len(Str(a)))
<1> DEFINE b == Realloc(a, i)
           c == Sub(a, j, a.used)
           t == SubSeq(Str(a), 0 + 1, i)
<1>1. /\ a.used \in Nat /\ Len(Str(a)) = a.used /\ i \in Nat /\ j \in Nat /\ i <= j
      /\ j <= a.used /\ j \in 0..a.used /\ a.used \in j..a.used
      /\ 0 \in 0..a.used /\ i \in 0..a.used
  BY GoodTypes, StringOfBlock
<1>2. Good(b) /\ b.used = i /\ SameUpto(b, a, i)
  BY Shrink
<1>3. /\ Good(c) /\ c.used = a.used - j
      /\ Str(c) = SubSeq(Str(a), j + 1, a.used)
  BY <1>1, Sliced
<1>4. Remove(a, i, j) = Concat(b, c)
  BY DEF Remove
<1>5. t \in Seq(Byte) /\ Len(t) = i /\ \A k \in 1..i : t[k] = a.mem[k]
  <2>1. /\ t = SubSeq(a.mem, 0 + 1, i)
        /\ SubSeq(a.mem, 0 + 1, i) \in Seq(Byte)
        /\ Len(SubSeq(a.mem, 0 + 1, i)) = i - 0
        /\ \A k \in 1..i - 0 : SubSeq(a.mem, 0 + 1, i)[k] = a.mem[0 + k]
    BY <1>1, SliceOfString, Zenon
  <2>2. i - 0 = i /\ \A k \in 1..i : 0 + k = k
    BY <1>1
  <2> HIDE DEF t
  <2> QED
    BY <2>1, <2>2
<1>6. /\ Str(b) \in Seq(Byte) /\ Len(Str(b)) = i
      /\ \A k \in 1..i : Str(b)[k] = b.mem[k]
  <2> HIDE DEF b
  <2>1. /\ Str(b) \in Seq(Byte) /\ Len(Str(b)) = b.used
        /\ \A k \in 1..b.used : Str(b)[k] = b.mem[k]
    BY <1>2, StringOfBlock
  <2> QED
    BY <2>1, <1>2
<1> HIDE DEF b, c, t
<1>7. Str(b) = t
  <2>1. Len(Str(b)) = Len(t) /\ \A k \in 1..Len(t) : Str(b)[k] = t[k]
    BY <1>2, <1>5, <1>6 DEF SameUpto
  <2> QED
    BY <1>5, <1>6, <2>1, SeqEqual
<1>8. /\ Good(Concat(b, c)) /\ Concat(b, c).used = b.used + c.used
      /\ Len(Concat(b, c).mem) = b.used + c.used
      /\ Str(Concat(b, c)) = Str(b) \o Str(c)
  BY <1>2, <1>3, Joined
<1>9. i + (a.used - j) <= a.used
  BY <1>1
<1> QED
  BY <1>1, <1>2, <1>3, <1>4, <1>7, <1>8, <1>9 DEF t

-----------------------------------------------------------------------------
(* The inductive invariant.                                                 *)

\* A handle has no block, or a block in order whose size is bounded.
Fine(a) ==
    a = NONE \/ (Good(a) /\ a.used <= MaxLen /\ Len(a.mem) <= InitBuffer + MaxLen)

IInv ==
    /\ da \in [Handles -> Buffers \cup {NONE}]
    /\ \A h \in Handles : Fine(da[h])

\* The string that ByteStrings has for a block.
Text(a) == IF a # NONE THEN Str(a) ELSE NONE

\* The abstract state.
Texts == [h \in Handles |-> Content(h)]

\* A block is not NONE, and neither is its string.
LEMMA NotNone ==
    ASSUME NEW a, Good(a)
    PROVE  a # NONE /\ Str(a) # NONE /\ Text(a) = Str(a)
<1>1. a \in Buffers /\ Str(a) \in Seq(Byte)
  BY StringOfBlock DEF Good
<1> QED
  BY <1>1, NoneAssumption DEF Buffers, Byte, Text

\* What the invariant says of one handle.
LEMMA OfHandle ==
    ASSUME IInv, NEW h \in Handles
    PROVE  /\ Texts[h] = Text(da[h])
           /\ Abstract!Empty(h) <=> ~Exists(h)
           /\ Exists(h) => /\ Good(da[h]) /\ da[h].used <= MaxLen
                           /\ Len(da[h].mem) <= InitBuffer + MaxLen
                           /\ Texts[h] = Str(da[h]) /\ Texts[h] # NONE
<1>1. Texts[h] = Text(da[h])
  BY DEF Texts, Content, Text, Str, Exists
<1>2. Exists(h) => /\ Good(da[h]) /\ da[h].used <= MaxLen
                   /\ Len(da[h].mem) <= InitBuffer + MaxLen
  BY DEF IInv, Fine, Exists
<1>3. Exists(h) => Text(da[h]) = Str(da[h]) /\ Text(da[h]) # NONE
  BY <1>2, NotNone
<1>4. Abstract!Empty(h) <=> ~Exists(h)
  BY <1>1, <1>3 DEF Abstract!Empty, Texts, Text, Exists
<1> QED
  BY <1>1, <1>2, <1>3, <1>4

\* Storing a block in order keeps the invariant and stores its string.
LEMMA PutBlock ==
    ASSUME IInv, NEW h \in Handles, NEW a, Fine(a), Put(h, a)
    PROVE  IInv' /\ Abstract!Put(h, Text(a))
<1>1. a \in Buffers \cup {NONE}
  BY DEF Fine, Good
<1>2. da' = [da EXCEPT ![h] = a] /\ da \in [Handles -> Buffers \cup {NONE}]
  BY DEF Put, IInv
<1>3. da' \in [Handles -> Buffers \cup {NONE}]
  BY <1>1, <1>2
<1>4. \A g \in Handles : da'[g] = IF g = h THEN a ELSE da[g]
  BY <1>2
<1>5. \A g \in Handles : Fine(da'[g])
  BY <1>4 DEF IInv
<1>6. IInv'
  BY <1>3, <1>5 DEF IInv, Fine, Good, Buffers
<1>7. Texts' = [g \in Handles |-> Text(da'[g])]
  BY DEF Texts, Content, Text, Str, Exists
<1>8. Texts = [g \in Handles |-> Text(da[g])]
  BY DEF Texts, Content, Text, Str, Exists
<1>9. Texts' = [Texts EXCEPT ![h] = Text(a)]
  BY <1>4, <1>7, <1>8, Zenon
<1> QED
  BY <1>6, <1>9 DEF Abstract!Put, Texts

\* A step that leaves the blocks leaves the strings.
LEMMA SameBlocks ==
    ASSUME IInv, UNCHANGED da
    PROVE  IInv' /\ UNCHANGED Texts
BY DEF IInv, Fine, Good, Buffers, Texts, Content, Exists, Upto

\* The data that is appended.
LEMMA DataIsBytes ==
    ASSUME NEW s \in Data
    PROVE  s \in Seq(Byte) /\ Len(s) \in Nat
<1>1. PICK n \in 0..2 : s \in [1..n -> Bytes]
  BY DEF Data
<1>2. s \in [1..n -> Byte] /\ n \in Nat
  BY <1>1 DEF Byte
<1>3. s \in Seq(Byte)
  BY <1>2
<1> QED
  BY <1>3, LenProperties

-----------------------------------------------------------------------------
(* Every step keeps the invariant and is a step of ByteStrings.             *)

LEMMA InitStep == Init => IInv /\ Abstract!Init
<1> SUFFICES ASSUME Init PROVE IInv /\ Abstract!Init
  OBVIOUS
<1>1. da = [h \in Handles |-> NONE] /\ call = NONE
  BY DEF Init
<1>2. IInv
  BY <1>1 DEF IInv, Fine
<1>3. Texts = [h \in Handles |-> NONE]
  BY <1>1 DEF Texts, Content, Exists
<1> QED
  BY <1>1, <1>2, <1>3 DEF Abstract!Init, Texts

LEMMA CreateStep ==
    ASSUME IInv, NEW h \in Handles, da_init(h)
    PROVE  IInv' /\ Abstract!Create(h)
<1>1. ~Exists(h) /\ call' = <<"init", h>> /\ Put(h, InitN(InitBuffer))
  BY DEF da_init
<1>2. /\ Good(InitN(InitBuffer)) /\ InitN(InitBuffer).used = 0
      /\ Len(InitN(InitBuffer).mem) = InitBuffer /\ Str(InitN(InitBuffer)) = <<>>
  BY InitBufferAssumption, NewBlock
<1>3. Fine(InitN(InitBuffer)) /\ Text(InitN(InitBuffer)) = <<>>
  BY <1>2, NotNone, InitBufferAssumption, MaxLenAssumption DEF Fine
<1>4. IInv' /\ Abstract!Put(h, <<>>)
  BY <1>1, <1>3, PutBlock
<1>5. Abstract!Empty(h)
  BY <1>1, OfHandle
<1> QED
  BY <1>1, <1>4, <1>5 DEF Abstract!Create

LEMMA ReleaseStep ==
    ASSUME IInv, NEW h \in Handles, da_release(h)
    PROVE  IInv' /\ Abstract!Release(h)
<1>1. Exists(h) /\ call' = <<"release", h>> /\ Put(h, NONE)
  BY DEF da_release
<1>2. Fine(NONE) /\ Text(NONE) = NONE
  BY DEF Fine, Text
<1>3. IInv' /\ Abstract!Put(h, NONE)
  BY <1>1, <1>2, PutBlock
<1>4. ~Abstract!Empty(h)
  BY <1>1, OfHandle
<1> QED
  BY <1>1, <1>3, <1>4 DEF Abstract!Release

\* Storing a block with the same string leaves the strings as they are.
LEMMA PutSameText ==
    ASSUME IInv, NEW h \in Handles, Exists(h), NEW a, Fine(a), a # NONE,
           Str(a) = Str(da[h]), Put(h, a)
    PROVE  IInv' /\ UNCHANGED Texts
<1>1. IInv' /\ Abstract!Put(h, Text(a))
  BY PutBlock
<1>2. Text(a) = Texts[h]
  BY OfHandle DEF Text
<1>3. Texts' = [Texts EXCEPT ![h] = Texts[h]]
  BY <1>1, <1>2 DEF Abstract!Put, Texts
<1>4. Texts \in [Handles -> {Texts[g] : g \in Handles}]
  BY DEF Texts
<1> QED
  BY <1>1, <1>3, <1>4

LEMMA FitStep ==
    ASSUME IInv, NEW h \in Handles, da_fit(h)
    PROVE  IInv' /\ Abstract!Fit(h)
<1>1. Exists(h) /\ call' = <<"fit", h>> /\ Put(h, Fit(da[h]))
  BY DEF da_fit
<1>2. /\ Good(da[h]) /\ da[h].used <= MaxLen /\ da[h].used \in Nat
      /\ ~Abstract!Empty(h)
  BY <1>1, OfHandle, GoodTypes
<1>3. /\ Good(Fit(da[h])) /\ Fit(da[h]).used = da[h].used
      /\ Len(Fit(da[h]).mem) = da[h].used /\ Str(Fit(da[h])) = Str(da[h])
  BY <1>2, Fitted
<1>4. Fine(Fit(da[h])) /\ Fit(da[h]) # NONE
  BY <1>2, <1>3, NotNone, InitBufferAssumption, MaxLenAssumption DEF Fine
<1>5. IInv' /\ UNCHANGED Texts
  BY <1>1, <1>3, <1>4, PutSameText
<1> QED
  BY <1>1, <1>2, <1>5 DEF Abstract!Fit, Texts

LEMMA ReserveStep ==
    ASSUME IInv, NEW h \in Handles, da_realloc(h)
    PROVE  IInv' /\ Abstract!Reserve(h)
<1>1. Exists(h)
  BY DEF da_realloc
<1>2. PICK n \in Len(da[h].mem)..MaxLen :
         call' = <<"realloc", h, n>> /\ Put(h, Realloc(da[h], n))
  BY DEF da_realloc
<1>3. /\ Good(da[h]) /\ da[h].used <= MaxLen /\ da[h].used \in Nat
      /\ Len(da[h].mem) \in Nat /\ ~Abstract!Empty(h)
  BY <1>1, OfHandle, GoodTypes
<1>4. n \in Nat /\ Len(da[h].mem) <= n /\ n \in 0..InitBuffer + MaxLen + 1 /\ n <= MaxLen
  BY <1>3, InitBufferAssumption, MaxLenAssumption
<1> DEFINE b == Realloc(da[h], n)
<1>5. /\ Good(b) /\ b.used = da[h].used /\ Len(b.mem) = n
      /\ SameUpto(b, da[h], da[h].used)
  BY <1>3, <1>4, Grow
<1> HIDE DEF b
<1>6. Str(b) = Str(da[h])
  BY <1>3, <1>5, SameString
<1>7. Fine(b) /\ b # NONE
  BY <1>3, <1>4, <1>5, NotNone, InitBufferAssumption, MaxLenAssumption DEF Fine
<1>8. IInv' /\ UNCHANGED Texts
  BY <1>1, <1>2, <1>6, <1>7, PutSameText DEF b
<1> QED
  BY <1>2, <1>3, <1>4, <1>8 DEF Abstract!Reserve, Texts

LEMMA ExtendStep ==
    ASSUME IInv, NEW h \in Handles, da_append(h)
    PROVE  IInv' /\ Abstract!Extend(h)
<1>1. Exists(h)
  BY DEF da_append
<1>2. PICK s \in Data : /\ da[h].used + Len(s) <= MaxLen
                        /\ call' = <<"append", h, s>> /\ Put(h, Append_(da[h], s))
  BY DEF da_append
<1>3. /\ Good(da[h]) /\ Len(da[h].mem) <= InitBuffer + MaxLen
      /\ Texts[h] = Str(da[h]) /\ ~Abstract!Empty(h)
  BY <1>1, OfHandle
<1>4. s \in Seq(Byte) /\ Len(s) \in Nat /\ da[h].used \in Nat /\ Len(da[h].mem) \in Nat
  BY <1>3, DataIsBytes, GoodTypes
<1> DEFINE b == Append_(da[h], s)
<1>5. /\ Good(b) /\ b.used = da[h].used + Len(s)
      /\ Len(b.mem) \in {Len(da[h].mem), da[h].used + Len(s)}
      /\ Str(b) = Str(da[h]) \o s
  BY <1>3, <1>4, Appended
<1> HIDE DEF b
<1>6. Fine(b) /\ Text(b) = Texts[h] \o s
  <2>1. Text(b) = Str(b)
    BY <1>5, NotNone
  <2>2. da[h].used + Len(s) <= InitBuffer + MaxLen
    BY <1>2, <1>4, InitBufferAssumption, MaxLenAssumption
  <2>3. b.used <= MaxLen /\ Len(b.mem) <= InitBuffer + MaxLen
    BY <1>2, <1>3, <1>5, <2>2, Zenon
  <2> QED
    BY <1>3, <1>5, <2>1, <2>3 DEF Fine
<1>7. IInv' /\ Abstract!Put(h, Texts[h] \o s)
  <2>1. Put(h, b)
    BY <1>2 DEF b
  <2>2. IInv' /\ Abstract!Put(h, Text(b))
    BY <2>1, <1>6, PutBlock
  <2> QED
    BY <2>2, <1>6
<1> QED
  BY <1>2, <1>3, <1>7 DEF Abstract!Extend, Texts

LEMMA DropFirstStep ==
    ASSUME IInv, NEW h \in Handles, da_crop_tail(h)
    PROVE  IInv' /\ Abstract!DropFirst(h)
<1>1. Exists(h)
  BY DEF da_crop_tail
<1>2. PICK n \in (0..da[h].used) \cup {Len(da[h].mem) + 1} :
         call' = <<"crop_tail", h, n>> /\ Put(h, CropTail(da[h], n))
  BY DEF da_crop_tail
<1>3. /\ Good(da[h]) /\ Len(da[h].mem) <= InitBuffer + MaxLen
      /\ da[h].used <= MaxLen
      /\ Texts[h] = Str(da[h]) /\ ~Abstract!Empty(h)
  BY <1>1, OfHandle
<1>4. /\ da[h].used \in Nat /\ Len(da[h].mem) \in Nat /\ da[h].used <= Len(da[h].mem)
      /\ Len(Str(da[h])) = da[h].used
      /\ n \in 0..InitBuffer + MaxLen + 1
  <2>1. /\ da[h].used \in Nat /\ Len(da[h].mem) \in Nat /\ da[h].used \in 0..Len(da[h].mem)
        /\ Len(Str(da[h])) = da[h].used
    BY <1>3, GoodTypes, StringOfBlock
  <2> QED
    BY <2>1, <1>3, InitBufferAssumption, MaxLenAssumption
<1> DEFINE b == CropTail(da[h], n)
           t == IF n > Len(Texts[h]) THEN Texts[h] ELSE SubSeq(Texts[h], n + 1, Len(Texts[h]))
<1>5. Good(b) /\ b.used <= MaxLen /\ Len(b.mem) <= InitBuffer + MaxLen /\ Str(b) = t
  <2>1. CASE n \in 0..da[h].used
    <3>1. /\ Good(b) /\ b.used = da[h].used - n
          /\ Len(b.mem) = da[h].used - n
          /\ Str(b) = SubSeq(Str(da[h]), n + 1, Len(Str(da[h])))
      BY <2>1, <1>3, Cropped
    <3>2. ~(n > Len(Texts[h])) /\ da[h].used - n <= MaxLen
          /\ da[h].used - n <= InitBuffer + MaxLen
      BY <2>1, <1>3, <1>4, InitBufferAssumption, MaxLenAssumption
    <3> QED
      BY <3>1, <3>2, <1>3
  <2>2. CASE n = Len(da[h].mem) + 1
    <3>1. n > Len(da[h].mem) /\ n > Len(Texts[h])
      BY <2>2, <1>3, <1>4
    <3> QED
      BY <3>1, <1>3 DEF CropTail
  <2> QED
    BY <2>1, <2>2
<1> HIDE DEF b, t
<1>6. Fine(b) /\ Text(b) = t
  BY <1>5, NotNone DEF Fine
<1>7. IInv' /\ Abstract!Put(h, t)
  <2>1. Put(h, b)
    BY <1>2 DEF b
  <2>2. IInv' /\ Abstract!Put(h, Text(b))
    BY <2>1, <1>6, PutBlock
  <2> QED
    BY <2>2, <1>6
<1> QED
  BY <1>2, <1>3, <1>4, <1>7 DEF Abstract!DropFirst, Abstract!Between, Texts, t

LEMMA DropLastStep ==
    ASSUME IInv, NEW h \in Handles, da_pop_head(h)
    PROVE  IInv' /\ Abstract!DropLast(h)
<1>1. Exists(h)
  BY DEF da_pop_head
<1>2. PICK n \in 0..da[h].used + 1 :
         call' = <<"pop_head", h, n>> /\ Put(h, PopHead(da[h], n))
  BY DEF da_pop_head
<1>3. /\ Good(da[h]) /\ da[h].used <= MaxLen
      /\ Texts[h] = Str(da[h]) /\ ~Abstract!Empty(h)
  BY <1>1, OfHandle
<1>4. da[h].used \in Nat /\ n \in 0..InitBuffer + MaxLen + 1
  <2>1. da[h].used \in Nat
    BY <1>3, GoodTypes
  <2> QED
    BY <2>1, <1>3, InitBufferAssumption, MaxLenAssumption
<1> DEFINE b == PopHead(da[h], n)
           t == IF n > Len(Texts[h]) THEN Texts[h]
                ELSE SubSeq(Texts[h], 0 + 1, Len(Texts[h]) - n)
<1>5. Good(b) /\ b.used <= da[h].used /\ Len(b.mem) <= da[h].used /\ Str(b) = t
  BY <1>3, Popped
<1> HIDE DEF b, t
<1>6. Fine(b) /\ Text(b) = t
  <2>1. b.used \in Nat /\ Len(b.mem) \in Nat
    BY <1>5, GoodTypes
  <2> QED
    BY <2>1, <1>3, <1>4, <1>5, NotNone, InitBufferAssumption, MaxLenAssumption DEF Fine
<1>7. IInv' /\ Abstract!Put(h, t)
  <2>1. Put(h, b)
    BY <1>2 DEF b
  <2>2. IInv' /\ Abstract!Put(h, Text(b))
    BY <2>1, <1>6, PutBlock
  <2> QED
    BY <2>2, <1>6
<1> QED
  BY <1>2, <1>3, <1>4, <1>7 DEF Abstract!DropLast, Abstract!Between, Texts, t

LEMMA CutStep ==
    ASSUME IInv, NEW h \in Handles, da_remove(h)
    PROVE  IInv' /\ Abstract!Cut(h)
<1>1. Exists(h)
  BY DEF da_remove
<1>2. PICK i \in 0..da[h].used, j \in 0..da[h].used :
         /\ i <= j
         /\ call' = <<"remove", h, i, j>> /\ Put(h, Remove(da[h], i, j))
  BY DEF da_remove
<1>3. /\ Good(da[h]) /\ da[h].used <= MaxLen
      /\ Texts[h] = Str(da[h]) /\ ~Abstract!Empty(h)
  BY <1>1, OfHandle
<1>4. da[h].used \in Nat /\ j \in i..da[h].used /\ Len(Texts[h]) = da[h].used
  BY <1>2, <1>3, GoodTypes, StringOfBlock
<1> DEFINE b == Remove(da[h], i, j)
           t == SubSeq(Texts[h], 0 + 1, i) \o SubSeq(Texts[h], j + 1, Len(Texts[h]))
<1>5. Good(b) /\ b.used <= da[h].used /\ Len(b.mem) <= da[h].used /\ Str(b) = t
  BY <1>3, <1>4, Removed
<1> HIDE DEF b, t
<1>6. Fine(b) /\ Text(b) = t
  <2>1. b.used \in Nat /\ Len(b.mem) \in Nat
    BY <1>5, GoodTypes
  <2> QED
    BY <2>1, <1>3, <1>4, <1>5, NotNone, InitBufferAssumption, MaxLenAssumption DEF Fine
<1>7. IInv' /\ Abstract!Put(h, t)
  <2>1. Put(h, b)
    BY <1>2 DEF b
  <2>2. IInv' /\ Abstract!Put(h, Text(b))
    BY <2>1, <1>6, PutBlock
  <2> QED
    BY <2>2, <1>6
<1> QED
  BY <1>2, <1>3, <1>4, <1>7 DEF Abstract!Cut, Abstract!Between, Texts, t

LEMMA SliceStep ==
    ASSUME IInv, NEW h \in Handles, NEW g \in Handles, da_sub(h, g)
    PROVE  IInv' /\ Abstract!Slice(h, g)
<1>1. Exists(h) /\ ~Exists(g)
  BY DEF da_sub
<1>2. PICK i \in 0..da[h].used, j \in 0..da[h].used :
         /\ i <= j
         /\ call' = <<"sub", h, g, i, j>> /\ Put(g, Sub(da[h], i, j))
  BY DEF da_sub
<1>3. /\ Good(da[h]) /\ da[h].used <= MaxLen
      /\ Texts[h] = Str(da[h]) /\ ~Abstract!Empty(h) /\ Abstract!Empty(g)
  BY <1>1, OfHandle
<1>4. da[h].used \in Nat /\ j \in i..da[h].used /\ Len(Texts[h]) = da[h].used
  BY <1>2, <1>3, GoodTypes, StringOfBlock
<1> DEFINE b == Sub(da[h], i, j)
           t == SubSeq(Texts[h], i + 1, j)
<1>5. Good(b) /\ b.used = j - i /\ Len(b.mem) = j - i /\ Str(b) = t
  BY <1>3, <1>4, Sliced
<1> HIDE DEF b, t
<1>6. Fine(b) /\ Text(b) = t
  <2>1. b.used <= MaxLen /\ Len(b.mem) <= InitBuffer + MaxLen
    BY <1>3, <1>4, <1>5, InitBufferAssumption, MaxLenAssumption
  <2> QED
    BY <2>1, <1>5, NotNone DEF Fine
<1>7. IInv' /\ Abstract!Put(g, t)
  <2>1. Put(g, b)
    BY <1>2 DEF b
  <2>2. IInv' /\ Abstract!Put(g, Text(b))
    BY <2>1, <1>6, PutBlock
  <2> QED
    BY <2>2, <1>6
<1> QED
  BY <1>2, <1>3, <1>4, <1>7 DEF Abstract!Slice, Abstract!Between, Texts, t

LEMMA CopyStep ==
    ASSUME IInv, NEW h \in Handles, NEW g \in Handles, da_dub(h, g)
    PROVE  IInv' /\ Abstract!Copy(h, g)
<1>1. /\ Exists(h) /\ ~Exists(g)
      /\ call' = <<"dub", h, g>> /\ Put(g, Dub(da[h]))
  BY DEF da_dub
<1>2. /\ Good(da[h]) /\ da[h].used <= MaxLen
      /\ Texts[h] = Str(da[h]) /\ ~Abstract!Empty(h) /\ Abstract!Empty(g)
  BY <1>1, OfHandle
<1> DEFINE b == Dub(da[h])
<1>3. Good(b) /\ b.used = da[h].used /\ Len(b.mem) = da[h].used /\ Str(b) = Texts[h]
  BY <1>2, Doubled
<1>4. da[h].used \in Nat
  BY <1>2, GoodTypes
<1>5. Fine(b) /\ Text(b) = Texts[h]
  <2> HIDE DEF b
  <2>1. b.used <= MaxLen /\ Len(b.mem) <= InitBuffer + MaxLen
    BY <1>2, <1>3, <1>4, InitBufferAssumption, MaxLenAssumption
  <2> QED
    BY <2>1, <1>3, NotNone DEF Fine
<1>6. IInv' /\ Abstract!Put(g, Texts[h])
  <2>1. IInv' /\ Abstract!Put(g, Text(b))
    BY <1>1, <1>5, PutBlock
  <2> QED
    BY <2>1, <1>5
<1> QED
  BY <1>1, <1>2, <1>6 DEF Abstract!Copy, Texts

\* The block that da_merge and da_concat store.
LEMMA JoinedBlock ==
    ASSUME IInv, NEW h \in Handles, NEW g \in Handles, Exists(h), Exists(g),
           da[h].used + da[g].used <= MaxLen
    PROVE  /\ Fine(Concat(da[h], da[g]))
           /\ Text(Concat(da[h], da[g])) = Texts[h] \o Texts[g]
<1>1. /\ Good(da[h]) /\ Good(da[g])
      /\ Texts[h] = Str(da[h]) /\ Texts[g] = Str(da[g])
  BY OfHandle
<1>2. da[h].used \in Nat /\ da[g].used \in Nat
  BY <1>1, GoodTypes
<1> DEFINE b == Concat(da[h], da[g])
<1>3. /\ Good(b) /\ b.used = da[h].used + da[g].used
      /\ Len(b.mem) = da[h].used + da[g].used /\ Str(b) = Str(da[h]) \o Str(da[g])
  BY <1>1, Joined
<1> HIDE DEF b
<1>4. b.used <= MaxLen /\ Len(b.mem) <= InitBuffer + MaxLen
  BY <1>2, <1>3, InitBufferAssumption, MaxLenAssumption
<1>5. Text(b) = Str(b)
  BY <1>3, NotNone
<1> QED
  BY <1>1, <1>3, <1>4, <1>5 DEF b, Fine

PutBlocks(h, a, g, b) == da' = [da EXCEPT ![h] = a, ![g] = b]
PutTexts(h, s, g, t) == Texts' = [Texts EXCEPT ![h] = s, ![g] = t]

\* Two blocks are stored at once.
LEMMA PutTwo ==
    ASSUME IInv, NEW h \in Handles, NEW g \in Handles, h # g,
           NEW a, Fine(a), NEW b, Fine(b),
           PutBlocks(h, a, g, b)
    PROVE  IInv' /\ PutTexts(h, Text(a), g, Text(b))
<1>1. a \in Buffers \cup {NONE} /\ b \in Buffers \cup {NONE}
  BY DEF Fine, Good
<1>2. da' \in [Handles -> Buffers \cup {NONE}]
  BY <1>1 DEF IInv, PutBlocks
<1>3. \A k \in Handles : da'[k] = IF k = g THEN b ELSE IF k = h THEN a ELSE da[k]
  BY DEF IInv, PutBlocks
<1>4. \A k \in Handles : Fine(da'[k])
  BY <1>3 DEF IInv
<1>5. IInv'
  BY <1>2, <1>4 DEF IInv, Fine, Good, Buffers
<1>6. Texts' = [k \in Handles |-> Text(da'[k])]
  BY DEF Texts, Content, Text, Str, Exists
<1>7. Texts = [k \in Handles |-> Text(da[k])]
  BY DEF Texts, Content, Text, Str, Exists
<1>8. Texts' = [Texts EXCEPT ![h] = Text(a), ![g] = Text(b)]
  <2>1. [Texts EXCEPT ![h] = Text(a), ![g] = Text(b)] =
        [k \in Handles |-> IF k = g THEN Text(b) ELSE IF k = h THEN Text(a) ELSE Text(da[k])]
    BY <1>7
  <2>2. \A k \in Handles : Text(da'[k]) =
           IF k = g THEN Text(b) ELSE IF k = h THEN Text(a) ELSE Text(da[k])
    <3> TAKE k \in Handles
    <3>1. CASE k = g
      BY <3>1, <1>3
    <3>2. CASE k # g /\ k = h
      BY <3>2, <1>3
    <3>3. CASE k # g /\ k # h
      BY <3>3, <1>3
    <3> QED
      BY <3>1, <3>2, <3>3
  <2> QED
    BY <1>6, <2>1, <2>2
<1> QED
  BY <1>5, <1>8 DEF PutTexts

LEMMA MergeStep ==
    ASSUME IInv, NEW h \in Handles, NEW g \in Handles, h # g, da_merge(h, g)
    PROVE  IInv' /\ Abstract!Merge(h, g)
<1>1. /\ Exists(h) /\ Exists(g) /\ da[h].used + da[g].used <= MaxLen
      /\ call' = <<"merge", h, g>>
      /\ da' = [da EXCEPT ![h] = Concat(da[h], da[g]), ![g] = NONE]
  BY DEF da_merge
<1>2. ~Abstract!Empty(h) /\ ~Abstract!Empty(g)
  BY <1>1, OfHandle
<1> DEFINE b == Concat(da[h], da[g])
<1>3. Fine(b) /\ Text(b) = Texts[h] \o Texts[g]
  BY <1>1, JoinedBlock
<1>4. Fine(NONE) /\ Text(NONE) = NONE
  BY DEF Fine, Text
<1> HIDE DEF b
<1>5. IInv' /\ PutTexts(h, Text(b), g, Text(NONE))
  <2>1. PutBlocks(h, b, g, NONE)
    BY <1>1 DEF b, PutBlocks
  <2> QED
    BY <2>1, <1>3, <1>4, PutTwo
<1>6. Texts' = [Texts EXCEPT ![h] = @ \o Texts[g], ![g] = NONE]
  BY <1>3, <1>4, <1>5 DEF PutTexts
<1> QED
  BY <1>1, <1>2, <1>5, <1>6 DEF Abstract!Merge, Texts

LEMMA JoinStep ==
    ASSUME IInv, NEW h \in Handles, NEW g \in Handles, h # g, da_concat(h, g)
    PROVE  IInv' /\ Abstract!Join(h, g)
<1>1. /\ Exists(h) /\ Exists(g) /\ da[h].used + da[g].used <= MaxLen
      /\ call' = <<"concat", h, g>>
      /\ da' = [da EXCEPT ![h] = Concat(da[h], da[g]), ![g] = Fit(da[g])]
  BY DEF da_concat
<1>2. /\ ~Abstract!Empty(h) /\ ~Abstract!Empty(g)
      /\ Good(da[g]) /\ da[g].used <= MaxLen /\ Texts[g] = Str(da[g])
  BY <1>1, OfHandle
<1> DEFINE b == Concat(da[h], da[g])
           f == Fit(da[g])
<1>3. Fine(b) /\ Text(b) = Texts[h] \o Texts[g]
  BY <1>1, JoinedBlock
<1>4. Good(f) /\ f.used = da[g].used /\ Len(f.mem) = da[g].used /\ Str(f) = Texts[g]
  BY <1>2, Fitted
<1>5. da[g].used \in Nat
  BY <1>2, GoodTypes
<1>6. Fine(f) /\ Text(f) = Texts[g]
  <2> HIDE DEF f
  <2>1. f.used <= MaxLen /\ Len(f.mem) <= InitBuffer + MaxLen
    BY <1>2, <1>4, <1>5, InitBufferAssumption, MaxLenAssumption
  <2> QED
    BY <2>1, <1>4, NotNone DEF Fine
<1> HIDE DEF b, f
<1>7. IInv' /\ PutTexts(h, Text(b), g, Text(f))
  <2>1. PutBlocks(h, b, g, f)
    BY <1>1 DEF b, f, PutBlocks
  <2> QED
    BY <2>1, <1>3, <1>6, PutTwo
<1>8. Texts \in [Handles -> {Texts[k] : k \in Handles}]
  BY DEF Texts
<1>9. Texts' = [Texts EXCEPT ![h] = Texts[h] \o Texts[g]]
  BY <1>3, <1>6, <1>7, <1>8 DEF PutTexts
<1> QED
  BY <1>1, <1>2, <1>7, <1>9 DEF Abstract!Join, Abstract!Put, Texts

-----------------------------------------------------------------------------
(* The functions that compare.                                              *)

\* memcmp of the whole contents tells whether the strings are the same.
LEMMA CompareStrings ==
    ASSUME NEW a, NEW b, Good(a), Good(b)
    PROVE  da_compare(a, b) <=> Str(a) = Str(b)
<1>1. /\ Str(a) \in Seq(Byte) /\ Len(Str(a)) = a.used
      /\ \A k \in 1..a.used : Str(a)[k] = a.mem[k]
  BY StringOfBlock
<1>2. /\ Str(b) \in Seq(Byte) /\ Len(Str(b)) = b.used
      /\ \A k \in 1..b.used : Str(b)[k] = b.mem[k]
  BY StringOfBlock
<1>3. ASSUME da_compare(a, b) PROVE Str(a) = Str(b)
  <2>1. Len(Str(a)) = Len(Str(b)) /\ \A k \in 1..Len(Str(a)) : Str(a)[k] = Str(b)[k]
    BY <1>1, <1>2, <1>3 DEF da_compare, Memcmp
  <2> QED
    BY <1>1, <1>2, <2>1, SeqEqual
<1>4. ASSUME Str(a) = Str(b) PROVE da_compare(a, b)
  BY <1>1, <1>2, <1>4 DEF da_compare, Memcmp
<1> QED
  BY <1>3, <1>4

\* memcmp of n bytes of a content with data that has as many tells whether
\* the strings agree that far.
LEMMA MemcmpIsPrefix ==
    ASSUME NEW a, Good(a), NEW s \in Seq(Byte)
    PROVE  /\ Len(s) <= a.used =>
                 (Memcmp(a.mem, s, Len(s)) <=> SubSeq(Str(a), 1, Len(s)) = s)
           /\ a.used <= Len(s) =>
                 (Memcmp(a.mem, s, a.used) <=> SubSeq(s, 1, a.used) = Str(a))
<1> DEFINE n == a.used
           l == Len(s)
<1>1. /\ Str(a) \in Seq(Byte) /\ Len(Str(a)) = n
      /\ \A k \in 1..n : Str(a)[k] = a.mem[k] /\ Str(a)[k] \in Byte
  BY StringOfBlock, ElementOfSeq
<1>2. n \in Nat /\ l \in Nat /\ \A k \in 1..l : s[k] \in Byte
  BY GoodTypes, LenProperties, ElementOfSeq
<1> HIDE DEF n
<1>3. ASSUME l <= n PROVE Memcmp(a.mem, s, l) <=> SubSeq(Str(a), 1, l) = s
  <2> DEFINE t == SubSeq(Str(a), 1, l)
  <2>1. /\ 1 \in Int /\ l \in Int
        /\ \A k \in 1..l : Str(a)[k] \in Byte /\ Str(a)[k] = a.mem[k]
    BY <1>1, <1>2, <1>3
  <2> HIDE DEF l
  <2>2. /\ t \in Seq(Byte) /\ Len(t) = IF 1 <= l THEN l - 1 + 1 ELSE 0
        /\ \A k \in 1..l - 1 + 1 : t[k] = Str(a)[1 + k - 1]
    BY <2>1, SubSeqProperties
  <2>3. l - 1 + 1 = l /\ (IF 1 <= l THEN l ELSE 0) = l /\ \A k \in 1..l : 1 + k - 1 = k
    BY <1>2
  <2> HIDE DEF t
  <2>4. Len(t) = l /\ \A k \in 1..l : t[k] = a.mem[k]
    BY <2>1, <2>2, <2>3
  <2>5. Memcmp(a.mem, s, l) <=> \A k \in 1..l : t[k] = s[k]
    BY <2>4 DEF Memcmp
  <2>6. (\A k \in 1..l : t[k] = s[k]) <=> t = s
    <3>1. Len(t) = Len(s) /\ Len(t) = l
      BY <2>4 DEF l
    <3> QED
      BY <2>2, <3>1, SeqEqual
  <2> QED
    BY <2>5, <2>6 DEF t
<1>4. ASSUME n <= l PROVE Memcmp(a.mem, s, n) <=> SubSeq(s, 1, n) = Str(a)
  <2> DEFINE t == SubSeq(s, 1, n)
  <2>1. 1 \in Int /\ n \in Int /\ \A k \in 1..n : s[k] \in Byte
    BY <1>2, <1>4
  <2>2. /\ t \in Seq(Byte) /\ Len(t) = IF 1 <= n THEN n - 1 + 1 ELSE 0
        /\ \A k \in 1..n - 1 + 1 : t[k] = s[1 + k - 1]
    BY <2>1, SubSeqProperties
  <2>3. n - 1 + 1 = n /\ (IF 1 <= n THEN n ELSE 0) = n /\ \A k \in 1..n : 1 + k - 1 = k
    BY <1>2
  <2> HIDE DEF t
  <2>4. Len(t) = n /\ \A k \in 1..n : t[k] = s[k]
    BY <2>2, <2>3
  <2>5. Memcmp(a.mem, s, n) <=> \A k \in 1..n : t[k] = Str(a)[k]
    BY <1>1, <2>4 DEF Memcmp
  <2>6. (\A k \in 1..n : t[k] = Str(a)[k]) <=> t = Str(a)
    BY <1>1, <2>2, <2>4, SeqEqual
  <2> QED
    BY <2>5, <2>6 DEF t
<1> QED
  BY <1>3, <1>4 DEF n

\* What the three comparisons with a C string tell.
LEMMA CompareData ==
    ASSUME NEW a, Good(a), NEW s \in Data
    PROVE  <<da_comparez(a, s), string_comparez(a, s), string_starts_with(a, s)>> =
           <<Abstract!Prefix(s, Str(a)) \/ Abstract!Prefix(Str(a), s), s = Str(a),
             Abstract!Prefix(s, Str(a))>>
<1>1. s \in Seq(Byte) /\ Len(s) \in Nat /\ a.used \in Nat /\ Len(Str(a)) = a.used
      /\ Str(a) \in Seq(Byte)
  BY DataIsBytes, GoodTypes, StringOfBlock
<1>2. Len(s) <= a.used => (Memcmp(a.mem, s, Len(s)) <=> SubSeq(Str(a), 1, Len(s)) = s)
  BY <1>1, MemcmpIsPrefix
<1>3. a.used <= Len(s) => (Memcmp(a.mem, s, a.used) <=> SubSeq(s, 1, a.used) = Str(a))
  BY <1>1, MemcmpIsPrefix
<1>4. Abstract!Prefix(s, Str(a)) <=> Len(s) <= a.used /\ SubSeq(Str(a), 1, Len(s)) = s
  BY <1>1 DEF Abstract!Prefix
<1>5. Abstract!Prefix(Str(a), s) <=> a.used <= Len(s) /\ SubSeq(s, 1, a.used) = Str(a)
  BY <1>1 DEF Abstract!Prefix
<1>6. string_starts_with(a, s) <=> Abstract!Prefix(s, Str(a))
  BY <1>2, <1>4 DEF string_starts_with
<1>7. da_comparez(a, s) <=> Abstract!Prefix(s, Str(a)) \/ Abstract!Prefix(Str(a), s)
  <2>1. CASE a.used < Len(s)
    BY <2>1, <1>1, <1>3, <1>4, <1>5 DEF da_comparez
  <2>2. CASE ~(a.used < Len(s))
    <3>1. Len(s) <= a.used /\ (a.used <= Len(s) => a.used = Len(s))
      BY <2>2, <1>1
    <3>2. da_comparez(a, s) <=> Abstract!Prefix(s, Str(a))
      BY <2>2, <3>1, <1>2, <1>4 DEF da_comparez
    <3>3. Abstract!Prefix(Str(a), s) => Abstract!Prefix(s, Str(a))
      BY <3>1, <1>2, <1>3, <1>4, <1>5
    <3> QED
      BY <3>2, <3>3
  <2> QED
    BY <2>1, <2>2
<1>8. string_comparez(a, s) <=> s = Str(a)
  <2>1. CASE a.used = Len(s)
    <3>1. SubSeq(Str(a), 1, Len(s)) = Str(a)
      BY <2>1, <1>1, SubSeqFull
    <3> QED
      BY <2>1, <3>1, <1>1, <1>2 DEF string_comparez
  <2>2. CASE a.used # Len(s)
    BY <2>2, <1>1 DEF string_comparez
  <2> QED
    BY <2>1, <2>2
<1>9. /\ da_comparez(a, s) = (Abstract!Prefix(s, Str(a)) \/ Abstract!Prefix(Str(a), s))
      /\ string_comparez(a, s) = (s = Str(a))
      /\ string_starts_with(a, s) = Abstract!Prefix(s, Str(a))
  <2>1. da_comparez(a, s) \in BOOLEAN
    BY DEF da_comparez, Memcmp
  <2>2. string_comparez(a, s) \in BOOLEAN /\ string_starts_with(a, s) \in BOOLEAN
    BY DEF string_comparez, string_starts_with
  <2>3. Abstract!Prefix(s, Str(a)) \in BOOLEAN
    BY DEF Abstract!Prefix
  <2> QED
    BY <1>6, <1>7, <1>8, <2>1, <2>2, <2>3, Zenon
<1> QED
  BY <1>9

LEMMA ReadStep ==
    ASSUME IInv, NEW h \in Handles, Read(h)
    PROVE  IInv' /\ Abstract!Read(h)
<1> DEFINE there == {f \in Handles : Exists(f)}
           handles == [g \in there |-> da_compare(da[h], da[g])]
           strings == [data \in Data |->
                         <<da_comparez(da[h], data), string_comparez(da[h], data),
                           string_starts_with(da[h], data)>>]
           handlesA == [g \in {f \in Handles : ~Abstract!Empty(f)} |-> Texts[h] = Texts[g]]
           stringsA == [s \in Data |->
                         <<Abstract!Prefix(s, Texts[h]) \/ Abstract!Prefix(Texts[h], s),
                           s = Texts[h], Abstract!Prefix(s, Texts[h])>>]
<1>1. Exists(h) /\ UNCHANGED da /\ call' = <<"read", h, handles, strings>>
  BY DEF Read
<1>2. IInv' /\ UNCHANGED Texts /\ ~Abstract!Empty(h) /\ Good(da[h]) /\ Texts[h] = Str(da[h])
  BY <1>1, SameBlocks, OfHandle
<1>3. there = {f \in Handles : ~Abstract!Empty(f)}
  BY OfHandle
<1>4. \A g \in there : da_compare(da[h], da[g]) = (Texts[h] = Texts[g])
  <2> TAKE g \in there
  <2>1. Good(da[g]) /\ Texts[g] = Str(da[g])
    BY OfHandle
  <2>2. da_compare(da[h], da[g]) <=> Texts[h] = Texts[g]
    BY <1>2, <2>1, CompareStrings
  <2> QED
    BY <2>2 DEF da_compare, Memcmp
<1>5. handles = handlesA
  BY <1>3, <1>4
<1>6. \A s \in Data :
         <<da_comparez(da[h], s), string_comparez(da[h], s), string_starts_with(da[h], s)>> =
         <<Abstract!Prefix(s, Texts[h]) \/ Abstract!Prefix(Texts[h], s), s = Texts[h],
           Abstract!Prefix(s, Texts[h])>>
  BY <1>2, CompareData
<1>7. strings = stringsA
  BY <1>6, Zenon
<1>8. call' = <<"read", h, handlesA, stringsA>>
  BY <1>1, <1>5, <1>7, Zenon
<1> QED
  BY <1>2, <1>8, Zenon DEF Abstract!Read, Texts

LEMMA NextStep == IInv /\ [Next]_vars => IInv' /\ [Abstract!Next]_<<Texts, call>>
<1> SUFFICES ASSUME IInv, [Next]_vars
             PROVE  IInv' /\ [Abstract!Next]_<<Texts, call>>
  OBVIOUS
<1>1. CASE UNCHANGED vars
  BY <1>1, SameBlocks DEF vars
<1>2. ASSUME NEW h \in Handles,
             \/ Read(h)
             \/ da_init(h) \/ da_release(h) \/ da_fit(h)
             \/ da_realloc(h) \/ da_append(h)
             \/ da_crop_tail(h) \/ da_pop_head(h) \/ da_remove(h)
      PROVE  IInv' /\ [Abstract!Next]_<<Texts, call>>
  <2>1. \/ IInv' /\ Abstract!Read(h)
        \/ IInv' /\ Abstract!Create(h)
        \/ IInv' /\ Abstract!Release(h)
        \/ IInv' /\ Abstract!Fit(h)
        \/ IInv' /\ Abstract!Reserve(h)
        \/ IInv' /\ Abstract!Extend(h)
        \/ IInv' /\ Abstract!DropFirst(h)
        \/ IInv' /\ Abstract!DropLast(h)
        \/ IInv' /\ Abstract!Cut(h)
    BY <1>2, ReadStep, CreateStep, ReleaseStep, FitStep, ReserveStep, ExtendStep,
       DropFirstStep, DropLastStep, CutStep
  <2> QED
    BY <2>1, Zenon DEF Abstract!Next
<1>3. ASSUME NEW h \in Handles, NEW g \in Handles, h # g,
             da_sub(h, g) \/ da_dub(h, g) \/ da_merge(h, g) \/ da_concat(h, g)
      PROVE  IInv' /\ [Abstract!Next]_<<Texts, call>>
  <2>1. \/ IInv' /\ Abstract!Slice(h, g)
        \/ IInv' /\ Abstract!Copy(h, g)
        \/ IInv' /\ Abstract!Merge(h, g)
        \/ IInv' /\ Abstract!Join(h, g)
    BY <1>3, SliceStep, CopyStep, MergeStep, JoinStep
  <2> QED
    BY <2>1, <1>3, Zenon DEF Abstract!Next
<1> QED
  BY <1>1, <1>2, <1>3 DEF Next

-----------------------------------------------------------------------------
(* The invariant holds in every state: what the theorems below rest on.    *)
LEMMA AlwaysFine == Spec => []IInv
<1>1. Init => IInv
  BY InitStep
<1>2. IInv /\ [Next]_vars => IInv'
  BY NextStep
<1> QED
  BY <1>1, <1>2, PTL DEF Spec

(* Every buffer of dynamic_allocator.c keeps its content inside its block,  *)
(* whatever calls are made in whatever order.                              *)
THEOREM BuffersCorrect == Spec => []TypeOK
<1>1. IInv => TypeOK
  BY DEF IInv, Fine, Good, TypeOK, Exists
<1> QED
  BY <1>1, AlwaysFine, PTL

(* The room that realloc, the appends and the cuts of dynamic_allocator.c  *)
(* leave behind a content is always zero.                                  *)
THEOREM RoomCorrect == Spec => []RoomIsZero
<1>1. IInv => RoomIsZero
  BY DEF IInv, Fine, Good, RoomIsZero, Exists
<1> QED
  BY <1>1, AlwaysFine, PTL

(* Each call of dynamic_allocator.c does to the contents exactly what the  *)
(* plain operation of ByteStrings does to the strings, and the functions   *)
(* that compare give the answers that the strings have.                    *)
THEOREM StringsCorrect == Spec => ImplementsStrings
<1>1. Init => Abstract!Init
  BY InitStep
<1>2. IInv /\ [Next]_vars => [Abstract!Next]_<<Texts, call>>
  BY NextStep
<1>3. [Abstract!Next]_<<Texts, call>> => [Abstract!Next]_(Abstract!vars)
  BY DEF Abstract!vars, Texts
<1>4. Spec => Abstract!Spec
  BY <1>1, <1>2, <1>3, AlwaysFine, PTL DEF Spec, Abstract!Spec
<1> QED
  BY <1>4 DEF ImplementsStrings
=============================================================================
