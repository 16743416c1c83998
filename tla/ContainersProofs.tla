-------------------------- MODULE ContainersProofs --------------------------
(***************************************************************************)
(* Proofs about the containers: what following their links comes by, that  *)
(* the links stay whole through any sequence of calls, and that lists,     *)
(* queue, stack, tree and vector do what the abstract containers promise.  *)
(***************************************************************************)
EXTENDS ContainersMC, SequenceTheorems, FiniteSetTheorems, WellFoundedInduction, TLAPS

-----------------------------------------------------------------------------
(* Counting.                                                                *)

LEMMA LeastNumber ==
    ASSUME NEW T, T \subseteq Nat, T # {}
    PROVE  \E m \in T : \A k \in T : m <= k
<1> DEFINE R == OpToRel(<, Nat)
<1>1. IsWellFoundedOn(R, Nat)
  BY NatLessThanWellFounded
<1>2. \A j, k \in Nat : j < k => <<j, k>> \in R
  BY DEF OpToRel
<1> HIDE DEF R
<1>3. PICK m \in T : \A k \in T : ~(<<k, m>> \in R)
  BY <1>1, WFMin
<1>4. \A k \in T : ~(k < m)
  BY <1>2, <1>3
<1>5. \A k \in T : m <= k
  BY <1>4
<1> QED
  BY <1>5

LEMMA Induction ==
    ASSUME NEW S, 0 \in S, \A n \in Nat : n \in S => n + 1 \in S
    PROVE  Nat \subseteq S
<1> DEFINE T == Nat \ S
<1>1. CASE T = {}
  BY <1>1
<1>2. CASE T # {}
  <2>1. PICK m \in T : \A k \in T : m <= k
    BY <1>2, LeastNumber
  <2>2. m # 0 /\ m - 1 \in Nat
    BY <2>1
  <2>3. m - 1 \in S
    BY <2>1, <2>2
  <2> QED
    BY <2>2, <2>3
<1> QED
  BY <1>1, <1>2

-----------------------------------------------------------------------------
(* Following links.                                                         *)

\* No node is met twice.
Distinct(s) == \A i, j \in 1..Len(s) : s[i] = s[j] => i = j

\* s is linked from head on to the null pointer.
IsChain(s, to, head, null) ==
    /\ Distinct(s)
    /\ head = IF s = <<>> THEN null ELSE s[1]
    /\ \A i \in 1..Len(s) : to[s[i]] = IF i = Len(s) THEN null ELSE s[i + 1]

\* What the local function of Along satisfies.
Meets(at, to, head, null) ==
    at = [k \in 1..Cardinality(DOMAIN to) |->
             IF k = 1 THEN head ELSE IF at[k - 1] = null THEN null ELSE to[at[k - 1]]]

\* And what Along makes of it.
Collects(at, to, head, null) ==
    /\ Meets(at, to, head, null)
    /\ Along(to, head, null)
         = [k \in 1..Cardinality({j \in 1..Cardinality(DOMAIN to) : at[j] # null}) |-> at[k]]

LEMMA AlongMeets ==
    ASSUME NEW to, NEW head, NEW null, NEW at, Meets(at, to, head, null)
    PROVE  \E f : Collects(f, to, head, null)
<1> DEFINE f == CHOOSE g : Meets(g, to, head, null)
<1>1. Along(to, head, null)
        = [k \in 1..Cardinality({j \in 1..Cardinality(DOMAIN to) : f[j] # null}) |-> f[k]]
  BY Zenon DEF Along, Meets
<1>2. Meets(f, to, head, null)
  BY Zenon
<1> QED
  BY <1>1, <1>2, Zenon DEF Collects

\* A sequence without repetition is no longer than there are members.
LEMMA DistinctIsShort ==
    ASSUME NEW S, IsFiniteSet(S), NEW s \in Seq(S), Distinct(s)
    PROVE  Cardinality(S) \in Nat /\ Len(s) <= Cardinality(S)
<1> DEFINE n == Len(s)
           c == Cardinality(S)
<1>1. n \in Nat /\ s \in [1..n -> S]
  BY LenProperties
<1>2. c \in Nat
  BY FS_CardinalityType
<1>3. IsFiniteSet(1..n) /\ Cardinality(1..n) = IF 1 > n THEN 0 ELSE n - 1 + 1
  BY <1>1, FS_Interval
<1>4. Cardinality(1..n) = n
  BY <1>1, <1>3
<1>5. ASSUME c < n PROVE FALSE
  <2>1. PICK i, j \in 1..n : i # j /\ s[i] = s[j]
    BY <1>1, <1>3, <1>4, <1>5, FS_PigeonHole
  <2> QED
    BY <2>1 DEF Distinct
<1> QED
  BY <1>1, <1>2, <1>5

\* Following a chain from its head comes by its nodes.
LEMMA AlongChain ==
    ASSUME NEW S, IsFiniteSet(S), NEW to, DOMAIN to = S, NEW null, null \notin S,
           NEW s \in Seq(S), NEW head, IsChain(s, to, head, null)
    PROVE  Along(to, head, null) = s
<1> DEFINE N == Cardinality(S)
           L == Len(s)
           all == [k \in 1..N |-> IF k <= L THEN s[k] ELSE null]
           Step(at, k) == IF k = 1 THEN head
                          ELSE IF at[k - 1] = null THEN null ELSE to[at[k - 1]]
<1>1. N \in Nat /\ L \in Nat /\ L <= N
  BY DistinctIsShort, LenProperties DEF IsChain
<1>2. s = [k \in 1..L |-> s[k]] /\ \A k \in 1..L : s[k] \in S
  BY LenProperties
<1>3. s = <<>> <=> L = 0
  BY EmptySeq
<1> HIDE DEF N, L
<1>4. ASSUME NEW k \in 1..N, NEW at, k = 1 \/ at[k - 1] = all[k - 1]
      PROVE  all[k] = Step(at, k)
  <2>1. CASE k = 1
    BY <1>1, <1>2, <1>3, <2>1 DEF IsChain
  <2>2. CASE k # 1 /\ k - 1 <= L
    <3>1. k - 1 \in 1..L /\ k - 1 \in 1..N /\ (k - 1) + 1 = k
      BY <1>1, <2>2
    <3>2. all[k - 1] = s[k - 1] /\ s[k - 1] # null
      BY <1>2, <2>2, <3>1
    <3>3. to[s[k - 1]] = IF k - 1 = L THEN null ELSE s[(k - 1) + 1]
      BY <3>1 DEF IsChain, L
    <3>4. all[k] = IF k - 1 = L THEN null ELSE s[k]
      BY <1>1, <2>2, <3>1
    <3> HIDE DEF all
    <3> QED
      BY <1>4, <2>2, <3>1, <3>2, <3>3, <3>4
  <2>3. CASE k # 1 /\ ~(k - 1 <= L)
    <3>1. k - 1 \in 1..N /\ ~(k <= L)
      BY <1>1, <2>3
    <3>2. all[k - 1] = null /\ all[k] = null
      BY <2>3, <3>1
    <3> HIDE DEF all
    <3> QED
      BY <1>4, <2>3, <3>2
  <2> QED
    BY <2>1, <2>2, <2>3
<1>5. Meets(all, to, head, null)
  <2>1. ASSUME NEW k \in 1..N PROVE all[k] = Step(all, k)
    <3> HIDE DEF all, Step
    <3> QED
      BY <1>4
  <2>2. all = [k \in 1..N |-> all[k]]
    OBVIOUS
  <2> HIDE DEF all
  <2>3. all = [k \in 1..N |-> Step(all, k)]
    BY <2>1, <2>2
  <2> QED
    BY <2>3 DEF Meets, N
<1> HIDE DEF all
<1>6. PICK f : Collects(f, to, head, null)
  BY <1>5, AlongMeets, Zenon
<1>0. Cardinality(DOMAIN to) = N
  BY DEF N
<1> USE DEF all
<1>7. \A k \in 1..N : f[k] = Step(f, k)
  BY <1>6 DEF Collects, Meets, N
<1> HIDE DEF Step
<1> DEFINE I == {k \in Nat : k + 1 <= N => f[k + 1] = all[k + 1]}
<1>8. 0 \in I
  <2>1. ASSUME 0 + 1 <= N PROVE f[0 + 1] = all[0 + 1]
    <3>1. 0 + 1 \in 1..N /\ 0 + 1 = 1
      BY <1>1, <2>1
    <3> HIDE DEF all
    <3> QED
      BY <1>4, <1>7, <3>1
  <2> QED
    BY <2>1
<1>9. ASSUME NEW k \in Nat, k \in I PROVE k + 1 \in I
  <2>1. ASSUME (k + 1) + 1 <= N PROVE f[(k + 1) + 1] = all[(k + 1) + 1]
    <3>1. (k + 1) + 1 \in 1..N /\ ((k + 1) + 1) - 1 = k + 1 /\ k + 1 <= N
      BY <1>1, <2>1
    <3>2. f[k + 1] = all[k + 1]
      BY <1>9, <3>1
    <3> HIDE DEF all
    <3> QED
      BY <1>4, <1>7, <3>1, <3>2
  <2> QED
    BY <2>1
<1>10. ASSUME NEW k \in 1..N PROVE f[k] = all[k]
  <2>1. Nat \subseteq I
    <3> HIDE DEF I
    <3> QED
      BY <1>8, <1>9, Induction
  <2>2. k - 1 \in Nat /\ (k - 1) + 1 = k /\ k <= N
    BY <1>1
  <2>3. k - 1 \in I
    BY <2>1, <2>2
  <2> QED
    BY <2>2, <2>3
<1>11. {j \in 1..N : f[j] # null} = 1..L
  <2>1. ASSUME NEW j \in 1..N PROVE f[j] # null <=> j <= L
    BY <1>1, <1>2, <1>10, <2>1
  <2> QED
    BY <1>1, <2>1
<1>12. Cardinality(1..L) = L
  BY <1>1, FS_Interval
<1>13. Along(to, head, null) = [k \in 1..L |-> f[k]]
  BY <1>0, <1>6, <1>11, <1>12 DEF Collects
<1>14. \A k \in 1..L : f[k] = s[k]
  BY <1>1, <1>10
<1> QED
  BY <1>2, <1>13, <1>14

-----------------------------------------------------------------------------
(* What happens to a chain when nodes are linked and unlinked.              *)

LEMMA NextIndex ==
    ASSUME NEW m \in Nat, NEW i \in 1..m, i # m
    PROVE  i + 1 \in 1..m
OBVIOUS

LEMMA ChainSame ==
    ASSUME NEW S, NEW s \in Seq(S), NEW to, NEW to2, NEW head, NEW null,
           IsChain(s, to, head, null), \A i \in 1..Len(s) : to2[s[i]] = to[s[i]]
    PROVE  IsChain(s, to2, head, null)
BY DEF IsChain

LEMMA ChainEmpty ==
    ASSUME NEW to, NEW null
    PROVE  IsChain(<<>>, to, null, null)
BY DEF IsChain, Distinct

\* A node at the end.
LEMMA ChainAppend ==
    ASSUME NEW S, NEW s \in Seq(S), NEW to, NEW to2, NEW head, NEW head2, NEW null,
           IsChain(s, to, head, null), NEW n \in S, n \notin SetOf(s),
           to2[n] = null, s # <<>> => to2[s[Len(s)]] = n,
           \A i \in 1..Len(s) - 1 : to2[s[i]] = to[s[i]],
           head2 = IF s = <<>> THEN n ELSE head
    PROVE  IsChain(Append(s, n), to2, head2, null)
<1> DEFINE t == Append(s, n)
<1>1. Len(s) \in Nat /\ \A i \in 1..Len(s) : s[i] \in S
  BY LenProperties
<1>2. /\ t \in Seq(S) /\ Len(t) = Len(s) + 1 /\ t # <<>>
      /\ \A i \in 1..Len(s) : t[i] = s[i]
      /\ t[Len(s) + 1] = n
  BY AppendProperties
<1> HIDE DEF t
<1>3. \A i \in 1..Len(s) : s[i] # n
  BY DEF SetOf
<1>4. Distinct(t)
  BY <1>1, <1>2, <1>3 DEF Distinct, IsChain
<1>5. head2 = t[1]
  <2>1. CASE s = <<>>
    BY <1>1, <1>2, <2>1
  <2>2. CASE s # <<>>
    <3>1. 1 \in 1..Len(s)
      BY <1>1, <2>2, EmptySeq
    <3> QED
      BY <1>2, <2>2, <3>1 DEF IsChain
  <2> QED
    BY <2>1, <2>2
<1>6. ASSUME NEW i \in 1..Len(t)
      PROVE  to2[t[i]] = IF i = Len(t) THEN null ELSE t[i + 1]
  <2>1. CASE i = Len(s) + 1
    BY <1>1, <1>2, <2>1
  <2>2. CASE i # Len(s) + 1 /\ i = Len(s)
    <3>1. s # <<>> /\ i \in 1..Len(s)
      BY <1>1, <1>2, <2>2
    <3> QED
      BY <1>1, <1>2, <2>2, <3>1
  <2>3. CASE i # Len(s) + 1 /\ i # Len(s)
    <3>1. i \in 1..Len(s) - 1 /\ i + 1 \in 1..Len(s) /\ i \in 1..Len(s) /\ i # Len(t)
      BY <1>1, <1>2, <2>3
    <3>2. to[s[i]] = s[i + 1]
      BY <2>3, <3>1 DEF IsChain
    <3> QED
      BY <1>2, <3>1, <3>2
  <2> QED
    BY <2>1, <2>2, <2>3
<1>7. IsChain(t, to2, head2, null)
  BY <1>2, <1>4, <1>5, <1>6 DEF IsChain
<1> QED
  BY <1>7 DEF t

\* The first node away.
LEMMA ChainTail ==
    ASSUME NEW S, NEW s \in Seq(S), s # <<>>, NEW to, NEW to2, NEW head, NEW null,
           IsChain(s, to, head, null), \A i \in 2..Len(s) : to2[s[i]] = to[s[i]]
    PROVE  IsChain(Tail(s), to2, to[head], null)
<1> DEFINE t == Tail(s)
<1>1. Len(s) \in Nat \ {0} /\ \A i \in 1..Len(s) : s[i] \in S
  BY LenProperties, EmptySeq
<1>2. t \in Seq(S) /\ Len(t) = Len(s) - 1 /\ \A i \in 1..Len(t) : t[i] = s[i + 1]
  BY HeadTailProperties
<1> HIDE DEF t
<1>3. Distinct(t)
  <2>1. ASSUME NEW i \in 1..Len(t), NEW j \in 1..Len(t), t[i] = t[j] PROVE i = j
    <3>1. i + 1 \in 1..Len(s) /\ j + 1 \in 1..Len(s) /\ s[i + 1] = s[j + 1]
      BY <1>1, <1>2, <2>1
    <3>2. i + 1 = j + 1
      BY <3>1 DEF IsChain, Distinct
    <3> QED
      BY <1>1, <1>2, <3>2
  <2> QED
    BY <2>1 DEF Distinct
<1>4. to[head] = IF t = <<>> THEN null ELSE t[1]
  <2>1. head = s[1] /\ 1 \in 1..Len(s)
    BY <1>1 DEF IsChain
  <2>2. to[s[1]] = IF 1 = Len(s) THEN null ELSE s[1 + 1]
    BY <2>1 DEF IsChain
  <2>3. CASE Len(s) = 1
    <3>1. t = <<>>
      BY <1>2, <2>3, EmptySeq
    <3> QED
      BY <2>1, <2>2, <2>3, <3>1
  <2>4. CASE Len(s) # 1
    <3>1. t # <<>> /\ t[1] = s[1 + 1]
      BY <1>1, <1>2, <2>4
    <3> QED
      BY <2>1, <2>2, <2>4, <3>1
  <2> QED
    BY <2>3, <2>4
<1>5. ASSUME NEW i \in 1..Len(t)
      PROVE  to2[t[i]] = IF i = Len(t) THEN null ELSE t[i + 1]
  <2>1. i + 1 \in 2..Len(s) /\ i + 1 \in 1..Len(s) /\ (i + 1 = Len(s) <=> i = Len(t))
    BY <1>1, <1>2
  <2>2. to[s[i + 1]] = IF i + 1 = Len(s) THEN null ELSE s[(i + 1) + 1]
    BY <2>1 DEF IsChain
  <2>3. i # Len(t) => t[i + 1] = s[(i + 1) + 1]
    BY <1>1, <1>2, <2>1
  <2>4. to2[s[i + 1]] = to[s[i + 1]] /\ t[i] = s[i + 1]
    BY <1>2, <2>1
  <2> QED
    BY <2>1, <2>2, <2>3, <2>4
<1>6. IsChain(t, to2, to[head], null)
  BY <1>3, <1>4, <1>5 DEF IsChain
<1> QED
  BY <1>6 DEF t

\* A second chain behind the first.
LEMMA ChainConcat ==
    ASSUME NEW S, NEW s \in Seq(S), NEW t \in Seq(S), s # <<>>, t # <<>>,
           NEW to, NEW to2, NEW head, NEW head2, NEW null,
           IsChain(s, to, head, null), IsChain(t, to, head2, null),
           SetOf(s) \cap SetOf(t) = {},
           to2[s[Len(s)]] = head2,
           \A i \in 1..Len(s) - 1 : to2[s[i]] = to[s[i]],
           \A i \in 1..Len(t) : to2[t[i]] = to[t[i]]
    PROVE  IsChain(s \o t, to2, head, null)
<1> DEFINE r == s \o t
<1>1. /\ Len(s) \in Nat \ {0} /\ \A i \in 1..Len(s) : s[i] \in S
  BY LenProperties, EmptySeq
<1>2. Len(t) \in Nat \ {0} /\ \A i \in 1..Len(t) : t[i] \in S
  BY LenProperties, EmptySeq
<1>3. /\ r \in Seq(S) /\ Len(r) = Len(s) + Len(t)
      /\ \A i \in 1..Len(s) + Len(t) : r[i] = IF i <= Len(s) THEN s[i] ELSE t[i - Len(s)]
  BY ConcatProperties
<1> HIDE DEF r
<1>0. Len(s) \in Nat /\ Len(t) \in Nat
  BY <1>1, <1>2
<1>4. ASSUME NEW i \in 1..Len(s), NEW j \in 1..Len(t) PROVE s[i] # t[j]
  <2>1. s[i] \in SetOf(s) /\ t[j] \in SetOf(t)
    BY DEF SetOf
  <2> QED
    BY <2>1
<1>5. Distinct(r)
  <2>1. ASSUME NEW i \in 1..Len(r), NEW j \in 1..Len(r), r[i] = r[j] PROVE i = j
    <3>1. CASE i <= Len(s) /\ j <= Len(s)
      BY <1>1, <1>2, <1>3, <2>1, <3>1 DEF IsChain, Distinct
    <3>2. CASE i > Len(s) /\ j > Len(s)
      <4>1. i - Len(s) \in 1..Len(t) /\ j - Len(s) \in 1..Len(t)
        BY <1>1, <1>2, <1>3, <3>2
      <4>2. t[i - Len(s)] = t[j - Len(s)]
        BY <1>1, <1>2, <1>3, <2>1, <3>2
      <4>3. i - Len(s) = j - Len(s)
        BY <4>1, <4>2 DEF IsChain, Distinct
      <4> QED
        BY <1>1, <1>3, <4>3
    <3>3. CASE i <= Len(s) /\ j > Len(s)
      <4>1. i \in 1..Len(s) /\ j - Len(s) \in 1..Len(t)
        BY <1>1, <1>2, <1>3, <3>3
      <4> QED
        BY <1>1, <1>2, <1>3, <1>4, <2>1, <3>3, <4>1
    <3>4. CASE i > Len(s) /\ j <= Len(s)
      <4>1. j \in 1..Len(s) /\ i - Len(s) \in 1..Len(t)
        BY <1>1, <1>2, <1>3, <3>4
      <4> QED
        BY <1>1, <1>2, <1>3, <1>4, <2>1, <3>4, <4>1
    <3> QED
      BY <1>1, <1>2, <1>3, <3>1, <3>2, <3>3, <3>4
  <2> QED
    BY <2>1 DEF Distinct
<1>6. r # <<>> /\ head = r[1]
  <2>1. Len(r) # 0 /\ 1 \in 1..Len(s) + Len(t) /\ 1 <= Len(s)
    BY <1>1, <1>2, <1>3
  <2> QED
    BY <1>3, <2>1, EmptySeq DEF IsChain
<1>7. ASSUME NEW i \in 1..Len(r)
      PROVE  to2[r[i]] = IF i = Len(r) THEN null ELSE r[i + 1]
  <2>1. CASE i < Len(s)
    <3>1. /\ i \in 1..Len(s) - 1 /\ i \in 1..Len(s) /\ i + 1 <= Len(s) /\ i # Len(s)
          /\ i \in 1..Len(s) + Len(t) /\ i + 1 \in 1..Len(s) + Len(t) /\ i # Len(r)
          /\ i <= Len(s)
      BY <1>1, <1>2, <1>3, <2>1
    <3>2. r[i] = s[i] /\ r[i + 1] = s[i + 1]
      BY <1>3, <3>1
    <3>3. to[s[i]] = s[i + 1]
      BY <3>1 DEF IsChain
    <3> QED
      BY <3>1, <3>2, <3>3
  <2>2. CASE i = Len(s)
    <3>1. /\ i \in 1..Len(s) + Len(t) /\ i + 1 \in 1..Len(s) + Len(t) /\ i # Len(r)
          /\ i <= Len(s) /\ ~(i + 1 <= Len(s)) /\ (i + 1) - Len(s) = 1
      BY <1>1, <1>2, <1>3, <2>2
    <3>2. r[i] = s[i] /\ r[i + 1] = t[1]
      BY <1>3, <3>1
    <3>3. head2 = t[1]
      BY DEF IsChain
    <3> QED
      BY <2>2, <3>1, <3>2, <3>3
  <2>3. CASE i > Len(s)
    <3> DEFINE j == i - Len(s)
    <3>0. i \in Int /\ i <= Len(s) + Len(t) /\ i >= 1
      BY <1>1, <1>2, <1>3
    <3>1. /\ j \in 1..Len(t) /\ ~(i <= Len(s)) /\ i \in 1..Len(s) + Len(t)
          /\ (j = Len(t) <=> i = Len(r)) /\ (i + 1) - Len(s) = j + 1
          /\ ~(i + 1 <= Len(s))
      BY <1>1, <1>2, <1>3, <2>3, <3>0
    <3>2. r[i] = t[j]
      BY <1>3, <3>1
    <3>4. ASSUME i # Len(r) PROVE r[i + 1] = t[j + 1]
      <4>0. Len(r) \in Nat
        BY <1>0, <1>3
      <4>1. i + 1 \in 1..Len(s) + Len(t)
        BY <1>3, <3>4, <4>0, NextIndex, Zenon
      <4>2. r[i + 1] = t[(i + 1) - Len(s)]
        BY <1>3, <3>1, <4>1
      <4> QED
        BY <3>1, <4>2
    <3> HIDE DEF j
    <3>3. to[t[j]] = IF j = Len(t) THEN null ELSE t[j + 1]
      BY <3>1 DEF IsChain
    <3> QED
      BY <3>1, <3>2, <3>3, <3>4
  <2> QED
    BY <1>1, <1>2, <1>3, <2>1, <2>2, <2>3
<1>8. IsChain(r, to2, head, null)
  BY <1>5, <1>6, <1>7 DEF IsChain
<1> QED
  BY <1>8 DEF r

-----------------------------------------------------------------------------
(* The invariant of the doubly linked lists.  Their nodes are what Walk     *)
(* finds; to say how a call changes them they are given as a function nd.   *)

Records == [head : Pointers, tail : Pointers, size : Nat]

\* The nodes s are what the list_t r leads to.
Held(s, r, nx, pv) ==
    /\ IsChain(s, nx, r.head, NULL)
    /\ Len(s) = r.size
    /\ s # <<>> => r.tail = s[Len(s)]
    /\ \A i \in 2..Len(s) : pv[s[i]] = s[i - 1]

HoldsIn(nd, use, ls, nx, pv, lv) ==
    /\ nd \in [Lists -> Seq(Nodes)]
    /\ \A l \in Lists : l \notin use => nd[l] = <<>>
    /\ \A l \in use : Held(nd[l], ls[l], nx, pv)
    /\ \A k, l \in Lists : k # l => SetOf(nd[k]) \cap SetOf(nd[l]) = {}
    /\ lv = UNION {SetOf(nd[l]) : l \in Lists}

Holds(nd) == HoldsIn(nd, InUse, list, next, prev, live)

LInv ==
    /\ TypeOK
    /\ ~broken
    /\ \A l \in spent : list[l] # NONE
    /\ \E nd : Holds(nd)

LEMMA InSetOf ==
    ASSUME NEW s, NEW i \in 1..Len(s)
    PROVE  s[i] \in SetOf(s)
BY DEF SetOf

LEMMA SetOfEmpty == SetOf(<<>>) = {}
BY DEF SetOf

LEMMA SetOfAppend ==
    ASSUME NEW S, NEW s \in Seq(S), NEW n \in S
    PROVE  SetOf(Append(s, n)) = SetOf(s) \cup {n}
<1> DEFINE t == Append(s, n)
<1>1. Len(s) \in Nat /\ Len(t) = Len(s) + 1 /\ t[Len(s) + 1] = n
      /\ \A i \in 1..Len(s) : t[i] = s[i]
  BY LenProperties, AppendProperties
<1> HIDE DEF t
<1>2. SetOf(t) = SetOf(s) \cup {n}
  BY <1>1 DEF SetOf
<1> QED
  BY <1>2 DEF t

LEMMA SetOfTail ==
    ASSUME NEW S, NEW s \in Seq(S), s # <<>>, Distinct(s)
    PROVE  SetOf(Tail(s)) = SetOf(s) \ {s[1]}
<1> DEFINE t == Tail(s)
<1>1. Len(s) \in Nat /\ Len(s) # 0
  BY LenProperties, EmptySeq
<1>2. Len(t) = Len(s) - 1 /\ \A i \in 1..Len(t) : t[i] = s[i + 1]
  BY HeadTailProperties
<1> HIDE DEF t
<1>3. ASSUME NEW i \in 1..Len(t) PROVE t[i] \in SetOf(s) \ {s[1]}
  <2>1. i + 1 \in 1..Len(s) /\ 1 \in 1..Len(s) /\ i + 1 # 1
    BY <1>1, <1>2
  <2>2. s[i + 1] # s[1]
    BY <2>1 DEF Distinct
  <2> QED
    BY <1>2, <2>1, <2>2, InSetOf
<1>4. ASSUME NEW i \in 1..Len(s), s[i] # s[1] PROVE s[i] \in SetOf(t)
  <2>1. i # 1 /\ i - 1 \in 1..Len(t) /\ (i - 1) + 1 = i
    BY <1>1, <1>2, <1>4
  <2>2. t[i - 1] = s[i]
    BY <1>2, <2>1
  <2> QED
    BY <2>1, <2>2, InSetOf
<1>5. SetOf(t) = SetOf(s) \ {s[1]}
  BY <1>3, <1>4 DEF SetOf
<1> QED
  BY <1>5 DEF t

LEMMA SetOfConcat ==
    ASSUME NEW S, NEW s \in Seq(S), NEW t \in Seq(S)
    PROVE  SetOf(s \o t) = SetOf(s) \cup SetOf(t)
<1> DEFINE r == s \o t
<1>1. Len(s) \in Nat /\ Len(t) \in Nat
  BY LenProperties
<1>2. /\ Len(r) = Len(s) + Len(t)
      /\ \A i \in 1..Len(s) + Len(t) : r[i] = IF i <= Len(s) THEN s[i] ELSE t[i - Len(s)]
  BY ConcatProperties
<1> HIDE DEF r
<1>3. ASSUME NEW i \in 1..Len(r) PROVE r[i] \in SetOf(s) \cup SetOf(t)
  <2>1. CASE i <= Len(s)
    <3>1. i \in 1..Len(s) /\ r[i] = s[i]
      BY <1>1, <1>2, <2>1
    <3> QED
      BY <3>1, InSetOf
  <2>2. CASE ~(i <= Len(s))
    <3>1. i - Len(s) \in 1..Len(t) /\ r[i] = t[i - Len(s)]
      BY <1>1, <1>2, <2>2
    <3> QED
      BY <3>1, InSetOf
  <2> QED
    BY <2>1, <2>2
<1>4. ASSUME NEW i \in 1..Len(s) PROVE s[i] \in SetOf(r)
  <2>1. i \in 1..Len(r) /\ r[i] = s[i]
    BY <1>1, <1>2
  <2> QED
    BY <2>1, InSetOf
<1>5. ASSUME NEW i \in 1..Len(t) PROVE t[i] \in SetOf(r)
  <2>1. i + Len(s) \in 1..Len(r) /\ i + Len(s) \in 1..Len(s) + Len(t)
        /\ ~(i + Len(s) <= Len(s)) /\ (i + Len(s)) - Len(s) = i
    BY <1>1, <1>2
  <2>2. r[i + Len(s)] = t[i]
    BY <1>2, <2>1
  <2> QED
    BY <2>1, <2>2, InSetOf
<1>6. SetOf(r) = SetOf(s) \cup SetOf(t)
  BY <1>3, <1>4, <1>5 DEF SetOf
<1> QED
  BY <1>6 DEF r

LEMMA SetOfIn ==
    ASSUME NEW S, NEW s \in Seq(S)
    PROVE  SetOf(s) \subseteq S
BY LenProperties DEF SetOf

LEMMA RecordIsNotNone ==
    ASSUME NEW r \in Records
    PROVE  r # NONE
BY NoneAssumption DEF Records, Pointers

LEMMA HeldSame ==
    ASSUME NEW s \in Seq(Nodes), NEW r, NEW nx, NEW pv, NEW nx2, NEW pv2,
           Held(s, r, nx, pv),
           \A i \in 1..Len(s) : nx2[s[i]] = nx[s[i]] /\ pv2[s[i]] = pv[s[i]]
    PROVE  Held(s, r, nx2, pv2)
<1>1. IsChain(s, nx2, r.head, NULL)
  BY ChainSame DEF Held
<1>2. \A i \in 2..Len(s) : i \in 1..Len(s)
  BY LenProperties
<1> QED
  BY <1>1, <1>2 DEF Held

\* What there is to know of a list in use.
LEMMA NodesAre ==
    ASSUME TypeOK, NEW nd, Holds(nd), NEW l \in InUse
    PROVE  /\ NodesOf(l) = nd[l] /\ nd[l] \in Seq(Nodes)
           /\ l \in Lists /\ list[l] \in Records
           /\ Held(nd[l], list[l], next, prev)
           /\ SetOf(nd[l]) \subseteq live
<1>1. l \in Lists /\ list[l] \in Records
  BY DEF InUse, TypeOK, Records
<1>2. nd[l] \in Seq(Nodes) /\ Held(nd[l], list[l], next, prev) /\ SetOf(nd[l]) \subseteq live
  BY <1>1 DEF Holds, HoldsIn
<1>3. IsChain(nd[l], next, list[l].head, NULL)
  BY <1>2 DEF Held
<1>4. DOMAIN next = Nodes
  BY DEF TypeOK
<1>5. Along(next, list[l].head, NULL) = nd[l]
  BY <1>2, <1>3, <1>4, NodesAssumption, NullAssumption, AlongChain
<1> QED
  BY <1>1, <1>2, <1>5 DEF NodesOf, Walk

\* A call that changes the lists C, among them those it creates and gives up.
ChangesOnly(C, nd, use, ls, nx, pv, nd2, use2, ls2, nx2, pv2) ==
    /\ use \subseteq Lists /\ use2 \subseteq Lists
    /\ nd2 \in [Lists -> Seq(Nodes)]
    /\ \A k \in Lists \ C : /\ nd2[k] = nd[k] /\ ls2[k] = ls[k]
                            /\ k \in use2 <=> k \in use
    /\ \A k \in Lists \ C : \A i \in 1..Len(nd[k]) :
           nx2[nd[k][i]] = nx[nd[k][i]] /\ pv2[nd[k][i]] = pv[nd[k][i]]
    /\ \A k \in C : k \in use2 => Held(nd2[k], ls2[k], nx2, pv2)
    /\ \A k \in C : k \notin use2 => nd2[k] = <<>>
    /\ \A k \in C, l \in Lists : k # l => SetOf(nd2[k]) \cap SetOf(nd2[l]) = {}

LEMMA Changed ==
    ASSUME NEW nd, NEW use, NEW ls, NEW nx, NEW pv, NEW lv,
           HoldsIn(nd, use, ls, nx, pv, lv),
           NEW nd2, NEW use2, NEW ls2, NEW nx2, NEW pv2, NEW lv2,
           NEW C, ChangesOnly(C, nd, use, ls, nx, pv, nd2, use2, ls2, nx2, pv2),
           lv2 = UNION {SetOf(nd2[k]) : k \in Lists}
    PROVE  HoldsIn(nd2, use2, ls2, nx2, pv2, lv2)
<1> USE DEF ChangesOnly
<1>1. \A l \in Lists : l \notin use2 => nd2[l] = <<>>
  BY DEF HoldsIn
<1>2. ASSUME NEW l \in use2 PROVE Held(nd2[l], ls2[l], nx2, pv2)
  <2>1. CASE l \in C
    BY <2>1
  <2>2. CASE l \notin C
    <3>1. l \in Lists /\ l \in use /\ nd2[l] = nd[l] /\ ls2[l] = ls[l]
      BY <2>2
    <3>2. nd[l] \in Seq(Nodes) /\ Held(nd[l], ls[l], nx, pv)
      BY <3>1 DEF HoldsIn
    <3>3. \A i \in 1..Len(nd[l]) :
               nx2[nd[l][i]] = nx[nd[l][i]] /\ pv2[nd[l][i]] = pv[nd[l][i]]
      BY <2>2, <3>1
    <3>4. Held(nd[l], ls[l], nx2, pv2)
      BY <3>2, <3>3, HeldSame
    <3> QED
      BY <3>1, <3>4
  <2> QED
    BY <2>1, <2>2
<1>3. ASSUME NEW k \in Lists, NEW l \in Lists, k # l
      PROVE  SetOf(nd2[k]) \cap SetOf(nd2[l]) = {}
  <2>1. CASE k \in C
    BY <1>3, <2>1
  <2>2. CASE l \in C
    <3>1. SetOf(nd2[l]) \cap SetOf(nd2[k]) = {}
      BY <1>3, <2>2
    <3> QED
      BY <3>1
  <2>3. CASE k \notin C /\ l \notin C
    <3>1. nd2[k] = nd[k] /\ nd2[l] = nd[l]
      BY <2>3
    <3>2. SetOf(nd[k]) \cap SetOf(nd[l]) = {}
      BY <1>3 DEF HoldsIn
    <3> QED
      BY <3>1, <3>2
  <2> QED
    BY <2>1, <2>2, <2>3
<1> QED
  BY <1>1, <1>2, <1>3 DEF HoldsIn


\* The nodes of all lists, as they are read.
ReadAll(use, ls, nx) ==
    [l \in Lists |-> IF l \in use THEN Along(nx, ls[l].head, NULL) ELSE <<>>]

Read == ReadAll(InUse, list, next)

LEMMA HoldsIsRead ==
    ASSUME NEW nd, NEW use, use \subseteq Lists, NEW ls, NEW nx \in [Nodes -> Pointers],
           NEW pv, NEW lv, HoldsIn(nd, use, ls, nx, pv, lv)
    PROVE  nd = ReadAll(use, ls, nx)
<1>1. ASSUME NEW l \in use PROVE Along(nx, ls[l].head, NULL) = nd[l]
  <2>1. nd[l] \in Seq(Nodes) /\ IsChain(nd[l], nx, ls[l].head, NULL)
    BY DEF HoldsIn, Held
  <2>2. DOMAIN nx = Nodes
    OBVIOUS
  <2> QED
    BY <2>1, <2>2, NodesAssumption, NullAssumption, AlongChain
<1> QED
  BY <1>1 DEF HoldsIn, ReadAll

\* The nodes of all lists once those of one are others.
LEMMA UnionChanged ==
    ASSUME NEW nd, NEW nd2, NEW l \in Lists,
           \A k \in Lists \ {l} : nd2[k] = nd[k], NEW m
    PROVE  m \in UNION {SetOf(nd2[k]) : k \in Lists}
             <=> m \in SetOf(nd2[l]) \/ \E k \in Lists \ {l} : m \in SetOf(nd[k])
<1>1. m \in UNION {SetOf(nd2[k]) : k \in Lists} <=> \E k \in Lists : m \in SetOf(nd2[k])
  OBVIOUS
<1>2. \A k \in Lists \ {l} : SetOf(nd2[k]) = SetOf(nd[k])
  OBVIOUS
<1> QED
  BY <1>1, <1>2

LEMMA LInvInit == Init => LInv
<1> SUFFICES ASSUME Init PROVE LInv
  OBVIOUS
<1>1. TypeOK /\ ~broken /\ spent = {}
  BY DEF Init, TypeOK, Pointers
<1> DEFINE nd == [l \in Lists |-> <<>>]
<1>2. nd \in [Lists -> Seq(Nodes)] /\ \A l \in Lists : nd[l] = <<>>
  BY EmptySeq
<1> HIDE DEF nd
<1>3. InUse = {}
  BY DEF Init, InUse
<1>4. live = UNION {SetOf(nd[l]) : l \in Lists}
  BY <1>2, SetOfEmpty DEF Init
<1>5. \A k, l \in Lists : SetOf(nd[k]) \cap SetOf(nd[l]) = {}
  BY <1>2, SetOfEmpty
<1>6. Holds(nd)
  BY <1>2, <1>3, <1>4, <1>5 DEF Holds, HoldsIn
<1> QED
  BY <1>1, <1>6 DEF LInv

LEMMA CreateKeeps ==
    ASSUME LInv, NEW l \in Lists, list_init(l)
    PROVE  /\ LInv'
           /\ l \notin InUse /\ InUse' = InUse \cup {l}
           /\ Read' = Read /\ Read[l] = <<>>
<1> DEFINE r == [head |-> NULL, tail |-> NULL, size |-> 0]
<1>1. r \in Records
  BY DEF Records, Pointers
<1>2. /\ list' = [list EXCEPT ![l] = r] /\ list[l] = NONE
      /\ UNCHANGED <<next, prev, data, live, spent, broken>>
      /\ TypeOK /\ ~broken
  BY DEF list_init, LInv
<1>3. r.head = NULL /\ r.tail = NULL /\ r.size = 0
  OBVIOUS
<1> HIDE DEF r
<1>4. list'[l] = r /\ \A k \in Lists \ {l} : list'[k] = list[k]
  BY <1>2 DEF TypeOK
<1>5. l \notin spent
  BY <1>2 DEF LInv
<1>6. TypeOK'
  BY <1>1, <1>2 DEF TypeOK, Records
<1>7. l \in InUse' /\ \A k \in Lists \ {l} : k \in InUse' <=> k \in InUse
  BY <1>1, <1>2, <1>4, <1>5, RecordIsNotNone DEF InUse
<1>8. PICK nd : Holds(nd)
  BY DEF LInv
<1>9. nd[l] = <<>>
  <2>1. l \notin InUse
    BY <1>2 DEF InUse
  <2> QED
    BY <1>8, <2>1 DEF Holds, HoldsIn
<1>10. Held(nd[l], list'[l], next', prev')
  BY <1>3, <1>4, <1>9, ChainEmpty, EmptySeq DEF Held
<1>11. Holds(nd)'
  <2>1. /\ HoldsIn(nd, InUse, list, next, prev, live) /\ nd \in [Lists -> Seq(Nodes)]
        /\ live' = UNION {SetOf(nd[k]) : k \in Lists}
        /\ \A k, j \in Lists : k # j => SetOf(nd[k]) \cap SetOf(nd[j]) = {}
    BY <1>2, <1>8 DEF Holds, HoldsIn
  <2>2. InUse \subseteq Lists /\ InUse' \subseteq Lists
    BY DEF InUse
  <2>3. ChangesOnly({l}, nd, InUse, list, next, prev, nd, InUse', list', next', prev')
    BY <1>2, <1>4, <1>7, <1>9, <1>10, <2>1, <2>2 DEF ChangesOnly
  <2>4. HoldsIn(nd, InUse', list', next', prev', live')
    BY <2>1, <2>3, Changed
  <2> QED
    BY <2>4 DEF Holds
<1>12. \A k \in spent' : list'[k] # NONE
  BY <1>2, <1>4, <1>5 DEF LInv, TypeOK
<1>13. l \notin InUse /\ InUse' = InUse \cup {l} /\ InUse \subseteq Lists
  BY <1>2, <1>7 DEF InUse
<1>14. Read' = Read /\ Read[l] = <<>>
  <2>1. nd = Read
    BY <1>2, <1>8, <1>13, HoldsIsRead DEF Holds, Read, TypeOK
  <2>2. nd = Read'
    BY <1>6, <1>11, <1>13, HoldsIsRead DEF Holds, Read, TypeOK
  <2> QED
    BY <1>9, <2>1, <2>2
<1> QED
  BY <1>2, <1>6, <1>11, <1>12, <1>13, <1>14 DEF LInv

\* What list_push does, for a list with nodes or without.
Pushed(s, n, r, nx, pv, r2, nx2, pv2) ==
    \/ /\ s = <<>>
       /\ r2 = [head |-> n, tail |-> n, size |-> r.size + 1]
       /\ nx2 = [nx EXCEPT ![n] = NULL] /\ pv2 = [pv EXCEPT ![n] = NULL]
    \/ /\ s # <<>>
       /\ r2 = [head |-> r.head, tail |-> n, size |-> r.size + 1]
       /\ nx2 = [nx EXCEPT ![n] = NULL, ![s[Len(s)]] = n]
       /\ pv2 = [pv EXCEPT ![n] = s[Len(s)]]

LEMMA PushLinks ==
    ASSUME NEW s \in Seq(Nodes), NEW n \in Nodes, n \notin SetOf(s), NEW r \in Records,
           NEW nx \in [Nodes -> Pointers], NEW pv \in [Nodes -> Pointers], Held(s, r, nx, pv),
           NEW r2, NEW nx2, NEW pv2, Pushed(s, n, r, nx, pv, r2, nx2, pv2)
    PROVE  /\ Held(Append(s, n), r2, nx2, pv2) /\ r2 \in Records
           /\ nx2 \in [Nodes -> Pointers] /\ pv2 \in [Nodes -> Pointers]
           /\ \A m \in Nodes : m # n /\ m \notin SetOf(s) => nx2[m] = nx[m] /\ pv2[m] = pv[m]
<1> USE DEF Pushed
<1> DEFINE t == Append(s, n)
           p == s[Len(s)]
<1>1. Len(s) \in Nat /\ \A i \in 1..Len(s) : s[i] \in Nodes /\ s[i] \in SetOf(s) /\ s[i] # n
  BY LenProperties, InSetOf
<1>2. Len(t) = Len(s) + 1 /\ t[Len(s) + 1] = n /\ \A i \in 1..Len(s) : t[i] = s[i]
  BY AppendProperties
<1>3. s # <<>> => Len(s) \in 1..Len(s) /\ p \in Nodes /\ p \in SetOf(s) /\ p # n
  <2>1. s # <<>> => Len(s) \in 1..Len(s)
    BY <1>1, EmptySeq
  <2> QED
    BY <1>1, <2>1
<1>4. \A i \in 1..Len(s) - 1 : s # <<>> /\ i \in 1..Len(s) /\ s[i] # p
  <2>1. ASSUME NEW i \in 1..Len(s) - 1 PROVE s # <<>> /\ i \in 1..Len(s) /\ s[i] # p
    <3>1. i \in 1..Len(s) /\ i # Len(s) /\ Len(s) \in 1..Len(s)
      BY <1>1
    <3>2. s # <<>>
      BY <1>1, <3>1, EmptySeq
    <3>3. s[i] # p
      BY <3>1 DEF Held, IsChain, Distinct
    <3> QED
      BY <3>1, <3>2, <3>3
  <2> QED
    BY <2>1
<1> HIDE DEF t, p
<1>5. /\ nx2 \in [Nodes -> Pointers] /\ pv2 \in [Nodes -> Pointers] /\ r2 \in Records
  BY <1>3 DEF Pointers, Records, p
<1>6. nx2[n] = NULL /\ (s # <<>> => nx2[p] = n /\ pv2[n] = p)
  BY <1>3 DEF p
<1>7. \A m \in Nodes : m # n /\ (s = <<>> \/ m # p) => nx2[m] = nx[m]
  BY <1>3 DEF p
<1>8. \A m \in Nodes : m # n => pv2[m] = pv[m]
  BY <1>3 DEF p
<1>9. IsChain(t, nx2, r2.head, NULL)
  <2>1. IsChain(s, nx, r.head, NULL)
    BY DEF Held
  <2>2. r2.head = IF s = <<>> THEN n ELSE r.head
    BY DEF Records
  <2>3. \A i \in 1..Len(s) - 1 : nx2[s[i]] = nx[s[i]]
    BY <1>1, <1>4, <1>7
  <2>4. nx2[n] = NULL /\ (s # <<>> => nx2[s[Len(s)]] = n)
    BY <1>6 DEF p
  <2> QED
    BY <2>1, <2>2, <2>3, <2>4, ChainAppend DEF t
<1>10. Len(t) = r2.size /\ (t # <<>> => r2.tail = t[Len(t)])
  <2>1. Len(s) = r.size
    BY DEF Held
  <2>2. r2.size = r.size + 1 /\ r2.tail = n
    BY DEF Records
  <2> QED
    BY <1>2, <2>1, <2>2
<1>11. ASSUME NEW i \in 2..Len(t) PROVE pv2[t[i]] = t[i - 1]
  <2>1. CASE i = Len(s) + 1
    <3>1. s # <<>> /\ i - 1 \in 1..Len(s)
      BY <1>1, <1>2, <2>1, EmptySeq
    <3>2. t[i] = n /\ t[i - 1] = p
      BY <1>1, <1>2, <2>1, <3>1 DEF p
    <3> QED
      BY <1>6, <3>1, <3>2
  <2>2. CASE i # Len(s) + 1
    <3>1. i \in 2..Len(s) /\ i \in 1..Len(s) /\ i - 1 \in 1..Len(s)
      BY <1>1, <1>2, <2>2
    <3>2. pv[s[i]] = s[i - 1]
      BY <3>1 DEF Held
    <3> QED
      BY <1>1, <1>2, <1>8, <3>1, <3>2
  <2> QED
    BY <2>1, <2>2
<1>12. Held(t, r2, nx2, pv2)
  BY <1>9, <1>10, <1>11 DEF Held
<1>13. \A m \in Nodes : m # n /\ m \notin SetOf(s) => nx2[m] = nx[m] /\ pv2[m] = pv[m]
  BY <1>3, <1>7, <1>8
<1> QED
  BY <1>5, <1>12, <1>13 DEF t

LEMMA PushKeeps ==
    ASSUME LInv, NEW l \in Lists, NEW it \in Items, NEW n \in Nodes, list_push(l, it, n)
    PROVE  /\ LInv'
           /\ l \in InUse /\ InUse' = InUse
           /\ n \notin live /\ Read' = [Read EXCEPT ![l] = Append(@, n)]
<1>1. /\ TypeOK /\ ~broken /\ l \in InUse /\ n \notin live
      /\ data' = [data EXCEPT ![n] = it] /\ live' = live \cup {n}
      /\ broken' = ~Sound(l) /\ UNCHANGED spent
  BY DEF list_push, Usable, InUse, LInv
<1>2. PICK nd : Holds(nd)
  BY DEF LInv
<1> DEFINE s == nd[l]
           r == list[l]
<1>3. /\ NodesOf(l) = s /\ s \in Seq(Nodes) /\ r \in Records
      /\ Held(s, r, next, prev) /\ SetOf(s) \subseteq live
  BY <1>1, <1>2, NodesAre
<1>4. ~broken'
  BY <1>1, <1>3 DEF Sound
<1>5. n \notin SetOf(s)
  BY <1>1, <1>3
<1> DEFINE r2 == list'[l]
<1>6. /\ \A k \in Lists \ {l} : list'[k] = list[k]
      /\ Pushed(s, n, r, next, prev, r2, next', prev')
  BY <1>1, <1>3 DEF list_push, TypeOK, Records, Pushed
<1>7. list' = [list EXCEPT ![l] = r2]
  BY <1>1 DEF list_push, TypeOK
<1> HIDE DEF s, r, r2
<1>8. next \in [Nodes -> Pointers] /\ prev \in [Nodes -> Pointers]
  BY <1>1 DEF TypeOK
<1>9. /\ Held(Append(s, n), r2, next', prev') /\ r2 \in Records
      /\ next' \in [Nodes -> Pointers] /\ prev' \in [Nodes -> Pointers]
      /\ \A m \in Nodes : m # n /\ m \notin SetOf(s) => next'[m] = next[m] /\ prev'[m] = prev[m]
  BY <1>3, <1>5, <1>6, <1>8, PushLinks
<1>10. TypeOK'
  BY <1>1, <1>4, <1>7, <1>9 DEF TypeOK, Records
<1>11. l \in InUse' /\ \A k \in Lists \ {l} : k \in InUse' <=> k \in InUse
  <2>1. r2 # NONE
    BY <1>9, RecordIsNotNone
  <2> QED
    BY <1>1, <1>6, <2>1 DEF InUse, r2
<1> DEFINE nd2 == [nd EXCEPT ![l] = Append(s, n)]
<1>12. /\ HoldsIn(nd, InUse, list, next, prev, live) /\ nd \in [Lists -> Seq(Nodes)]
       /\ live = UNION {SetOf(nd[k]) : k \in Lists}
       /\ \A k, j \in Lists : k # j => SetOf(nd[k]) \cap SetOf(nd[j]) = {}
  BY <1>2 DEF Holds, HoldsIn
<1>13. /\ Append(s, n) \in Seq(Nodes) /\ SetOf(Append(s, n)) = SetOf(s) \cup {n}
  BY <1>3, AppendProperties, SetOfAppend
<1>14. /\ nd2 \in [Lists -> Seq(Nodes)] /\ nd2[l] = Append(s, n)
       /\ \A k \in Lists \ {l} : nd2[k] = nd[k]
  BY <1>12, <1>13
<1> HIDE DEF nd2
<1>15. \A k \in Lists : SetOf(nd[k]) \subseteq live
  BY <1>12
<1>16. ASSUME NEW k \in Lists \ {l}
       PROVE  /\ SetOf(nd2[l]) \cap SetOf(nd2[k]) = {}
              /\ \A i \in 1..Len(nd[k]) :
                   next'[nd[k][i]] = next[nd[k][i]] /\ prev'[nd[k][i]] = prev[nd[k][i]]
  <2>1. SetOf(s) \cap SetOf(nd[k]) = {} /\ n \notin SetOf(nd[k])
    BY <1>1, <1>12, <1>15 DEF s
  <2>2. ASSUME NEW i \in 1..Len(nd[k])
        PROVE  next'[nd[k][i]] = next[nd[k][i]] /\ prev'[nd[k][i]] = prev[nd[k][i]]
    <3>1. nd[k][i] \in SetOf(nd[k]) /\ SetOf(nd[k]) \subseteq Nodes
      BY <1>12, InSetOf, SetOfIn
    <3> QED
      BY <1>9, <2>1, <3>1
  <2> QED
    BY <1>13, <1>14, <2>1, <2>2
<1>17. live' = UNION {SetOf(nd2[k]) : k \in Lists}
  <2>1. SetOf(nd2[l]) = SetOf(nd[l]) \cup {n}
    BY <1>13, <1>14 DEF s
  <2>2. ASSUME NEW m PROVE m \in live' <=> m \in UNION {SetOf(nd2[k]) : k \in Lists}
    <3>1. m \in UNION {SetOf(nd2[k]) : k \in Lists}
            <=> m \in SetOf(nd2[l]) \/ \E k \in Lists \ {l} : m \in SetOf(nd[k])
      BY <1>14, UnionChanged
    <3>2. m \in live <=> m \in SetOf(nd[l]) \/ \E k \in Lists \ {l} : m \in SetOf(nd[k])
      BY <1>12, UnionChanged
    <3> QED
      BY <1>1, <2>1, <3>1, <3>2
  <2> QED
    BY <2>2
<1>18. ChangesOnly({l}, nd, InUse, list, next, prev, nd2, InUse', list', next', prev')
  <2>1. InUse \subseteq Lists /\ InUse' \subseteq Lists
    BY DEF InUse
  <2>2. Held(nd2[l], list'[l], next', prev')
    BY <1>9, <1>14 DEF r2
  <2> QED
    BY <1>6, <1>11, <1>14, <1>16, <2>1, <2>2 DEF ChangesOnly
<1>19. HoldsIn(nd2, InUse', list', next', prev', live')
  BY <1>12, <1>17, <1>18, Changed
<1>20. \A k \in spent' : list'[k] # NONE
  BY <1>1, <1>6 DEF LInv, TypeOK, InUse
<1>21. Holds(nd2)'
  BY <1>19 DEF Holds
<1>22. InUse' = InUse /\ InUse \subseteq Lists
  BY <1>1, <1>11 DEF InUse
<1>23. Read' = [Read EXCEPT ![l] = Append(@, n)]
  <2>1. nd = Read
    BY <1>8, <1>12, <1>22, HoldsIsRead DEF Read
  <2>2. nd2 = Read'
    BY <1>9, <1>19, <1>22, HoldsIsRead DEF Read
  <2> QED
    BY <2>1, <2>2 DEF nd2, s
<1> QED
  BY <1>1, <1>4, <1>10, <1>20, <1>21, <1>22, <1>23 DEF LInv

\* What Free leaves alone.
LEMMA FreeLeaves ==
    ASSUME TypeOK, NEW S, Free(S)
    PROVE  /\ next' \in [Nodes -> Pointers] /\ prev' \in [Nodes -> Pointers]
           /\ data' \in [Nodes -> Items \cup {NULL}]
           /\ live' = live \ S
           /\ \A m \in Nodes \ S : /\ next'[m] = next[m] /\ prev'[m] = prev[m]
                                   /\ data'[m] = data[m]
BY DEF Free, TypeOK, Pointers

LEMMA PopKeeps ==
    ASSUME LInv, NEW l \in Lists, list_pop_head(l)
    PROVE  /\ LInv'
           /\ l \in InUse /\ InUse' = InUse
           /\ \/ /\ Read[l] = <<>> /\ Read' = Read /\ list[l].size = 0
              \/ /\ Read[l] # <<>> /\ Read' = [Read EXCEPT ![l] = Tail(@)]
                 /\ list[l].size # 0
                 /\ list[l].head = Read[l][1] /\ Free({Read[l][1]})
<1>1. TypeOK /\ ~broken /\ l \in InUse /\ UNCHANGED spent
  BY DEF list_pop_head, Usable, InUse, LInv
<1>2. PICK nd : Holds(nd)
  BY DEF LInv
<1> DEFINE s == nd[l]
           r == list[l]
           tmp == list[l].head
<1>3. /\ s \in Seq(Nodes) /\ r \in Records
      /\ Held(s, r, next, prev) /\ SetOf(s) \subseteq live
  BY <1>1, <1>2, NodesAre
<1>0. InUse \subseteq Lists /\ nd = Read
  <2>1. InUse \subseteq Lists
    BY DEF InUse
  <2> QED
    BY <1>1, <1>2, <2>1, HoldsIsRead DEF Holds, Read, TypeOK
<1>4. CASE r.size = 0
  <2>1. UNCHANGED <<list, next, prev, data, live, broken>>
    BY <1>4 DEF list_pop_head
  <2>2. InUse' = InUse
    BY <1>1, <2>1 DEF InUse
  <2>3. Holds(nd)'
    BY <1>2, <2>1, <2>2 DEF Holds
  <2>4. TypeOK'
    BY <1>1, <2>1 DEF TypeOK, Pointers
  <2>5. s = <<>>
    BY <1>3, <1>4, EmptySeq DEF Held
  <2>6. Read' = Read
    BY <2>1, <2>2 DEF Read
  <2> QED
    BY <1>0, <1>1, <1>4, <2>1, <2>2, <2>3, <2>4, <2>5, <2>6 DEF LInv
<1>5. CASE r.size > 0
  <2>1. /\ list' = [list EXCEPT ![l].head = next[tmp], ![l].size = @ - 1]
        /\ Free({tmp}) /\ broken' = (tmp \notin live)
    BY <1>5 DEF list_pop_head
  <2>2. s # <<>> /\ tmp = s[1] /\ Len(s) \in Nat \ {0} /\ Distinct(s)
    <3>1. Len(s) = r.size /\ IsChain(s, next, tmp, NULL)
      BY <1>3 DEF Held
    <3>2. s # <<>> /\ Len(s) \in Nat \ {0}
      BY <1>3, <1>5, <3>1, EmptySeq DEF Records
    <3> QED
      BY <3>1, <3>2 DEF IsChain
  <2>3. tmp \in SetOf(s) /\ tmp \in live /\ tmp \in Nodes
    <3>1. tmp \in SetOf(s)
      BY <2>2, InSetOf
    <3> QED
      BY <1>1, <1>3, <3>1 DEF TypeOK
  <2> DEFINE r2 == list'[l]
             t == Tail(s)
  <2>4. /\ r2 = [head |-> next[tmp], tail |-> r.tail, size |-> r.size - 1]
        /\ \A k \in Lists \ {l} : list'[k] = list[k]
        /\ list' = [list EXCEPT ![l] = r2]
    BY <1>1, <1>3, <2>1 DEF TypeOK, Records
  <2>5. /\ t \in Seq(Nodes) /\ Len(t) = Len(s) - 1 /\ \A i \in 1..Len(t) : t[i] = s[i + 1]
        /\ SetOf(t) = SetOf(s) \ {tmp}
    BY <1>3, <2>2, HeadTailProperties, SetOfTail
  <2>6. /\ next' \in [Nodes -> Pointers] /\ prev' \in [Nodes -> Pointers]
        /\ data' \in [Nodes -> Items \cup {NULL}]
        /\ live' = live \ {tmp}
        /\ \A m \in Nodes \ {tmp} : next'[m] = next[m] /\ prev'[m] = prev[m]
    BY <1>1, <2>1, FreeLeaves
  <2>7. r2 \in Records
    <3>1. r.size - 1 \in Nat /\ next[tmp] \in Pointers /\ r.tail \in Pointers
      BY <1>1, <1>3, <1>5, <2>3 DEF TypeOK, Records
    <3> QED
      BY <2>4, <3>1 DEF Records
  <2>8. TypeOK'
    BY <1>1, <2>1, <2>4, <2>6, <2>7 DEF TypeOK, Records
  <2>9. Held(t, r2, next', prev')
    <3>1. IsChain(s, next, tmp, NULL)
      BY <1>3 DEF Held
    <3>2. \A i \in 2..Len(s) : s[i] \in Nodes \ {tmp}
      <4>1. \A i \in 2..Len(s) : i \in 1..Len(s) /\ i # 1 /\ 1 \in 1..Len(s)
        BY <2>2
      <4>2. \A i \in 1..Len(s) : s[i] \in Nodes
        BY <1>3, LenProperties
      <4> QED
        BY <2>2, <4>1, <4>2 DEF Distinct
    <3>3. \A i \in 2..Len(s) : next'[s[i]] = next[s[i]] /\ prev'[s[i]] = prev[s[i]]
      BY <2>6, <3>2
    <3>4. IsChain(t, next', next[tmp], NULL)
      BY <1>3, <2>2, <3>1, <3>3, ChainTail
    <3>5. Len(t) = r2.size
      BY <1>3, <2>4, <2>5 DEF Held
    <3>6. t # <<>> => r2.tail = t[Len(t)]
      <4>1. ASSUME t # <<>> PROVE Len(t) \in 1..Len(t) /\ Len(t) + 1 = Len(s)
        BY <2>2, <2>5, <4>1, EmptySeq
      <4>2. t # <<>> => t[Len(t)] = s[Len(s)]
        BY <2>5, <4>1
      <4> QED
        BY <1>3, <2>2, <2>4, <4>2 DEF Held
    <3>7. ASSUME NEW i \in 2..Len(t) PROVE prev'[t[i]] = t[i - 1]
      <4>0. Len(s) \in Nat /\ Len(t) = Len(s) - 1
        BY <2>2, <2>5
      <4>1. i \in 1..Len(t) /\ i - 1 \in 1..Len(t) /\ i + 1 \in 2..Len(s) /\ (i - 1) + 1 = i
            /\ (i + 1) - 1 = i
        BY <4>0
      <4>2. t[i] = s[i + 1] /\ t[i - 1] = s[i]
        BY <2>5, <4>1
      <4>3. prev[s[i + 1]] = s[i]
        BY <1>3, <4>1 DEF Held
      <4> QED
        BY <3>3, <4>1, <4>2, <4>3
    <3>8. r2.head = next[tmp]
      BY <2>4
    <3> HIDE DEF t, r2, tmp
    <3> QED
      BY <3>4, <3>5, <3>6, <3>7, <3>8 DEF Held
  <2> HIDE DEF r, t, r2
  <2>11. l \in InUse' /\ \A k \in Lists \ {l} : k \in InUse' <=> k \in InUse
    <3>1. r2 # NONE
      BY <2>7, RecordIsNotNone
    <3> QED
      BY <1>1, <2>4, <3>1 DEF InUse, r2
  <2> DEFINE nd2 == [nd EXCEPT ![l] = t]
  <2>12. /\ HoldsIn(nd, InUse, list, next, prev, live) /\ nd \in [Lists -> Seq(Nodes)]
         /\ live = UNION {SetOf(nd[k]) : k \in Lists}
         /\ \A k, j \in Lists : k # j => SetOf(nd[k]) \cap SetOf(nd[j]) = {}
    BY <1>2 DEF Holds, HoldsIn
  <2>14. /\ nd2 \in [Lists -> Seq(Nodes)] /\ nd2[l] = t
         /\ \A k \in Lists \ {l} : nd2[k] = nd[k]
    BY <2>5, <2>12
  <2> HIDE DEF nd2
  <2>16. ASSUME NEW k \in Lists \ {l}
         PROVE  /\ SetOf(nd2[l]) \cap SetOf(nd2[k]) = {} /\ tmp \notin SetOf(nd[k])
                /\ \A i \in 1..Len(nd[k]) :
                     next'[nd[k][i]] = next[nd[k][i]] /\ prev'[nd[k][i]] = prev[nd[k][i]]
    <3>1. SetOf(s) \cap SetOf(nd[k]) = {} /\ tmp \notin SetOf(nd[k])
      BY <2>3, <2>12
    <3>2. ASSUME NEW i \in 1..Len(nd[k])
          PROVE  next'[nd[k][i]] = next[nd[k][i]] /\ prev'[nd[k][i]] = prev[nd[k][i]]
      <4>1. nd[k][i] \in SetOf(nd[k]) /\ SetOf(nd[k]) \subseteq Nodes
        BY <2>12, InSetOf, SetOfIn
      <4> QED
        BY <2>6, <3>1, <4>1
    <3> HIDE DEF tmp, s
    <3>3. SetOf(nd2[l]) \subseteq SetOf(s) /\ nd2[k] = nd[k]
      BY <2>5, <2>14
    <3> QED
      BY <3>1, <3>2, <3>3
  <2>17. live' = UNION {SetOf(nd2[k]) : k \in Lists}
    <3> HIDE DEF tmp
    <3>1. SetOf(nd2[l]) = SetOf(nd[l]) \ {tmp}
      BY <2>5, <2>14
    <3>2. ASSUME NEW m PROVE m \in live' <=> m \in UNION {SetOf(nd2[k]) : k \in Lists}
      <4>1. m \in UNION {SetOf(nd2[k]) : k \in Lists}
              <=> m \in SetOf(nd2[l]) \/ \E k \in Lists \ {l} : m \in SetOf(nd[k])
        BY <2>14, UnionChanged
      <4>2. m \in live <=> m \in SetOf(nd[l]) \/ \E k \in Lists \ {l} : m \in SetOf(nd[k])
        BY <2>12, UnionChanged
      <4> QED
        BY <2>6, <2>16, <3>1, <4>1, <4>2
    <3> QED
      BY <3>2
  <2>18. ChangesOnly({l}, nd, InUse, list, next, prev, nd2, InUse', list', next', prev')
    <3>1. InUse \subseteq Lists /\ InUse' \subseteq Lists
      BY DEF InUse
    <3>2. Held(nd2[l], list'[l], next', prev')
      BY <2>9, <2>14 DEF r2
    <3> QED
      BY <2>4, <2>11, <2>14, <2>16, <3>1, <3>2 DEF ChangesOnly
  <2>19. HoldsIn(nd2, InUse', list', next', prev', live')
    BY <2>12, <2>17, <2>18, Changed
  <2>20. \A k \in spent' : list'[k] # NONE
    BY <1>1, <2>4 DEF LInv, TypeOK, InUse
  <2>21. Holds(nd2)'
    BY <2>19 DEF Holds
  <2>22. ~broken'
    BY <2>1, <2>3
  <2>23. InUse' = InUse
    BY <1>1, <2>11 DEF InUse
  <2>24. nd2 = Read'
    BY <1>0, <2>6, <2>19, <2>23, HoldsIsRead DEF Read
  <2>25. Read' = [Read EXCEPT ![l] = Tail(@)]
    BY <1>0, <2>24 DEF nd2, t
  <2>26. LInv'
    BY <2>8, <2>20, <2>21, <2>22 DEF LInv
  <2>27. list[l].size # 0
    BY <1>5 DEF r
  <2> QED
    BY <1>0, <1>1, <2>1, <2>2, <2>23, <2>25, <2>26, <2>27
<1>6. r.size \in Nat
  BY <1>3 DEF Records
<1> QED
  BY <1>4, <1>5, <1>6

LEMMA IterateKeeps ==
    ASSUME LInv, NEW l \in Lists, list_iterate(l)
    PROVE  LInv' /\ l \in InUse /\ InUse' = InUse /\ Read' = Read
<1>1. /\ TypeOK /\ ~broken /\ l \in InUse /\ broken' = ~Sound(l)
      /\ UNCHANGED <<list, next, prev, data, live, spent>>
  BY DEF list_iterate, Usable, InUse, LInv
<1>2. PICK nd : Holds(nd)
  BY DEF LInv
<1>3. ~broken'
  BY <1>1, <1>2, NodesAre DEF Sound
<1>4. InUse' = InUse
  BY <1>1 DEF InUse
<1>5. Holds(nd)'
  BY <1>1, <1>2, <1>4 DEF Holds
<1>6. TypeOK'
  BY <1>1, <1>3 DEF TypeOK, Pointers
<1>7. Read' = Read
  BY <1>1, <1>4 DEF Read
<1> QED
  BY <1>1, <1>3, <1>4, <1>5, <1>6, <1>7 DEF LInv

\* The way back through a list that nothing was popped from.
Reversed(s) == [i \in 1..Len(s) |-> s[Len(s) + 1 - i]]

LEMMA ReversedIsSeq ==
    ASSUME NEW S, NEW s \in Seq(S)
    PROVE  /\ Reversed(s) \in Seq(S) /\ Len(Reversed(s)) = Len(s)
           /\ \A i \in 1..Len(s) : Reversed(s)[i] = s[Len(s) + 1 - i]
<1>1. Len(s) \in Nat /\ \A i \in 1..Len(s) : s[i] \in S
  BY LenProperties
<1>2. \A i \in 1..Len(s) : Len(s) + 1 - i \in 1..Len(s)
  BY <1>1
<1> QED
  BY <1>1, <1>2 DEF Reversed

LEMMA ChainBack ==
    ASSUME NEW s \in Seq(Nodes), NEW r, NEW nx, NEW pv, Held(s, r, nx, pv),
           IF r.head = NULL THEN r.tail = NULL ELSE pv[r.head] = NULL
    PROVE  IsChain(Reversed(s), pv, r.tail, NULL) /\ SetOf(Reversed(s)) \subseteq SetOf(s)
<1> DEFINE t == Reversed(s)
<1>1. /\ Len(s) \in Nat /\ (s # <<>> => Len(s) # 0 /\ 1 \in 1..Len(s))
      /\ \A i \in 1..Len(s) : s[i] \in Nodes /\ s[i] \in SetOf(s)
  BY LenProperties, EmptySeq, InSetOf
<1>2. /\ t \in Seq(Nodes) /\ Len(t) = Len(s) /\ \A i \in 1..Len(s) : t[i] = s[Len(s) + 1 - i]
  BY ReversedIsSeq
<1> HIDE DEF t
<1>3. \A i \in 1..Len(s) : Len(s) + 1 - i \in 1..Len(s)
  BY <1>1
<1>4. SetOf(t) \subseteq SetOf(s)
  <2>1. ASSUME NEW i \in 1..Len(s) PROVE t[i] \in SetOf(s)
    BY <1>1, <1>2, <1>3
  <2>2. SetOf(t) = {t[i] : i \in 1..Len(s)}
    BY <1>2 DEF SetOf
  <2> QED
    BY <2>1, <2>2
<1>5. Distinct(t)
  <2>1. ASSUME NEW i \in 1..Len(t), NEW j \in 1..Len(t), t[i] = t[j] PROVE i = j
    <3>1. Len(s) + 1 - i \in 1..Len(s) /\ Len(s) + 1 - j \in 1..Len(s)
      BY <1>2, <1>3
    <3>2. s[Len(s) + 1 - i] = s[Len(s) + 1 - j]
      BY <1>2, <2>1
    <3>3. Len(s) + 1 - i = Len(s) + 1 - j
      BY <3>1, <3>2 DEF Held, IsChain, Distinct
    <3> QED
      BY <1>1, <1>2, <3>3
  <2> QED
    BY <2>1 DEF Distinct
<1>6. r.head = IF s = <<>> THEN NULL ELSE s[1]
  BY DEF Held, IsChain
<1>7. r.tail = IF t = <<>> THEN NULL ELSE t[1]
  <2>1. CASE s = <<>>
    <3>1. t = <<>>
      BY <1>2, <2>1, EmptySeq
    <3> QED
      BY <1>6, <2>1, <3>1
  <2>2. CASE s # <<>>
    <3>1. t # <<>> /\ 1 \in 1..Len(s) /\ Len(s) + 1 - 1 = Len(s)
      BY <1>1, <1>2, <2>2, EmptySeq
    <3>2. t[1] = s[Len(s)]
      BY <1>2, <3>1
    <3> QED
      BY <2>2, <3>1, <3>2 DEF Held
  <2> QED
    BY <2>1, <2>2
<1>8. ASSUME NEW i \in 1..Len(t) PROVE pv[t[i]] = IF i = Len(t) THEN NULL ELSE t[i + 1]
  <2>1. CASE i = Len(t)
    <3>1. s # <<>> /\ Len(s) + 1 - i = 1 /\ i \in 1..Len(s) /\ 1 \in 1..Len(s)
      BY <1>1, <1>2, <2>1
    <3>2. t[i] = s[1]
      BY <1>2, <3>1
    <3>3. r.head # NULL
      BY <1>1, <1>6, <3>1, NullAssumption
    <3> QED
      BY <1>6, <2>1, <3>1, <3>2, <3>3
  <2>2. CASE i # Len(t)
    <3> DEFINE j == Len(s) + 1 - i
    <3>1. /\ j \in 2..Len(s) /\ i + 1 \in 1..Len(s) /\ i \in 1..Len(s)
          /\ Len(s) + 1 - (i + 1) = j - 1
      BY <1>1, <1>2, <2>2
    <3>2. t[i] = s[j] /\ t[i + 1] = s[j - 1]
      BY <1>2, <3>1
    <3> HIDE DEF j
    <3>3. pv[s[j]] = s[j - 1]
      BY <3>1 DEF Held
    <3> QED
      BY <2>2, <3>2, <3>3
  <2> QED
    BY <2>1, <2>2
<1>9. IsChain(t, pv, r.tail, NULL)
  BY <1>5, <1>7, <1>8 DEF IsChain
<1> QED
  BY <1>4, <1>9 DEF t

LEMMA BackAre ==
    ASSUME TypeOK, NEW nd, Holds(nd), NEW l \in InUse, Unpopped(l)
    PROVE  WalkBack(list[l].tail) = Reversed(nd[l]) /\ SetOf(Reversed(nd[l])) \subseteq live
<1>1. /\ nd[l] \in Seq(Nodes) /\ Held(nd[l], list[l], next, prev)
      /\ SetOf(nd[l]) \subseteq live
  BY NodesAre
<1>2. IF list[l].head = NULL THEN list[l].tail = NULL ELSE prev[list[l].head] = NULL
  BY DEF Unpopped
<1>3. /\ IsChain(Reversed(nd[l]), prev, list[l].tail, NULL)
      /\ SetOf(Reversed(nd[l])) \subseteq SetOf(nd[l])
  BY <1>1, <1>2, ChainBack
<1>4. Reversed(nd[l]) \in Seq(Nodes)
  BY <1>1, ReversedIsSeq
<1>5. DOMAIN prev = Nodes
  BY DEF TypeOK
<1>6. Along(prev, list[l].tail, NULL) = Reversed(nd[l])
  BY <1>3, <1>4, <1>5, NodesAssumption, NullAssumption, AlongChain
<1> QED
  BY <1>1, <1>3, <1>6 DEF WalkBack

LEMMA TraverseKeeps ==
    ASSUME LInv, NEW l \in Lists, NEW forward \in BOOLEAN, list_traverse(l, forward)
    PROVE  LInv' /\ l \in InUse /\ InUse' = InUse /\ Read' = Read
<1>1. /\ TypeOK /\ ~broken /\ l \in InUse /\ (forward => Unpopped(l))
      /\ UNCHANGED <<list, next, prev, data, live, spent>>
  BY DEF list_traverse, Usable, InUse, LInv
<1>2. PICK nd : Holds(nd)
  BY DEF LInv
<1>3. broken' = ~(SetOf(IF forward THEN WalkBack(list[l].tail) ELSE NodesOf(l)) \subseteq live)
  BY DEF list_traverse
<1>4. ~broken'
  <2>1. CASE forward
    <3>1. /\ WalkBack(list[l].tail) = Reversed(nd[l])
          /\ SetOf(Reversed(nd[l])) \subseteq live
      BY <1>1, <1>2, <2>1, BackAre
    <3> QED
      BY <1>3, <2>1, <3>1
  <2>2. CASE ~forward
    <3>1. NodesOf(l) = nd[l] /\ SetOf(nd[l]) \subseteq live
      BY <1>1, <1>2, NodesAre
    <3> QED
      BY <1>3, <2>2, <3>1
  <2> QED
    BY <2>1, <2>2
<1>5. InUse' = InUse
  BY <1>1 DEF InUse
<1>6. Holds(nd)'
  BY <1>1, <1>2, <1>5 DEF Holds
<1>7. TypeOK'
  BY <1>1, <1>3 DEF TypeOK, Pointers
<1>8. Read' = Read
  BY <1>1, <1>5 DEF Read
<1> QED
  BY <1>1, <1>4, <1>5, <1>6, <1>7, <1>8 DEF LInv

LEMMA ReleaseKeeps ==
    ASSUME LInv, ~ReleasesBoth, NEW l \in Lists, list_release(l)
    PROVE  /\ LInv'
           /\ l \in InUse /\ InUse' = InUse \ {l}
           /\ Free(SetOf(Read[l])) /\ Read' = [Read EXCEPT ![l] = <<>>]
<1>1. TypeOK /\ ~broken /\ l \in InUse
  BY DEF list_release, Usable, InUse, LInv
<1>2. PICK nd : Holds(nd)
  BY DEF LInv
<1> DEFINE s == nd[l]
<1>3. NodesOf(l) = s /\ s \in Seq(Nodes) /\ SetOf(s) \subseteq live
  BY <1>1, <1>2, NodesAre
<1>4. /\ list' = [list EXCEPT ![l] = NONE] /\ Free(SetOf(s))
      /\ spent' = spent \ {l} /\ ~broken' /\ broken' = ~Sound(l)
  BY <1>3 DEF list_release, Sound
<1>5. /\ next' \in [Nodes -> Pointers] /\ prev' \in [Nodes -> Pointers]
      /\ data' \in [Nodes -> Items \cup {NULL}]
      /\ live' = live \ SetOf(s)
      /\ \A m \in Nodes \ SetOf(s) : next'[m] = next[m] /\ prev'[m] = prev[m]
  BY <1>1, <1>4, FreeLeaves
<1>6. TypeOK'
  BY <1>1, <1>4, <1>5 DEF TypeOK, Records
<1>7. list'[l] = NONE /\ \A k \in Lists \ {l} : list'[k] = list[k]
  BY <1>1, <1>4 DEF TypeOK
<1>8. /\ InUse' = InUse \ {l} /\ \A k \in Lists \ {l} : k \in InUse' <=> k \in InUse
      /\ InUse \subseteq Lists /\ InUse' \subseteq Lists
  BY <1>1, <1>4, <1>7 DEF InUse
<1> DEFINE nd2 == [nd EXCEPT ![l] = <<>>]
<1>9. /\ HoldsIn(nd, InUse, list, next, prev, live) /\ nd \in [Lists -> Seq(Nodes)]
      /\ live = UNION {SetOf(nd[k]) : k \in Lists}
      /\ \A k, j \in Lists : k # j => SetOf(nd[k]) \cap SetOf(nd[j]) = {}
  BY <1>2 DEF Holds, HoldsIn
<1>10. /\ nd2 \in [Lists -> Seq(Nodes)] /\ nd2[l] = <<>>
       /\ \A k \in Lists \ {l} : nd2[k] = nd[k]
  BY <1>9, EmptySeq
<1> HIDE DEF nd2
<1>11. ASSUME NEW k \in Lists \ {l}
       PROVE  /\ SetOf(nd2[l]) \cap SetOf(nd2[k]) = {} /\ SetOf(s) \cap SetOf(nd[k]) = {}
              /\ \A i \in 1..Len(nd[k]) :
                   next'[nd[k][i]] = next[nd[k][i]] /\ prev'[nd[k][i]] = prev[nd[k][i]]
  <2>1. SetOf(s) \cap SetOf(nd[k]) = {}
    BY <1>9
  <2>2. ASSUME NEW i \in 1..Len(nd[k])
        PROVE  next'[nd[k][i]] = next[nd[k][i]] /\ prev'[nd[k][i]] = prev[nd[k][i]]
    <3>1. nd[k][i] \in SetOf(nd[k]) /\ SetOf(nd[k]) \subseteq Nodes
      BY <1>9, InSetOf, SetOfIn
    <3> HIDE DEF s
    <3> QED
      BY <1>5, <2>1, <3>1
  <2> QED
    BY <1>10, <2>1, <2>2, SetOfEmpty
<1>12. live' = UNION {SetOf(nd2[k]) : k \in Lists}
  <2>1. SetOf(nd2[l]) = {}
    BY <1>10, SetOfEmpty
  <2>2. ASSUME NEW m PROVE m \in live' <=> m \in UNION {SetOf(nd2[k]) : k \in Lists}
    <3>1. m \in UNION {SetOf(nd2[k]) : k \in Lists}
            <=> m \in SetOf(nd2[l]) \/ \E k \in Lists \ {l} : m \in SetOf(nd[k])
      BY <1>10, UnionChanged
    <3>2. m \in live <=> m \in SetOf(nd[l]) \/ \E k \in Lists \ {l} : m \in SetOf(nd[k])
      BY <1>9, UnionChanged
    <3> QED
      BY <1>5, <1>11, <2>1, <3>1, <3>2
  <2> QED
    BY <2>2
<1>13. ChangesOnly({l}, nd, InUse, list, next, prev, nd2, InUse', list', next', prev')
  BY <1>7, <1>8, <1>10, <1>11 DEF ChangesOnly
<1>14. HoldsIn(nd2, InUse', list', next', prev', live')
  BY <1>9, <1>12, <1>13, Changed
<1>15. Holds(nd2)'
  BY <1>14 DEF Holds
<1>16. \A k \in spent' : list'[k] # NONE
  BY <1>1, <1>4, <1>7 DEF LInv, TypeOK
<1>17. nd = Read
  BY <1>1, <1>8, <1>9, HoldsIsRead DEF Read, TypeOK
<1>18. nd2 = Read'
  BY <1>5, <1>8, <1>14, HoldsIsRead DEF Read
<1>19. Read' = [Read EXCEPT ![l] = <<>>]
  BY <1>17, <1>18 DEF nd2
<1>20. LInv'
  BY <1>4, <1>6, <1>15, <1>16 DEF LInv
<1> QED
  BY <1>1, <1>4, <1>8, <1>17, <1>19, <1>20

\* What list_merge does to two lists that are not empty.
Merged(r, q, nx, pv, r2, nx2, pv2) ==
    /\ r2 = [head |-> r.head, tail |-> q.tail, size |-> r.size + q.size]
    /\ nx2 = [nx EXCEPT ![r.tail] = q.head]
    /\ pv2 = [pv EXCEPT ![q.head] = r.tail]

LEMMA MergeLinks ==
    ASSUME NEW s \in Seq(Nodes), NEW t \in Seq(Nodes), s # <<>>, t # <<>>,
           SetOf(s) \cap SetOf(t) = {}, NEW r \in Records, NEW q \in Records,
           NEW nx \in [Nodes -> Pointers], NEW pv \in [Nodes -> Pointers],
           Held(s, r, nx, pv), Held(t, q, nx, pv),
           NEW r2, NEW nx2, NEW pv2, Merged(r, q, nx, pv, r2, nx2, pv2)
    PROVE  /\ Held(s \o t, r2, nx2, pv2) /\ r2 \in Records
           /\ nx2 \in [Nodes -> Pointers] /\ pv2 \in [Nodes -> Pointers]
           /\ r.tail \in SetOf(s) /\ q.head \in SetOf(t)
           /\ \A m \in Nodes : m \notin SetOf(s) \cup SetOf(t)
                                 => nx2[m] = nx[m] /\ pv2[m] = pv[m]
<1> DEFINE v == s \o t
<1>1. /\ Len(s) \in Nat /\ Len(s) # 0 /\ Len(s) \in 1..Len(s)
      /\ \A i \in 1..Len(s) : s[i] \in Nodes /\ s[i] \in SetOf(s)
  BY LenProperties, EmptySeq, InSetOf
<1>2. /\ Len(t) \in Nat /\ Len(t) # 0 /\ 1 \in 1..Len(t)
      /\ \A i \in 1..Len(t) : t[i] \in Nodes /\ t[i] \in SetOf(t)
  BY LenProperties, EmptySeq, InSetOf
<1>3. r.tail = s[Len(s)] /\ q.head = t[1]
  BY DEF Held, IsChain
<1>4. r.tail \in Nodes /\ r.tail \in SetOf(s) /\ q.head \in Nodes /\ q.head \in SetOf(t)
  BY <1>1, <1>2, <1>3
<1>5. r2 \in Records /\ nx2 \in [Nodes -> Pointers] /\ pv2 \in [Nodes -> Pointers]
  BY <1>4 DEF Records, Pointers, Merged
<1>6. nx2[r.tail] = q.head /\ \A m \in Nodes : m # r.tail => nx2[m] = nx[m]
  BY <1>4 DEF Merged
<1>7. pv2[q.head] = r.tail /\ \A m \in Nodes : m # q.head => pv2[m] = pv[m]
  BY <1>4 DEF Merged
<1>8. /\ v \in Seq(Nodes) /\ Len(v) = Len(s) + Len(t)
      /\ \A i \in 1..Len(s) + Len(t) : v[i] = IF i <= Len(s) THEN s[i] ELSE t[i - Len(s)]
  BY ConcatProperties
<1>9. r2.head = r.head /\ r2.tail = q.tail /\ r2.size = r.size + q.size
  BY DEF Merged
<1> HIDE DEF v
<1>10. \A i \in 1..Len(t) : t[i] # r.tail
  BY <1>2, <1>4
<1>11. \A i \in 1..Len(s) : s[i] # q.head
  BY <1>1, <1>4
<1>12. IsChain(v, nx2, r2.head, NULL)
  <2>1. IsChain(s, nx, r.head, NULL) /\ IsChain(t, nx, q.head, NULL)
    BY DEF Held
  <2>2. \A i \in 1..Len(s) - 1 : nx2[s[i]] = nx[s[i]]
    <3>1. ASSUME NEW i \in 1..Len(s) - 1 PROVE s[i] # s[Len(s)] /\ s[i] \in Nodes
      <4>1. i \in 1..Len(s) /\ i # Len(s)
        BY <1>1
      <4> QED
        BY <1>1, <2>1, <4>1 DEF IsChain, Distinct
    <3> QED
      BY <1>3, <1>6, <3>1
  <2>3. \A i \in 1..Len(t) : nx2[t[i]] = nx[t[i]]
    BY <1>2, <1>6, <1>10
  <2>4. nx2[s[Len(s)]] = q.head
    BY <1>3, <1>6
  <2>5. IsChain(s \o t, nx2, r.head, NULL)
    BY <2>1, <2>2, <2>3, <2>4, ChainConcat
  <2> QED
    BY <1>9, <2>5 DEF v
<1>13. Len(v) = r2.size
  BY <1>8, <1>9 DEF Held
<1>14. r2.tail = v[Len(v)]
  <2>1. /\ Len(s) + Len(t) \in 1..Len(s) + Len(t) /\ ~(Len(s) + Len(t) <= Len(s))
        /\ (Len(s) + Len(t)) - Len(s) = Len(t)
    BY <1>1, <1>2
  <2>2. v[Len(v)] = t[Len(t)]
    BY <1>8, <2>1
  <2> QED
    BY <1>9, <2>2 DEF Held
<1>15. ASSUME NEW i \in 2..Len(v) PROVE pv2[v[i]] = v[i - 1]
  <2>1. i \in Int /\ 2 <= i /\ i <= Len(s) + Len(t)
    BY <1>1, <1>2, <1>8
  <2>2. CASE i <= Len(s)
    <3>1. /\ i \in 1..Len(s) + Len(t) /\ i - 1 \in 1..Len(s) + Len(t) /\ i - 1 <= Len(s)
          /\ i \in 1..Len(s) /\ i \in 2..Len(s)
      BY <1>1, <1>2, <2>1, <2>2
    <3>2. v[i] = s[i] /\ v[i - 1] = s[i - 1]
      BY <1>8, <2>2, <3>1
    <3>3. pv[s[i]] = s[i - 1]
      BY <3>1 DEF Held
    <3> QED
      BY <1>1, <1>7, <1>11, <3>1, <3>2, <3>3
  <2>3. CASE i = Len(s) + 1
    <3>1. /\ i \in 1..Len(s) + Len(t) /\ i - 1 \in 1..Len(s) + Len(t) /\ i - 1 <= Len(s)
          /\ ~(i <= Len(s)) /\ i - Len(s) = 1 /\ i - 1 = Len(s)
      BY <1>1, <1>2, <2>1, <2>3
    <3>2. v[i] = t[1] /\ v[i - 1] = s[Len(s)]
      BY <1>8, <3>1
    <3> QED
      BY <1>3, <1>7, <3>2
  <2>4. CASE i > Len(s) + 1
    <3> DEFINE j == i - Len(s)
    <3>1. /\ i \in 1..Len(s) + Len(t) /\ i - 1 \in 1..Len(s) + Len(t) /\ ~(i - 1 <= Len(s))
          /\ ~(i <= Len(s)) /\ (i - 1) - Len(s) = j - 1 /\ j \in 2..Len(t) /\ j \in 1..Len(t)
          /\ j # 1
      BY <1>1, <1>2, <2>1, <2>4
    <3>2. v[i] = t[j] /\ v[i - 1] = t[j - 1]
      BY <1>8, <3>1
    <3> HIDE DEF j
    <3>3. pv[t[j]] = t[j - 1]
      BY <3>1 DEF Held
    <3>4. t[j] # t[1]
      BY <1>2, <3>1 DEF Held, IsChain, Distinct
    <3> QED
      BY <1>2, <1>3, <1>7, <3>1, <3>2, <3>3, <3>4
  <2> QED
    BY <1>1, <2>1, <2>2, <2>3, <2>4
<1>16. Held(v, r2, nx2, pv2)
  BY <1>12, <1>13, <1>14, <1>15 DEF Held
<1>17. \A m \in Nodes : m \notin SetOf(s) \cup SetOf(t) => nx2[m] = nx[m] /\ pv2[m] = pv[m]
  BY <1>4, <1>6, <1>7
<1> QED
  BY <1>4, <1>5, <1>16, <1>17 DEF v

LEMMA RecordUpdate ==
    ASSUME NEW r \in Records, NEW z, NEW w
    PROVE  [[r EXCEPT !.size = @ + w] EXCEPT !.tail = z]
             = [head |-> r.head, tail |-> z, size |-> r.size + w]
<1>1. r = [head |-> r.head, tail |-> r.tail, size |-> r.size]
  BY DEF Records
<1> DEFINE m == [r EXCEPT !.size = @ + w]
<1>2. m = [head |-> r.head, tail |-> r.tail, size |-> r.size + w]
  BY <1>1
<1> HIDE DEF m
<1>3. [m EXCEPT !.tail = z] = [head |-> r.head, tail |-> z, size |-> r.size + w]
  BY <1>2
<1> QED
  BY <1>3 DEF m

LEMMA MergeKeeps ==
    ASSUME LInv, NEW a \in Lists, NEW b \in Lists, a # b, list_merge(a, b)
    PROVE  /\ LInv'
           /\ a \in InUse /\ b \in InUse
           /\ \/ /\ Read[a] = <<>> /\ Read[b] = <<>>
                 /\ InUse' = InUse /\ Read' = Read
              \/ /\ Read[a] # <<>> /\ Read[b] # <<>>
                 /\ InUse' = InUse \ {b}
                 /\ Read' = [Read EXCEPT ![a] = @ \o Read[b], ![b] = <<>>]
<1>1. /\ TypeOK /\ ~broken /\ a \in InUse /\ b \in InUse /\ UNCHANGED <<data, live>>
  BY DEF list_merge, Usable, InUse, LInv
<1>2. PICK nd : Holds(nd)
  BY DEF LInv
<1> DEFINE s == nd[a]
           t == nd[b]
           r == list[a]
           q == list[b]
<1>3. /\ s \in Seq(Nodes) /\ r \in Records /\ Held(s, r, next, prev)
      /\ SetOf(s) \subseteq live /\ Len(s) = r.size
  BY <1>1, <1>2, NodesAre DEF Held
<1>4. /\ t \in Seq(Nodes) /\ q \in Records /\ Held(t, q, next, prev)
      /\ SetOf(t) \subseteq live /\ Len(t) = q.size
  BY <1>1, <1>2, NodesAre DEF Held
<1>5. /\ HoldsIn(nd, InUse, list, next, prev, live) /\ nd \in [Lists -> Seq(Nodes)]
      /\ live = UNION {SetOf(nd[k]) : k \in Lists}
      /\ \A k, j \in Lists : k # j => SetOf(nd[k]) \cap SetOf(nd[j]) = {}
  BY <1>2 DEF Holds, HoldsIn
<1>0. InUse \subseteq Lists /\ nd = Read
  <2>1. InUse \subseteq Lists
    BY DEF InUse
  <2> QED
    BY <1>1, <1>5, <2>1, HoldsIsRead DEF Read, TypeOK
<1>6. CASE r.size = 0 /\ q.size = 0
  <2>1. UNCHANGED <<list, next, prev, spent, broken, data, live>>
    BY <1>6 DEF list_merge
  <2>2. InUse' = InUse
    BY <2>1 DEF InUse
  <2>3. Holds(nd)'
    BY <1>2, <2>1, <2>2 DEF Holds
  <2>4. TypeOK'
    BY <1>1, <2>1 DEF TypeOK, Pointers
  <2>5. s = <<>> /\ t = <<>>
    BY <1>3, <1>4, <1>6, EmptySeq
  <2>6. Read' = Read
    BY <2>1, <2>2 DEF Read
  <2>7. LInv'
    BY <1>1, <2>1, <2>3, <2>4 DEF LInv
  <2> QED
    BY <1>0, <1>1, <2>2, <2>5, <2>6, <2>7
<1>7. CASE r.size > 0 /\ q.size > 0
  <2> DEFINE r2 == [head |-> r.head, tail |-> q.tail, size |-> r.size + q.size]
  <2>1. /\ next' = [next EXCEPT ![r.tail] = q.head]
        /\ prev' = [prev EXCEPT ![q.head] = r.tail]
        /\ list' = [list EXCEPT ![a].size = @ + q.size, ![a].tail = q.tail]
        /\ spent' = spent \cup {b} /\ broken' = ~({r.tail, q.head} \subseteq live)
    BY <1>7 DEF list_merge
  <2>2. list' = [list EXCEPT ![a] = r2] /\ list'[a] = r2
        /\ \A k \in Lists \ {a} : list'[k] = list[k]
    <3>1. [[r EXCEPT !.size = @ + q.size] EXCEPT !.tail = q.tail] = r2
      BY <1>3, RecordUpdate
    <3>2. list' = [list EXCEPT ![a] = [[r EXCEPT !.size = @ + q.size] EXCEPT !.tail = q.tail]]
      BY <1>1, <2>1 DEF TypeOK
    <3> HIDE DEF r2
    <3>3. list' = [list EXCEPT ![a] = r2]
      BY <3>1, <3>2
    <3> QED
      BY <1>1, <3>3 DEF TypeOK
  <2>3. s # <<>> /\ t # <<>>
    BY <1>3, <1>4, <1>7, EmptySeq
  <2>4. next \in [Nodes -> Pointers] /\ prev \in [Nodes -> Pointers]
    BY <1>1 DEF TypeOK
  <2>5. SetOf(s) \cap SetOf(t) = {}
    BY <1>5
  <2> HIDE DEF s, t, r, q, r2
  <2>6. /\ Held(s \o t, r2, next', prev') /\ r2 \in Records
        /\ next' \in [Nodes -> Pointers] /\ prev' \in [Nodes -> Pointers]
        /\ r.tail \in SetOf(s) /\ q.head \in SetOf(t)
        /\ \A m \in Nodes : m \notin SetOf(s) \cup SetOf(t)
                                     => next'[m] = next[m] /\ prev'[m] = prev[m]
    <3>1. Merged(r, q, next, prev, r2, next', prev')
      BY <2>1 DEF Merged, r2
    <3> QED
      BY <1>3, <1>4, <2>3, <2>4, <2>5, <3>1, MergeLinks
  <2>7. ~broken'
    BY <1>3, <1>4, <2>1, <2>6
  <2>8. TypeOK'
    BY <1>1, <2>1, <2>2, <2>6 DEF TypeOK, Records
  <2>9. /\ InUse' = InUse \ {b} /\ InUse' \subseteq Lists /\ InUse \subseteq Lists
        /\ a \in InUse' /\ b \notin InUse'
        /\ \A k \in Lists \ {a, b} : k \in InUse' <=> k \in InUse
    <3>1. r2 # NONE
      BY <2>6, RecordIsNotNone
    <3>2. list'[a] # NONE /\ list[a] # NONE
      BY <1>1, <2>2, <3>1 DEF InUse
    <3> QED
      BY <1>1, <2>1, <2>2, <3>2 DEF InUse
  <2> DEFINE nd2 == [nd EXCEPT ![a] = s \o t, ![b] = <<>>]
  <2>10. s \o t \in Seq(Nodes) /\ SetOf(s \o t) = SetOf(s) \cup SetOf(t)
    BY <1>3, <1>4, ConcatProperties, SetOfConcat
  <2>11. /\ nd2 \in [Lists -> Seq(Nodes)] /\ nd2[a] = s \o t /\ nd2[b] = <<>>
         /\ \A k \in Lists \ {a, b} : nd2[k] = nd[k]
    BY <1>5, <2>10, EmptySeq
  <2> HIDE DEF nd2
  <2>12. ASSUME NEW k \in Lists \ {a, b}
         PROVE  /\ SetOf(nd2[a]) \cap SetOf(nd2[k]) = {}
                /\ \A i \in 1..Len(nd[k]) :
                     next'[nd[k][i]] = next[nd[k][i]] /\ prev'[nd[k][i]] = prev[nd[k][i]]
    <3>1. SetOf(s) \cap SetOf(nd[k]) = {} /\ SetOf(t) \cap SetOf(nd[k]) = {}
      BY <1>5 DEF s, t
    <3>2. ASSUME NEW i \in 1..Len(nd[k])
          PROVE  next'[nd[k][i]] = next[nd[k][i]] /\ prev'[nd[k][i]] = prev[nd[k][i]]
      <4>1. nd[k][i] \in SetOf(nd[k]) /\ SetOf(nd[k]) \subseteq Nodes
        BY <1>5, InSetOf, SetOfIn
      <4> QED
        BY <2>6, <3>1, <4>1
    <3> QED
      BY <2>10, <2>11, <3>1, <3>2
  <2>13. \A k \in {a, b}, j \in Lists : k # j => SetOf(nd2[k]) \cap SetOf(nd2[j]) = {}
    <3>1. SetOf(nd2[b]) = {}
      BY <2>11, SetOfEmpty
    <3> QED
      BY <2>12, <3>1
  <2>14. live' = UNION {SetOf(nd2[k]) : k \in Lists}
    <3>1. ASSUME NEW m \in live' PROVE m \in UNION {SetOf(nd2[k]) : k \in Lists}
      <4>1. PICK k \in Lists : m \in SetOf(nd[k])
        BY <1>1, <1>5
      <4>2. CASE k \in {a, b}
        <5>1. m \in SetOf(nd2[a])
          BY <2>10, <2>11, <4>1, <4>2 DEF s, t
        <5> QED
          BY <5>1
      <4>3. CASE k \notin {a, b}
        BY <2>11, <4>1, <4>3
      <4> QED
        BY <4>2, <4>3
    <3>2. ASSUME NEW k \in Lists, NEW m \in SetOf(nd2[k]) PROVE m \in live'
      <4>1. CASE k = a
        BY <1>1, <1>3, <1>4, <2>10, <2>11, <4>1
      <4>2. CASE k = b
        BY <2>11, <4>2, SetOfEmpty
      <4>3. CASE k \notin {a, b}
        <5>1. m \in SetOf(nd[k])
          BY <2>11, <4>3
        <5> QED
          BY <1>1, <1>5, <5>1
      <4> QED
        BY <4>1, <4>2, <4>3
    <3> QED
      BY <3>1, <3>2
  <2>15. ChangesOnly({a, b}, nd, InUse, list, next, prev, nd2, InUse', list', next', prev')
    <3>1. \A k \in {a, b} : k \in InUse' => Held(nd2[k], list'[k], next', prev')
      BY <2>2, <2>6, <2>9, <2>11
    <3>2. \A k \in {a, b} : k \notin InUse' => nd2[k] = <<>>
      BY <2>9, <2>11
    <3>3. \A k \in Lists \ {a, b} : list'[k] = list[k] /\ nd2[k] = nd[k]
      BY <2>2, <2>11
    <3> QED
      BY <2>9, <2>11, <2>12, <2>13, <3>1, <3>2, <3>3 DEF ChangesOnly
  <2>16. HoldsIn(nd2, InUse', list', next', prev', live')
    BY <1>5, <2>14, <2>15, Changed
  <2>17. Holds(nd2)'
    BY <2>16 DEF Holds
  <2>18. \A k \in spent' : list'[k] # NONE
    <3>1. r2 # NONE
      BY <2>6, RecordIsNotNone
    <3> QED
      BY <1>1, <2>1, <2>2, <3>1 DEF LInv, TypeOK, InUse
  <2>19. LInv'
    BY <2>7, <2>8, <2>17, <2>18 DEF LInv
  <2>20. nd2 = Read'
    BY <2>6, <2>9, <2>16, HoldsIsRead DEF Read
  <2>21. Read' = [Read EXCEPT ![a] = @ \o Read[b], ![b] = <<>>]
    BY <1>0, <2>20 DEF nd2, s, t
  <2> QED
    BY <1>0, <1>1, <2>3, <2>9, <2>19, <2>21 DEF s, t
<1> QED
  BY <1>6, <1>7 DEF list_merge

\* No call breaks the lists as long as nobody releases a list that was merged
\* into another one.
LEMMA LInvNext ==
    ASSUME ~ReleasesBoth, LInv, [Next]_vars
    PROVE  LInv'
<1>1. CASE Next
  <2>1. ASSUME NEW l \in Lists, \/ list_init(l) \/ list_pop_head(l)
                                \/ list_iterate(l) \/ list_release(l)
        PROVE  LInv'
    BY <2>1, CreateKeeps, PopKeeps, IterateKeeps, ReleaseKeeps
  <2>2. ASSUME NEW l \in Lists, NEW forward \in BOOLEAN, list_traverse(l, forward)
        PROVE  LInv'
    BY <2>2, TraverseKeeps
  <2>3. ASSUME NEW l \in Lists, NEW it \in Items, NEW n \in Nodes, list_push(l, it, n)
        PROVE  LInv'
    BY <2>3, PushKeeps
  <2>4. ASSUME NEW a \in Lists, NEW b \in Lists, a # b /\ list_merge(a, b)
        PROVE  LInv'
    BY <2>4, MergeKeeps
  <2> QED
    BY <1>1, <2>1, <2>2, <2>3, <2>4 DEF Next
<1>2. CASE UNCHANGED vars
  <2>1. UNCHANGED <<list, next, prev, data, live, spent, broken>>
    BY <1>2 DEF vars
  <2>2. PICK nd : Holds(nd)
    BY DEF LInv
  <2>3. InUse' = InUse
    BY <2>1 DEF InUse
  <2>4. Holds(nd)'
    BY <2>1, <2>2, <2>3 DEF Holds
  <2>5. TypeOK'
    BY <2>1 DEF LInv, TypeOK, Pointers
  <2> QED
    BY <2>1, <2>4, <2>5 DEF LInv
<1> QED
  BY <1>1, <1>2

LEMMA LInvLinked == LInv => LinkedBothWays
<1> SUFFICES ASSUME LInv PROVE LinkedBothWays
  OBVIOUS
<1>1. TypeOK
  BY DEF LInv
<1>2. PICK nd : Holds(nd)
  BY DEF LInv
<1>3. \A l \in InUse : /\ NodesOf(l) = nd[l] /\ l \in Lists /\ Held(nd[l], list[l], next, prev)
  BY <1>1, <1>2, NodesAre
<1>4. \A l \in Lists : l \notin InUse => SetOf(nd[l]) = {}
  BY <1>2, SetOfEmpty DEF Holds, HoldsIn
<1>5. live = UNION {SetOf(nd[l]) : l \in Lists}
  BY <1>2 DEF Holds, HoldsIn
<1>6. live = UNION {SetOf(NodesOf(l)) : l \in InUse}
  <2>1. ASSUME NEW m \in live PROVE m \in UNION {SetOf(NodesOf(l)) : l \in InUse}
    <3>1. PICK l \in Lists : m \in SetOf(nd[l])
      BY <1>5
    <3>2. l \in InUse
      BY <1>4, <3>1
    <3> QED
      BY <1>3, <3>1, <3>2
  <2>2. ASSUME NEW l \in InUse, NEW m \in SetOf(NodesOf(l)) PROVE m \in live
    BY <1>3, <1>5
  <2> QED
    BY <2>1, <2>2
<1>7. \A k, l \in InUse : k # l => SetOf(NodesOf(k)) \cap SetOf(NodesOf(l)) = {}
  BY <1>2, <1>3 DEF Holds, HoldsIn
<1>8. ASSUME NEW l \in InUse
      PROVE  LET nodes == NodesOf(l)
             IN  /\ Len(nodes) = list[l].size
                 /\ nodes # <<>> => list[l].tail = nodes[Len(nodes)]
                 /\ \A i \in 2..Len(nodes) : prev[nodes[i]] = nodes[i - 1]
  BY <1>3 DEF Held
<1> QED
  BY <1>6, <1>7, <1>8 DEF LinkedBothWays

(* The links of the lists stay whole through any sequence of calls: each    *)
(* node in use is in one list, size and tail are right, and prev leads the  *)
(* way back, as long as no list that was merged away is released.           *)
THEOREM ListsStayLinked ==
    ASSUME ~ReleasesBoth
    PROVE  Spec => []LinkedBothWays
<1>1. Init => LInv
  BY LInvInit
<1>2. LInv /\ [Next]_vars => LInv'
  BY LInvNext
<1>3. LInv => LinkedBothWays
  BY LInvLinked
<1> QED
  BY <1>1, <1>2, <1>3, PTL DEF Spec

(* The types of the lists hold, and no released node is followed or         *)
(* released again, as long as no list that was merged away is released.     *)
THEOREM ListsNeverBreak ==
    ASSUME ~ReleasesBoth
    PROVE  Spec => [](TypeOK /\ MergedListsReleasable)
<1>1. Init => LInv
  BY LInvInit
<1>2. LInv /\ [Next]_vars => LInv'
  BY LInvNext
<1>3. LInv => TypeOK /\ MergedListsReleasable
  BY DEF LInv, MergedListsReleasable
<1> QED
  BY <1>1, <1>2, <1>3, PTL DEF Spec

-----------------------------------------------------------------------------
(* The lists implement the queues.                                          *)

ItemsIn(s, dt) == [i \in 1..Len(s) |-> dt[s[i]]]

Data == Items \cup {NULL}

Got(S, dt) == {dt[x1] : x1 \in S}

LEMMA ItemsAre ==
    ASSUME NEW S, NEW s \in Seq(S), NEW dt
    PROVE  /\ ItemsIn(s, dt) \in Seq(Got(S, dt)) /\ Len(ItemsIn(s, dt)) = Len(s)
           /\ ItemsIn(s, dt) = <<>> <=> s = <<>>
           /\ \A i \in 1..Len(s) : ItemsIn(s, dt)[i] = dt[s[i]]
<1>1. Len(s) \in Nat /\ \A i \in 1..Len(s) : s[i] \in S
  BY LenProperties
<1>2. ItemsIn(s, dt) \in Seq(Got(S, dt)) /\ Len(ItemsIn(s, dt)) = Len(s)
  BY <1>1 DEF ItemsIn, Got
<1>4. ItemsIn(s, dt) = <<>> <=> s = <<>>
  BY <1>1, <1>2, EmptySeq
<1> QED
  BY <1>2, <1>4 DEF ItemsIn

LEMMA ItemsAreNotNone ==
    ASSUME NEW s \in Seq(Nodes), NEW dt \in [Nodes -> Data]
    PROVE  ItemsIn(s, dt) # NONE
<1>1. ItemsIn(s, dt) \in Seq(Data)
  BY LenProperties DEF ItemsIn
<1> QED
  BY <1>1, NoneAssumption DEF Data

LEMMA ItemsSame ==
    ASSUME NEW S, NEW s \in Seq(S), NEW dt, NEW dt2, \A i \in 1..Len(s) : dt2[s[i]] = dt[s[i]]
    PROVE  ItemsIn(s, dt2) = ItemsIn(s, dt)
BY DEF ItemsIn

LEMMA ItemsAppend ==
    ASSUME NEW S, NEW s \in Seq(S), NEW n \in S, NEW dt
    PROVE  ItemsIn(Append(s, n), dt) = Append(ItemsIn(s, dt), dt[n])
<1> DEFINE t == Append(s, n)
           u == ItemsIn(s, dt)
           v == ItemsIn(t, dt)
           w == Append(u, dt[n])
<1>1. /\ Len(s) \in Nat /\ t \in Seq(S) /\ Len(t) = Len(s) + 1 /\ t[Len(s) + 1] = n
      /\ \A i \in 1..Len(s) : t[i] = s[i]
  BY LenProperties, AppendProperties
<1> HIDE DEF t
<1>2. u \in Seq(Got(S, dt)) /\ Len(u) = Len(s) /\ \A i \in 1..Len(s) : u[i] = dt[s[i]]
  BY ItemsAre
<1>3. v \in Seq(Got(S, dt)) /\ Len(v) = Len(t) /\ \A i \in 1..Len(t) : v[i] = dt[t[i]]
  BY <1>1, ItemsAre
<1> HIDE DEF u, v
<1>0. dt[n] \in Got(S, dt)
  BY DEF Got
<1>4. /\ w \in Seq(Got(S, dt)) /\ Len(w) = Len(u) + 1 /\ w[Len(u) + 1] = dt[n]
      /\ \A i \in 1..Len(u) : w[i] = u[i]
  BY <1>0, <1>2, AppendProperties
<1> HIDE DEF w
<1>5. ASSUME NEW i \in 1..Len(v) PROVE v[i] = w[i]
  <2>1. i \in 1..Len(t) /\ (i \in 1..Len(s) \/ i = Len(s) + 1)
    BY <1>1, <1>3
  <2>2. v[i] = dt[t[i]]
    BY <1>3, <2>1
  <2>3. CASE i \in 1..Len(s)
    BY <1>1, <1>2, <1>4, <2>2, <2>3
  <2>4. CASE i = Len(s) + 1
    BY <1>1, <1>2, <1>4, <2>2, <2>4
  <2> QED
    BY <2>1, <2>3, <2>4
<1>6. v = w
  BY <1>1, <1>2, <1>3, <1>4, <1>5, SeqEqual
<1> QED
  BY <1>6 DEF t, u, v, w

LEMMA ItemsTail ==
    ASSUME NEW S, NEW s \in Seq(S), s # <<>>, NEW dt
    PROVE  /\ ItemsIn(Tail(s), dt) = Tail(ItemsIn(s, dt))
           /\ Head(ItemsIn(s, dt)) = dt[s[1]]
<1> DEFINE t == Tail(s)
           u == ItemsIn(s, dt)
           v == ItemsIn(t, dt)
           w == Tail(u)
<1>1. /\ Len(s) \in Nat /\ Len(s) # 0 /\ t \in Seq(S) /\ Len(t) = Len(s) - 1
      /\ \A i \in 1..Len(t) : t[i] = s[i + 1]
  BY LenProperties, HeadTailProperties, EmptySeq
<1> HIDE DEF t
<1>2. /\ u \in Seq(Got(S, dt)) /\ Len(u) = Len(s) /\ u # <<>>
      /\ \A i \in 1..Len(s) : u[i] = dt[s[i]]
  BY ItemsAre
<1>3. v \in Seq(Got(S, dt)) /\ Len(v) = Len(t) /\ \A i \in 1..Len(t) : v[i] = dt[t[i]]
  BY <1>1, ItemsAre
<1> HIDE DEF u, v
<1>4. /\ w \in Seq(Got(S, dt)) /\ Len(w) = Len(u) - 1
      /\ \A i \in 1..Len(w) : w[i] = u[i + 1]
  BY <1>2, HeadTailProperties
<1> HIDE DEF w
<1>5. ASSUME NEW i \in 1..Len(v) PROVE v[i] = w[i]
  <2>1. i \in 1..Len(t) /\ i \in 1..Len(w) /\ i + 1 \in 1..Len(s)
    BY <1>1, <1>2, <1>3, <1>4
  <2> QED
    BY <1>1, <1>2, <1>3, <1>4, <2>1
<1>6. v = w
  BY <1>1, <1>2, <1>3, <1>4, <1>5, SeqEqual
<1>7. Head(u) = u[1] /\ 1 \in 1..Len(s)
  BY <1>1, <1>2
<1> QED
  BY <1>2, <1>6, <1>7 DEF t, u, v, w

LEMMA ItemsConcat ==
    ASSUME NEW S, NEW s \in Seq(S), NEW t \in Seq(S), NEW dt
    PROVE  ItemsIn(s \o t, dt) = ItemsIn(s, dt) \o ItemsIn(t, dt)
<1> DEFINE r == s \o t
           u == ItemsIn(s, dt)
           v == ItemsIn(t, dt)
           w == ItemsIn(r, dt)
           z == u \o v
<1>1. /\ Len(s) \in Nat /\ Len(t) \in Nat /\ r \in Seq(S) /\ Len(r) = Len(s) + Len(t)
      /\ \A i \in 1..Len(s) + Len(t) : r[i] = IF i <= Len(s) THEN s[i] ELSE t[i - Len(s)]
  BY LenProperties, ConcatProperties
<1> HIDE DEF r
<1>2. u \in Seq(Got(S, dt)) /\ Len(u) = Len(s) /\ \A i \in 1..Len(s) : u[i] = dt[s[i]]
  BY ItemsAre
<1>3. v \in Seq(Got(S, dt)) /\ Len(v) = Len(t) /\ \A i \in 1..Len(t) : v[i] = dt[t[i]]
  BY ItemsAre
<1> HIDE DEF u, v
<1>4. w \in Seq(Got(S, dt)) /\ Len(w) = Len(r) /\ \A i \in 1..Len(r) : w[i] = dt[r[i]]
  <2>1. r \in Seq(S)
    BY <1>1
  <2> QED
    BY <2>1, ItemsAre
<1> HIDE DEF w
<1>5. /\ z \in Seq(Got(S, dt)) /\ Len(z) = Len(u) + Len(v)
      /\ \A i \in 1..Len(u) + Len(v) : z[i] = IF i <= Len(u) THEN u[i] ELSE v[i - Len(u)]
  <2> DEFINE T == Got(S, dt)
  <2>1. u \in Seq(T) /\ v \in Seq(T)
    BY <1>2, <1>3
  <2> HIDE DEF T
  <2>2. /\ z \in Seq(T) /\ Len(z) = Len(u) + Len(v)
        /\ \A i \in 1..Len(u) + Len(v) : z[i] = IF i <= Len(u) THEN u[i] ELSE v[i - Len(u)]
    BY <2>1, ConcatProperties
  <2> QED
    BY <2>2 DEF T
<1> HIDE DEF z
<1>6. ASSUME NEW i \in 1..Len(w) PROVE w[i] = z[i]
  <2>0. i \in 1..Len(s) + Len(t) /\ i \in 1..Len(u) + Len(v) /\ i \in 1..Len(r)
    BY <1>1, <1>2, <1>3, <1>4
  <2>1. CASE i <= Len(s)
    <3>1. i \in 1..Len(s) /\ i <= Len(u)
      BY <1>1, <1>2, <2>0, <2>1
    <3>2. r[i] = s[i] /\ z[i] = u[i]
      BY <1>1, <1>5, <2>0, <2>1, <3>1
    <3> QED
      BY <1>2, <1>4, <2>0, <3>1, <3>2
  <2>2. CASE ~(i <= Len(s))
    <3>1. i - Len(s) \in 1..Len(t) /\ ~(i <= Len(u)) /\ i - Len(u) = i - Len(s)
      BY <1>1, <1>2, <2>0, <2>2
    <3>2. r[i] = t[i - Len(s)] /\ z[i] = v[i - Len(s)]
      BY <1>1, <1>5, <2>0, <2>2, <3>1
    <3> QED
      BY <1>3, <1>4, <2>0, <3>1, <3>2
  <2> QED
    BY <2>1, <2>2
<1>7. w = z
  BY <1>1, <1>2, <1>3, <1>4, <1>5, <1>6, SeqEqual
<1> QED
  BY <1>7 DEF r, u, v, w, z

\* What there is to know of the nodes of all lists.
LEMMA ReadFacts ==
    ASSUME LInv
    PROVE  /\ Read \in [Lists -> Seq(Nodes)] /\ InUse \subseteq Lists
           /\ \A l \in Lists : SetOf(Read[l]) \subseteq live
           /\ \A k, l \in Lists : k # l => SetOf(Read[k]) \cap SetOf(Read[l]) = {}
           /\ \A l \in InUse : NodesOf(l) = Read[l]
           /\ Holds(Read) /\ TypeOK /\ data \in [Nodes -> Data]
<1>1. InUse \subseteq Lists /\ TypeOK /\ next \in [Nodes -> Pointers] /\ data \in [Nodes -> Data]
  BY DEF InUse, LInv, TypeOK, Data
<1>2. PICK nd : Holds(nd)
  BY DEF LInv
<1>3. nd = Read
  BY <1>1, <1>2, HoldsIsRead DEF Holds, Read
<1>4. Holds(Read)
  BY <1>2, <1>3
<1>5. \A l \in InUse : NodesOf(l) = Read[l]
  BY <1>1, <1>4, NodesAre
<1> QED
  BY <1>1, <1>4, <1>5 DEF Holds, HoldsIn

\* The abstract queues, told from the nodes.
QueuesOf(use, rd, dt) == [l \in Lists |-> IF l \in use THEN ItemsIn(rd[l], dt) ELSE NONE]

QueueNow == [l \in Lists |-> IF l \in InUse THEN ItemsOf(l) ELSE NONE]

QueueIs == QueueNow = QueuesOf(InUse, Read, data)

LEMMA QueuesAreRead == LInv => QueueIs
<1> SUFFICES ASSUME LInv PROVE QueueIs
  OBVIOUS
<1>1. \A l \in InUse : ItemsOf(l) = ItemsIn(Read[l], data)
  BY ReadFacts DEF ItemsOf, ItemsIn
<1> QED
  BY <1>1 DEF QueueNow, QueueIs, QueuesOf

LEMMA RefineInit == Init => Abstract!Init
<1> SUFFICES ASSUME Init PROVE Abstract!Init
  OBVIOUS
<1>1. InUse = {}
  BY DEF Init, InUse
<1> QED
  BY <1>1 DEF Init, Abstract!Init

LEMMA RefineCreate ==
    ASSUME LInv, QueueIs, QueueIs', NEW l \in Lists, list_init(l)
    PROVE  Abstract!Create(l)
<1>1. l \notin InUse /\ InUse' = InUse \cup {l} /\ Read' = Read /\ Read[l] = <<>>
  BY CreateKeeps
<1>2. data' = data /\ out' = <<"init", l>>
  BY DEF list_init
<1>3. ItemsIn(Read[l], data) = <<>>
  BY <1>1 DEF ItemsIn
<1>4. QueueNow[l] = NONE /\ QueueNow' = [QueueNow EXCEPT ![l] = <<>>]
  BY <1>1, <1>2, <1>3 DEF QueueIs, QueuesOf
<1> QED
  BY <1>2, <1>4 DEF QueueNow, Abstract!Create, Abstract!Absent

LEMMA RefinePush ==
    ASSUME LInv, QueueIs, QueueIs', NEW l \in Lists, NEW it \in Items, NEW n \in Nodes,
           list_push(l, it, n)
    PROVE  Abstract!Push(l, it)
<1>1. /\ l \in InUse /\ InUse' = InUse
      /\ n \notin live /\ Read' = [Read EXCEPT ![l] = Append(@, n)] /\ LInv'
  BY PushKeeps
<1>2. data' = [data EXCEPT ![n] = it] /\ out' = <<"push", l, it>>
  BY DEF list_push
<1>3. /\ Read \in [Lists -> Seq(Nodes)] /\ InUse \subseteq Lists
      /\ \A k \in Lists : SetOf(Read[k]) \subseteq live
      /\ data \in [Nodes -> Data]
  BY ReadFacts
<1>4. data' \in [Nodes -> Data] /\ data'[n] = it
  BY <1>2, <1>3 DEF Data
<1>5. ASSUME NEW k \in Lists PROVE ItemsIn(Read[k], data') = ItemsIn(Read[k], data)
  <2>1. ASSUME NEW i \in 1..Len(Read[k]) PROVE data'[Read[k][i]] = data[Read[k][i]]
    <3>1. Read[k][i] \in live
      BY <1>3, InSetOf
    <3> QED
      BY <1>1, <1>2, <1>3, <3>1
  <2>2. Read[k] \in Seq(Nodes)
    BY <1>3
  <2> QED
    BY <2>1, <2>2, ItemsSame
<1>6. ItemsIn(Append(Read[l], n), data') = Append(ItemsIn(Read[l], data), it)
  BY <1>3, <1>4, <1>5, ItemsAppend
<1>7. ItemsIn(Read[l], data) # NONE
  BY <1>3, ItemsAreNotNone
<1>8. Read'[l] = Append(Read[l], n) /\ \A k \in Lists \ {l} : Read'[k] = Read[k]
  BY <1>1, <1>3
<1>9. QueueNow[l] # NONE /\ QueueNow' = [QueueNow EXCEPT ![l] = Append(@, it)]
  <2>1. QueueNow[l] = ItemsIn(Read[l], data)
    BY <1>1 DEF QueueIs, QueuesOf
  <2>2. QueueNow' = [k \in Lists |-> IF k \in InUse THEN ItemsIn(Read'[k], data') ELSE NONE]
    BY <1>1 DEF QueueIs, QueuesOf
  <2>3. QueueNow = [k \in Lists |-> IF k \in InUse THEN ItemsIn(Read[k], data) ELSE NONE]
    BY DEF QueueIs, QueuesOf
  <2>4. \A k \in Lists : QueueNow'[k] = IF k = l THEN Append(QueueNow[l], it) ELSE QueueNow[k]
    BY <1>1, <1>5, <1>6, <1>8, <2>1, <2>2, <2>3
  <2> QED
    BY <1>7, <2>1, <2>2, <2>3, <2>4
<1> QED
  BY <1>2, <1>9 DEF QueueNow, Abstract!Push, Abstract!Absent

LEMMA RefinePop ==
    ASSUME LInv, QueueIs, QueueIs', NEW l \in Lists, list_pop_head(l)
    PROVE  Abstract!PopNone(l) \/ Abstract!Pop(l)
<1>1. l \in InUse /\ InUse' = InUse /\ LInv'
  BY PopKeeps
<1>2. /\ Read \in [Lists -> Seq(Nodes)] /\ InUse \subseteq Lists
      /\ \A k, j \in Lists : k # j => SetOf(Read[k]) \cap SetOf(Read[j]) = {}
      /\ data \in [Nodes -> Data] /\ TypeOK
  BY ReadFacts
<1>3. QueueNow[l] = ItemsIn(Read[l], data)
  BY <1>1 DEF QueueIs, QueuesOf
<1>4. QueueNow = [k \in Lists |-> IF k \in InUse THEN ItemsIn(Read[k], data) ELSE NONE]
  BY DEF QueueIs, QueuesOf
<1>5. QueueNow' = [k \in Lists |-> IF k \in InUse THEN ItemsIn(Read'[k], data') ELSE NONE]
  BY <1>1 DEF QueueIs, QueuesOf
<1>6. CASE Read[l] = <<>> /\ Read' = Read /\ list[l].size = 0
  <2>1. data' = data /\ out' = <<"pop", l, NONE>>
    BY <1>6 DEF list_pop_head
  <2>2. QueueNow[l] = <<>>
    BY <1>3, <1>6 DEF ItemsIn
  <2>3. QueueNow' = QueueNow
    BY <1>4, <1>5, <1>6, <2>1
  <2> QED
    BY <2>1, <2>2, <2>3 DEF QueueNow, Abstract!PopNone
<1>7. CASE /\ Read[l] # <<>> /\ Read' = [Read EXCEPT ![l] = Tail(@)]
           /\ list[l].size # 0
           /\ list[l].head = Read[l][1] /\ Free({Read[l][1]})
  <2> DEFINE tmp == Read[l][1]
  <2>1. out' = <<"pop", l, data[tmp]>>
    BY <1>7 DEF list_pop_head
  <2>2. Distinct(Read[l]) /\ Len(Read[l]) \in Nat /\ Len(Read[l]) # 0
    <3>1. Held(Read[l], list[l], next, prev)
      BY <1>1, <1>2, ReadFacts, NodesAre
    <3> QED
      BY <1>1, <1>2, <1>7, <3>1, EmptySeq DEF Held, IsChain
  <2>3. tmp \in SetOf(Read[l])
    BY <2>2, InSetOf
  <2>4. \A m \in Nodes \ {tmp} : data'[m] = data[m]
    BY <1>2, <1>7, FreeLeaves
  <2>5. data' \in [Nodes -> Data]
    BY <1>2, <1>7, FreeLeaves DEF Data
  <2>6. Read'[l] = Tail(Read[l]) /\ \A k \in Lists \ {l} : Read'[k] = Read[k]
    BY <1>2, <1>7
  <2>7. Tail(Read[l]) \in Seq(Nodes) /\ SetOf(Tail(Read[l])) = SetOf(Read[l]) \ {tmp}
    BY <1>2, <1>7, <2>2, HeadTailProperties, SetOfTail
  <2> HIDE DEF tmp
  <2>8. ItemsIn(Tail(Read[l]), data') = ItemsIn(Tail(Read[l]), data)
    <3> DEFINE t == Tail(Read[l])
    <3>1. t \in Seq(Nodes) /\ SetOf(t) = SetOf(Read[l]) \ {tmp}
      BY <2>7
    <3> HIDE DEF t
    <3>2. ASSUME NEW i \in 1..Len(t) PROVE data'[t[i]] = data[t[i]]
      <4>1. t[i] \in SetOf(t) /\ SetOf(t) \subseteq Nodes
        BY <3>1, InSetOf, SetOfIn
      <4> QED
        BY <2>4, <3>1, <4>1
    <3>3. ItemsIn(t, data') = ItemsIn(t, data)
      BY <3>1, <3>2, ItemsSame
    <3> QED
      BY <3>3 DEF t
  <2>9. ASSUME NEW k \in Lists \ {l} PROVE ItemsIn(Read'[k], data') = ItemsIn(Read[k], data)
    <3>1. SetOf(Read[l]) \cap SetOf(Read[k]) = {} /\ Read[k] \in Seq(Nodes)
      BY <1>2
    <3>2. ASSUME NEW i \in 1..Len(Read[k]) PROVE data'[Read[k][i]] = data[Read[k][i]]
      <4>1. Read[k][i] \in SetOf(Read[k]) /\ SetOf(Read[k]) \subseteq Nodes
        BY <3>1, InSetOf, SetOfIn
      <4> QED
        BY <2>3, <2>4, <3>1, <4>1
    <3>3. ItemsIn(Read[k], data') = ItemsIn(Read[k], data)
      BY <3>1, <3>2, ItemsSame
    <3>4. Read'[k] = Read[k]
      BY <2>6
    <3> QED
      BY <3>3, <3>4
  <2>10. /\ ItemsIn(Tail(Read[l]), data) = Tail(ItemsIn(Read[l], data))
         /\ Head(ItemsIn(Read[l], data)) = data[tmp]
    BY <1>2, <1>7, ItemsTail DEF tmp
  <2>11. ItemsIn(Read[l], data) # NONE /\ ItemsIn(Read[l], data) # <<>>
    BY <1>2, <1>7, ItemsAre, ItemsAreNotNone
  <2>12. QueueNow' = [QueueNow EXCEPT ![l] = Tail(@)]
    <3>1. \A k \in Lists : QueueNow'[k] = IF k = l THEN Tail(QueueNow[l]) ELSE QueueNow[k]
      BY <1>1, <1>3, <1>4, <1>5, <2>6, <2>8, <2>9, <2>10
    <3> QED
      BY <1>4, <1>5, <3>1
  <2>13. QueueNow[l] # NONE /\ QueueNow[l] # <<>> /\ out' = <<"pop", l, Head(QueueNow[l])>>
    BY <1>3, <2>1, <2>10, <2>11
  <2> QED
    BY <2>12, <2>13 DEF QueueNow, Abstract!Pop, Abstract!Absent
<1> QED
  BY <1>6, <1>7, PopKeeps

\* A call that leaves the lists as they are.
LEMMA QueuesStay ==
    ASSUME QueueIs, QueueIs', InUse' = InUse, Read' = Read, data' = data
    PROVE  QueueNow' = QueueNow
BY DEF QueueIs

LEMMA QueueInUse ==
    ASSUME LInv, QueueIs, NEW l \in InUse
    PROVE  /\ l \in Lists /\ Read[l] \in Seq(Nodes) /\ data \in [Nodes -> Data]
           /\ QueueNow[l] = ItemsIn(Read[l], data) /\ QueueNow[l] # NONE
           /\ ItemsOf(l) = QueueNow[l]
<1>1. l \in Lists /\ Read[l] \in Seq(Nodes) /\ data \in [Nodes -> Data] /\ NodesOf(l) = Read[l]
  BY ReadFacts
<1>2. QueueNow[l] = ItemsIn(Read[l], data)
  BY <1>1 DEF QueueIs, QueuesOf
<1> QED
  BY <1>1, <1>2, ItemsAreNotNone DEF ItemsOf, ItemsIn

LEMMA RefineRead ==
    ASSUME LInv, QueueIs, QueueIs', NEW l \in Lists, list_iterate(l)
    PROVE  Abstract!Read(l)
<1>1. l \in InUse /\ InUse' = InUse /\ Read' = Read
  BY IterateKeeps
<1>2. data' = data /\ out' = <<"read", l, ItemsOf(l)>>
  BY DEF list_iterate
<1>3. QueueNow' = QueueNow
  BY <1>1, <1>2, QueuesStay
<1>4. QueueNow[l] # NONE /\ ItemsOf(l) = QueueNow[l]
  BY <1>1, QueueInUse
<1>5. QueueNow[l] # NONE /\ out' = <<"read", l, QueueNow[l]>>
  BY <1>2, <1>4
<1> QED
  BY <1>3, <1>5 DEF QueueNow, Abstract!Read, Abstract!Absent

LEMMA RefineTraverse ==
    ASSUME LInv, QueueIs, QueueIs', NEW l \in Lists, NEW forward \in BOOLEAN,
           list_traverse(l, forward)
    PROVE  Abstract!Traverse(l, forward)
<1>1. l \in InUse /\ InUse' = InUse /\ Read' = Read
  BY TraverseKeeps
<1> DEFINE met == IF forward THEN WalkBack(list[l].tail) ELSE NodesOf(l)
           q == QueueNow[l]
<1>2. /\ data' = data /\ (forward => Unpopped(l))
      /\ out' = <<"traverse", l, forward, [i \in 1..Len(met) |-> data[met[i]]]>>
  BY DEF list_traverse
<1>3. QueueNow' = QueueNow
  BY <1>1, <1>2, QueuesStay
<1>4. /\ q # NONE /\ Read[l] \in Seq(Nodes) /\ data \in [Nodes -> Data] /\ l \in Lists
      /\ q = ItemsIn(Read[l], data) /\ ItemsOf(l) = q
  BY <1>1, QueueInUse
<1>5. /\ Len(q) = Len(Read[l]) /\ q \in Seq(Got(Nodes, data)) /\ Len(q) \in Nat /\ DOMAIN q = 1..Len(q)
      /\ \A i \in 1..Len(q) : q[i] = data[Read[l][i]]
  BY <1>4, ItemsAre, LenProperties
<1>6. [i \in 1..Len(met) |-> data[met[i]]]
        = IF forward THEN [i \in DOMAIN q |-> q[Len(q) + 1 - i]] ELSE q
  <2>1. CASE forward
    <3>1. met = Reversed(Read[l])
      BY <1>1, <1>2, <2>1, ReadFacts, BackAre
    <3>2. Len(met) = Len(q) /\ \A i \in 1..Len(q) : met[i] = Read[l][Len(q) + 1 - i]
      BY <1>4, <1>5, <3>1, ReversedIsSeq
    <3>3. \A i \in 1..Len(q) : Len(q) + 1 - i \in 1..Len(q)
      BY <1>5
    <3> HIDE DEF met, q
    <3>4. \A i \in 1..Len(q) : data[met[i]] = q[Len(q) + 1 - i]
      BY <1>5, <3>2, <3>3
    <3> QED
      BY <1>5, <2>1, <3>2, <3>4
  <2>2. CASE ~forward
    <3>1. met = NodesOf(l)
      BY <2>2
    <3> QED
      BY <1>4, <2>2, <3>1 DEF ItemsOf
  <2> QED
    BY <2>1, <2>2
<1> HIDE DEF met
<1>7. out' = <<"traverse", l, forward,
               IF forward THEN [i \in DOMAIN q |-> q[Len(q) + 1 - i]] ELSE q>>
  BY <1>2, <1>6
<1> QED
  BY <1>3, <1>4, <1>7 DEF QueueNow, Abstract!Traverse, Abstract!Absent

LEMMA RefineRelease ==
    ASSUME LInv, ~ReleasesBoth, QueueIs, QueueIs', NEW l \in Lists, list_release(l)
    PROVE  Abstract!Release(l)
<1>1. /\ l \in InUse /\ InUse' = InUse \ {l}
      /\ Free(SetOf(Read[l])) /\ Read' = [Read EXCEPT ![l] = <<>>]
  BY ReleaseKeeps
<1>2. out' = <<"release", l, ItemsOf(l)>>
  BY DEF list_release
<1>3. /\ Read \in [Lists -> Seq(Nodes)] /\ TypeOK
      /\ \A k, j \in Lists : k # j => SetOf(Read[k]) \cap SetOf(Read[j]) = {}
  BY ReadFacts
<1>4. QueueNow[l] # NONE /\ ItemsOf(l) = QueueNow[l]
  BY <1>1, QueueInUse
<1>5. \A m \in Nodes \ SetOf(Read[l]) : data'[m] = data[m]
  BY <1>1, <1>3, FreeLeaves
<1>6. ASSUME NEW k \in Lists \ {l} PROVE ItemsIn(Read'[k], data') = ItemsIn(Read[k], data)
  <2>1. SetOf(Read[l]) \cap SetOf(Read[k]) = {} /\ Read[k] \in Seq(Nodes)
    BY <1>3
  <2>2. ASSUME NEW i \in 1..Len(Read[k]) PROVE data'[Read[k][i]] = data[Read[k][i]]
    <3>1. Read[k][i] \in SetOf(Read[k]) /\ SetOf(Read[k]) \subseteq Nodes
      BY <2>1, InSetOf, SetOfIn
    <3> QED
      BY <1>5, <2>1, <3>1
  <2>3. ItemsIn(Read[k], data') = ItemsIn(Read[k], data)
    BY <2>1, <2>2, ItemsSame
  <2>4. Read'[k] = Read[k]
    BY <1>1, <1>3
  <2> QED
    BY <2>3, <2>4
<1>7. QueueNow' = [QueueNow EXCEPT ![l] = NONE]
  <2>1. QueueNow = [k \in Lists |-> IF k \in InUse THEN ItemsIn(Read[k], data) ELSE NONE]
    BY DEF QueueIs, QueuesOf
  <2>2. QueueNow' = [k \in Lists |-> IF k \in InUse' THEN ItemsIn(Read'[k], data') ELSE NONE]
    BY DEF QueueIs, QueuesOf
  <2>3. \A k \in Lists : QueueNow'[k] = IF k = l THEN NONE ELSE QueueNow[k]
    BY <1>1, <1>6, <2>1, <2>2
  <2> QED
    BY <2>1, <2>2, <2>3
<1>8. QueueNow[l] # NONE /\ out' = <<"release", l, QueueNow[l]>>
  BY <1>2, <1>4
<1> QED
  BY <1>7, <1>8 DEF QueueNow, Abstract!Release, Abstract!Absent

LEMMA EmptyConcat ==
    ASSUME NEW S, NEW s \in Seq(S), NEW t \in Seq(S)
    PROVE  s \o t = <<>> <=> s = <<>> /\ t = <<>>
<1>1. /\ Len(s) \in Nat /\ Len(t) \in Nat /\ s \o t \in Seq(S)
      /\ Len(s \o t) = Len(s) + Len(t)
  BY LenProperties, ConcatProperties
<1>2. /\ s \o t = <<>> <=> Len(s \o t) = 0
      /\ s = <<>> <=> Len(s) = 0
      /\ t = <<>> <=> Len(t) = 0
  BY <1>1, EmptySeq
<1> QED
  BY <1>1, <1>2

LEMMA RefineMerge ==
    ASSUME LInv, QueueIs, QueueIs', NEW a \in Lists, NEW b \in Lists, a # b, list_merge(a, b)
    PROVE  Abstract!Merge(a, b)
<1>1. /\ a \in InUse /\ b \in InUse
      /\ \/ /\ Read[a] = <<>> /\ Read[b] = <<>>
            /\ InUse' = InUse /\ Read' = Read
         \/ /\ Read[a] # <<>> /\ Read[b] # <<>>
            /\ InUse' = InUse \ {b}
            /\ Read' = [Read EXCEPT ![a] = @ \o Read[b], ![b] = <<>>]
  BY MergeKeeps
<1>2. data' = data /\ out' = <<"merge", a, b>>
  BY DEF list_merge
<1>3. /\ Read[a] \in Seq(Nodes) /\ Read[b] \in Seq(Nodes) /\ data \in [Nodes -> Data]
      /\ QueueNow[a] = ItemsIn(Read[a], data) /\ QueueNow[b] = ItemsIn(Read[b], data)
      /\ QueueNow[a] # NONE /\ QueueNow[b] # NONE
  BY <1>1, QueueInUse
<1>4. Read \in [Lists -> Seq(Nodes)]
  BY ReadFacts
<1>5. /\ QueueNow[a] \in Seq(Got(Nodes, data)) /\ QueueNow[b] \in Seq(Got(Nodes, data))
      /\ QueueNow[a] = <<>> <=> Read[a] = <<>>
      /\ QueueNow[b] = <<>> <=> Read[b] = <<>>
  BY <1>3, ItemsAre
<1>6. QueueNow[a] \o QueueNow[b] = <<>> <=> QueueNow[a] = <<>> /\ QueueNow[b] = <<>>
  BY <1>5, EmptyConcat
<1>7. CASE Read[a] = <<>> /\ Read[b] = <<>> /\ InUse' = InUse /\ Read' = Read
  <2>1. QueueNow' = QueueNow
    BY <1>2, <1>7, QueuesStay
  <2>2. QueueNow[a] \o QueueNow[b] = <<>>
    BY <1>5, <1>6, <1>7
  <2> QED
    BY <1>2, <1>3, <2>1, <2>2 DEF QueueNow, Abstract!Merge, Abstract!Absent
<1>8. CASE /\ Read[a] # <<>> /\ Read[b] # <<>>
           /\ InUse' = InUse \ {b}
           /\ Read' = [Read EXCEPT ![a] = @ \o Read[b], ![b] = <<>>]
  <2>1. QueueNow[a] \o QueueNow[b] # <<>>
    BY <1>5, <1>6, <1>8
  <2>2. /\ Read'[a] = Read[a] \o Read[b]
        /\ \A k \in Lists \ {a, b} : Read'[k] = Read[k]
    BY <1>4, <1>8
  <2>3. ItemsIn(Read'[a], data') = QueueNow[a] \o QueueNow[b]
    <3> DEFINE s == Read[a]
               t == Read[b]
    <3>1. s \in Seq(Nodes) /\ t \in Seq(Nodes)
      BY <1>3
    <3> HIDE DEF s, t
    <3>2. ItemsIn(s \o t, data) = ItemsIn(s, data) \o ItemsIn(t, data)
      BY <3>1, ItemsConcat
    <3> QED
      BY <1>2, <1>3, <2>2, <3>2 DEF s, t
  <2>4. QueueNow = [k \in Lists |-> IF k \in InUse THEN ItemsIn(Read[k], data) ELSE NONE]
    BY DEF QueueIs, QueuesOf
  <2>5. QueueNow' = [k \in Lists |-> IF k \in InUse' THEN ItemsIn(Read'[k], data') ELSE NONE]
    BY DEF QueueIs, QueuesOf
  <2>6. \A k \in Lists : QueueNow'[k] = IF k = b THEN NONE
                                        ELSE IF k = a THEN QueueNow[a] \o QueueNow[b]
                                        ELSE QueueNow[k]
    <3>1. b \notin InUse' /\ a \in InUse' /\ \A k \in Lists \ {a, b} : k \in InUse' <=> k \in InUse
      BY <1>1, <1>8
    <3>2. \A k \in Lists \ {a, b} : ItemsIn(Read'[k], data') = ItemsIn(Read[k], data)
      BY <1>2, <2>2
    <3>3. QueueNow'[b] = NONE
      BY <2>5, <3>1
    <3>4. QueueNow'[a] = QueueNow[a] \o QueueNow[b]
      BY <2>3, <2>5, <3>1
    <3>5. ASSUME NEW k \in Lists \ {a, b} PROVE QueueNow'[k] = QueueNow[k]
      BY <2>4, <2>5, <3>1, <3>2
    <3> QED
      BY <3>3, <3>4, <3>5
  <2>7. QueueNow' = [QueueNow EXCEPT ![a] = @ \o QueueNow[b], ![b] = NONE]
    BY <2>4, <2>5, <2>6
  <2> QED
    BY <1>2, <1>3, <2>1, <2>7 DEF QueueNow, Abstract!Merge, Abstract!Absent
<1> QED
  BY <1>1, <1>7, <1>8

LEMMA RefineNext ==
    ASSUME LInv, QueueIs, QueueIs', ~ReleasesBoth, [Next]_vars
    PROVE  [Abstract!Next]_(Abstract!vars)
<1>1. CASE Next
  <2>1. ASSUME NEW l \in Lists, \/ list_init(l) \/ list_pop_head(l)
                                \/ list_iterate(l) \/ list_release(l)
        PROVE  \E k \in Lists : \/ Abstract!Create(k) \/ Abstract!PopNone(k) \/ Abstract!Pop(k)
                                \/ Abstract!Read(k) \/ Abstract!Release(k)
    BY <2>1, RefineCreate, RefinePop, RefineRead, RefineRelease
  <2>2. ASSUME NEW l \in Lists, NEW forward \in BOOLEAN, list_traverse(l, forward)
        PROVE  Abstract!Traverse(l, forward)
    BY <2>2, RefineTraverse
  <2>3. ASSUME NEW l \in Lists, NEW it \in Items, NEW n \in Nodes, list_push(l, it, n)
        PROVE  Abstract!Push(l, it)
    BY <2>3, RefinePush
  <2>4. ASSUME NEW a \in Lists, NEW b \in Lists, a # b, list_merge(a, b)
        PROVE  Abstract!Merge(a, b)
    BY <2>4, RefineMerge
  <2>5. Abstract!Next
    BY <1>1, <2>1, <2>2, <2>3, <2>4 DEF Next, Abstract!Next
  <2> QED
    BY <2>5
<1>2. CASE UNCHANGED vars
  <2>1. UNCHANGED <<list, spent, next, data, out>>
    BY <1>2 DEF vars
  <2>2. InUse' = InUse /\ \A l \in Lists : ItemsOf(l)' = ItemsOf(l)
    BY <2>1 DEF InUse, ItemsOf, NodesOf, Walk
  <2>3. QueueNow' = QueueNow
    BY <2>2 DEF QueueNow
  <2> QED
    BY <2>1, <2>3 DEF QueueNow, Abstract!vars
<1> QED
  BY <1>1, <1>2

(* Through any sequence of calls the lists hand out what the queues of the  *)
(* abstract specification do, for any lists, nodes and items, as long as no *)
(* list that was merged away is released.                                   *)
THEOREM ListsImplementQueues ==
    ASSUME ~ReleasesBoth
    PROVE  Spec => ImplementsQueues
<1>1. Init => LInv
  BY LInvInit
<1>2. LInv /\ [Next]_vars => LInv'
  BY LInvNext
<1>3. LInv => QueueIs
  BY QueuesAreRead
<1>4. Init => Abstract!Init
  BY RefineInit
<1>5. LInv /\ QueueIs /\ QueueIs' /\ [Next]_vars => [Abstract!Next]_(Abstract!vars)
  BY RefineNext
<1> QED
  BY <1>1, <1>2, <1>3, <1>4, <1>5, PTL DEF Spec, ImplementsQueues, Abstract!Spec

-----------------------------------------------------------------------------
(* The vector.                                                              *)

Vecs == [ptr : Seq(Elems), room : Nat, size : Nat]

VecInv ==
    /\ VecTypeOK
    /\ vec \in Vecs \cup {NOVEC}
    /\ borrowed \in Nat \cup {NOVEC}
    /\ vec # NOVEC => vec.room >= FirstRoom

LEMMA VecIsNot ==
    ASSUME NEW v \in Vecs
    PROVE  v # NOVEC
BY NovecAssumption DEF Vecs

LEMMA VecInvInit == VecInit => VecInv
BY DEF VecInit, VecInv, VecTypeOK

LEMMA VecInvAdd ==
    ASSUME VecInv, NEW el \in Elems, vector_add(el)
    PROVE  VecInv'
<1>1. /\ vec \in Vecs /\ vec.size = Len(vec.ptr) /\ vec.room >= vec.size /\ vec.size < MaxElems
      /\ vec.room >= FirstRoom
  BY DEF VecInv, VecTypeOK, vector_add
<1> DEFINE full == Len(vec.ptr) = vec.room
           p == Append(vec.ptr, el)
           r == IF full THEN vec.room + 1 ELSE vec.room
           s == vec.size + 1
<1>2. /\ vec.ptr \in Seq(Elems) /\ vec.room \in Nat /\ vec.size \in Nat
      /\ MaxElems \in Nat /\ FirstRoom \in Nat
  BY <1>1, RoomAssumption DEF Vecs
<1>3. /\ vec' = [ptr |-> p, room |-> r, size |-> s]
      /\ moved' \in IF full /\ borrowed # NOVEC THEN {TRUE, moved} ELSE {moved}
      /\ borrowed' = borrowed
  BY DEF vector_add
<1>4. p \in Seq(Elems) /\ Len(p) = s /\ r \in Nat /\ s \in Nat /\ r >= s /\ s <= MaxElems
      /\ r >= FirstRoom
  <2>1. p \in Seq(Elems) /\ Len(p) = Len(vec.ptr) + 1
    BY <1>2, AppendProperties
  <2> QED
    BY <1>1, <1>2, <2>1
<1> HIDE DEF full, p, r, s
<1>5. /\ vec' \in Vecs /\ vec' # NOVEC
      /\ vec'.ptr = p /\ vec'.room = r /\ vec'.size = s
  BY <1>3, <1>4, VecIsNot DEF Vecs
<1>6. borrowed = NOVEC \/ borrowed < s
  BY <1>1, <1>2 DEF VecInv, VecTypeOK, s
<1>7. moved' \in BOOLEAN /\ (moved' => borrowed # NOVEC)
  <2>1. moved \in BOOLEAN /\ (moved => borrowed # NOVEC)
    BY DEF VecInv, VecTypeOK
  <2>2. CASE moved' = TRUE /\ borrowed # NOVEC
    BY <2>2
  <2>3. CASE moved' = moved
    BY <2>1, <2>3, Zenon
  <2>4. (moved' = TRUE /\ borrowed # NOVEC) \/ moved' = moved
    BY <1>3
  <2> QED
    BY <2>2, <2>3, <2>4
<1> QED
  BY <1>3, <1>4, <1>5, <1>6, <1>7 DEF VecInv, VecTypeOK

LEMMA VecInvSet ==
    ASSUME VecInv, NEW i \in Nat, NEW el \in Elems, vector_set(i, el)
    PROVE  VecInv'
<1>1. /\ vec \in Vecs /\ vec.size = Len(vec.ptr) /\ vec.room >= vec.size /\ vec.size <= MaxElems
      /\ vec.room >= FirstRoom
  BY DEF VecInv, VecTypeOK, vector_set
<1>2. CASE i >= vec.size
  BY <1>2 DEF VecInv, VecTypeOK, vector_set
<1>3. CASE ~(i >= vec.size)
  <2> DEFINE p == [vec.ptr EXCEPT ![i + 1] = el]
  <2>1. vec.ptr \in Seq(Elems) /\ vec.room \in Nat /\ vec.size \in Nat /\ Len(vec.ptr) \in Nat
    BY <1>1 DEF Vecs
  <2>0. i + 1 \in 1..Len(vec.ptr)
    BY <1>1, <1>3, <2>1
  <2>2. p \in Seq(Elems) /\ Len(p) = Len(vec.ptr)
    BY <2>0, <2>1, ExceptSeq
  <2>3. vec' = [vec EXCEPT !.ptr = p] /\ UNCHANGED <<borrowed, moved>>
    BY <1>3 DEF vector_set
  <2> HIDE DEF p
  <2>4. /\ vec' \in Vecs /\ vec'.ptr = p /\ vec'.room = vec.room /\ vec'.size = vec.size
        /\ vec' # NOVEC
    BY <1>1, <2>1, <2>2, <2>3, VecIsNot DEF Vecs
  <2> QED
    BY <1>1, <2>2, <2>3, <2>4 DEF VecInv, VecTypeOK
<1> QED
  BY <1>2, <1>3

LEMMA VecInvNext ==
    ASSUME VecInv, [VecNext]_vecVars
    PROVE  VecInv'
<1>1. CASE vector_init
  <2> DEFINE v == [ptr |-> <<>>, room |-> FirstRoom, size |-> 0]
  <2>1. vec' = v /\ UNCHANGED <<borrowed, moved>> /\ vec = NOVEC
    BY <1>1 DEF vector_init
  <2>2. v \in Vecs /\ v.size = Len(v.ptr) /\ v.room >= v.size /\ v.ptr \in Seq(Elems)
    BY RoomAssumption, EmptySeq DEF Vecs
  <2>3. v.size <= MaxElems /\ v.room >= FirstRoom
    BY RoomAssumption
  <2> HIDE DEF v
  <2> QED
    BY <2>1, <2>2, <2>3 DEF VecInv, VecTypeOK
<1>2. CASE Use
  BY <1>2 DEF Use, VecInv, VecTypeOK
<1>3. CASE vector_foreach
  BY <1>3 DEF vector_foreach, VecInv, VecTypeOK
<1>4. CASE vector_release
  BY <1>4 DEF vector_release, VecInv, VecTypeOK
<1>5. ASSUME NEW el \in Elems, vector_add(el) PROVE VecInv'
  BY <1>5, VecInvAdd
<1>6. ASSUME vec # NOVEC, NEW i \in 0..vec.size, vector_get(i) PROVE VecInv'
  <2>1. i \in Nat /\ vec.size \in Nat
    BY <1>6 DEF VecInv, Vecs
  <2>2. vec' = vec /\ VecInv
    BY <1>6 DEF vector_get
  <2>3. CASE i >= vec.size
    BY <1>6, <2>2, <2>3 DEF vector_get, VecInv, VecTypeOK
  <2>4. CASE ~(i >= vec.size)
    <3>1. borrowed' = i /\ moved' = FALSE /\ i < vec.size
      BY <1>6, <2>1, <2>4 DEF vector_get
    <3> QED
      BY <1>6, <2>1, <2>2, <3>1 DEF VecInv, VecTypeOK
  <2> QED
    BY <2>3, <2>4
<1>7. ASSUME vec # NOVEC, NEW i \in 0..vec.size, NEW el \in Elems, vector_set(i, el)
      PROVE  VecInv'
  <2>1. i \in Nat
    BY <1>7 DEF VecInv, Vecs
  <2> QED
    BY <1>7, <2>1, VecInvSet
<1>8. CASE UNCHANGED vecVars
  BY <1>8 DEF vecVars, VecInv, VecTypeOK
<1> QED
  BY <1>1, <1>2, <1>3, <1>4, <1>5, <1>6, <1>7, <1>8 DEF VecNext

-----------------------------------------------------------------------------
(* The queue and the stack.  ch gives the nodes of each.                    *)

Heads == [head : Cells \cup {VOID}, top : Cells \cup {VOID}, size : Nat]

\* The nodes s are what a line leads to; only the queue has a top.
LineHeld(s, r, lk, q) ==
    /\ IsChain(s, lk, r.head, VOID)
    /\ Len(s) = r.size
    /\ q = "fifo" /\ s # <<>> => r.top = s[Len(s)]

LinesHold(ch, ls, lk, cl) ==
    /\ ch \in [Kinds -> Seq(Cells)]
    /\ \A q \in Kinds : IF ls[q] = VOID THEN ch[q] = <<>> ELSE LineHeld(ch[q], ls[q], lk, q)
    /\ \A q \in Kinds : SetOf(ch[q]) \subseteq cl
    /\ \A q, r \in Kinds : q # r => SetOf(ch[q]) \cap SetOf(ch[r]) = {}

ChainsOf(ls, lk) == [q \in Kinds |-> IF ls[q] = VOID THEN <<>> ELSE Along(lk, ls[q].head, VOID)]

Chains == ChainsOf(line, link)

LineTypes ==
    /\ line \in [Kinds -> {VOID} \cup Heads]
    /\ link \in [Cells -> Cells \cup {VOID}]
    /\ thing \in [Cells -> Things \cup {VOID}]
    /\ cells \subseteq Cells /\ ~wild

\* A node that is free has no link, as zalloc gives it out.
LinesInv ==
    /\ LineTypes
    /\ \A n \in Cells \ cells : link[n] = VOID
    /\ \E ch : LinesHold(ch, line, link, cells)

LEMMA HeadIsNotVoid ==
    ASSUME NEW r \in Heads
    PROVE  r # VOID
BY VoidAssumption DEF Heads

LEMMA ChainsAre ==
    ASSUME NEW ch, NEW ls, NEW lk \in [Cells -> Cells \cup {VOID}], NEW cl,
           LinesHold(ch, ls, lk, cl)
    PROVE  ch = ChainsOf(ls, lk)
<1>1. ASSUME NEW q \in Kinds, ls[q] # VOID PROVE Along(lk, ls[q].head, VOID) = ch[q]
  <2>1. ch[q] \in Seq(Cells) /\ IsChain(ch[q], lk, ls[q].head, VOID)
    BY <1>1 DEF LinesHold, LineHeld
  <2>2. DOMAIN lk = Cells
    OBVIOUS
  <2> QED
    BY <2>1, <2>2, CellsAssumption, VoidAssumption, AlongChain
<1>2. ch = [q \in Kinds |-> ch[q]]
  BY DEF LinesHold
<1>3. \A q \in Kinds : ch[q] = IF ls[q] = VOID THEN <<>> ELSE Along(lk, ls[q].head, VOID)
  BY <1>1 DEF LinesHold
<1> QED
  BY <1>2, <1>3 DEF ChainsOf

LEMMA LineHeldSame ==
    ASSUME NEW s \in Seq(Cells), NEW r, NEW lk, NEW lk2, NEW q, LineHeld(s, r, lk, q),
           \A i \in 1..Len(s) : lk2[s[i]] = lk[s[i]]
    PROVE  LineHeld(s, r, lk2, q)
<1>1. IsChain(s, lk2, r.head, VOID)
  BY ChainSame DEF LineHeld
<1> QED
  BY <1>1 DEF LineHeld

\* A call on the line q: the other one keeps its nodes and their links.
LineChanges(q, s2, ch, ls, lk, cl, ls2, lk2, cl2) ==
    /\ s2 \in Seq(Cells)
    /\ \A r \in Kinds \ {q} : ls2[r] = ls[r]
    /\ \A r \in Kinds \ {q} : \A i \in 1..Len(ch[r]) : lk2[ch[r][i]] = lk[ch[r][i]]
    /\ IF ls2[q] = VOID THEN s2 = <<>> ELSE LineHeld(s2, ls2[q], lk2, q)
    /\ SetOf(s2) \subseteq cl2
    /\ \A r \in Kinds \ {q} : SetOf(ch[r]) \subseteq cl2 /\ SetOf(s2) \cap SetOf(ch[r]) = {}

LEMMA LineChanged ==
    ASSUME NEW ch, NEW ls, NEW lk, NEW cl, LinesHold(ch, ls, lk, cl),
           NEW q \in Kinds, NEW s2, NEW ls2, NEW lk2, NEW cl2,
           LineChanges(q, s2, ch, ls, lk, cl, ls2, lk2, cl2)
    PROVE  LinesHold([ch EXCEPT ![q] = s2], ls2, lk2, cl2)
<1> DEFINE ch2 == [ch EXCEPT ![q] = s2]
<1> USE DEF LineChanges
<1>1. ch2 \in [Kinds -> Seq(Cells)] /\ ch2[q] = s2 /\ \A r \in Kinds \ {q} : ch2[r] = ch[r]
  BY DEF LinesHold
<1> HIDE DEF ch2
<1>2. ASSUME NEW r \in Kinds
      PROVE  IF ls2[r] = VOID THEN ch2[r] = <<>> ELSE LineHeld(ch2[r], ls2[r], lk2, r)
  <2>1. CASE r = q
    BY <1>1, <2>1
  <2>2. CASE r # q
    <3>1. ls2[r] = ls[r] /\ ch2[r] = ch[r]
      BY <1>1, <2>2
    <3>2. CASE ls[r] = VOID
      BY <3>1, <3>2 DEF LinesHold
    <3>3. CASE ls[r] # VOID
      <4>1. ch[r] \in Seq(Cells) /\ LineHeld(ch[r], ls[r], lk, r)
        BY <3>3 DEF LinesHold
      <4>2. \A i \in 1..Len(ch[r]) : lk2[ch[r][i]] = lk[ch[r][i]]
        BY <2>2
      <4>3. LineHeld(ch[r], ls[r], lk2, r)
        BY <4>1, <4>2, LineHeldSame
      <4> QED
        BY <3>1, <3>3, <4>3
    <3> QED
      BY <3>2, <3>3
  <2> QED
    BY <2>1, <2>2
<1>3. \A r \in Kinds : SetOf(ch2[r]) \subseteq cl2
  BY <1>1
<1>4. ASSUME NEW r \in Kinds, NEW t \in Kinds, r # t
      PROVE  SetOf(ch2[r]) \cap SetOf(ch2[t]) = {}
  <2>1. CASE r = q
    BY <1>1, <1>4, <2>1
  <2>2. CASE t = q
    <3>1. SetOf(ch2[t]) \cap SetOf(ch2[r]) = {}
      BY <1>1, <1>4, <2>2
    <3> QED
      BY <3>1
  <2>3. CASE r # q /\ t # q
    <3>1. ch2[r] = ch[r] /\ ch2[t] = ch[t]
      BY <1>1, <2>3
    <3>2. SetOf(ch[r]) \cap SetOf(ch[t]) = {}
      BY <1>4 DEF LinesHold
    <3> QED
      BY <3>1, <3>2
  <2> QED
    BY <2>1, <2>2, <2>3
<1>5. LinesHold(ch2, ls2, lk2, cl2)
  BY <1>1, <1>2, <1>3, <1>4 DEF LinesHold
<1> QED
  BY <1>5 DEF ch2

\* What a call on a line leaves behind.
LineLeaves(q, s2, ch, ls2, lk2, th2, cl2) ==
    /\ ls2 \in [Kinds -> {VOID} \cup Heads]
    /\ lk2 \in [Cells -> Cells \cup {VOID}]
    /\ th2 \in [Cells -> Things \cup {VOID}]
    /\ cl2 \subseteq Cells
    /\ \A n \in Cells \ cl2 : lk2[n] = VOID
    /\ LinesHold([ch EXCEPT ![q] = s2], ls2, lk2, cl2)

LEMMA LineKept ==
    ASSUME NEW ch, NEW q, NEW s2, LineLeaves(q, s2, ch, line', link', thing', cells'), ~wild',
           ch = Chains
    PROVE  LinesInv' /\ Chains' = [Chains EXCEPT ![q] = s2]
<1>1. LinesInv'
  BY DEF LineLeaves, LinesInv, LineTypes
<1>2. LinesHold([ch EXCEPT ![q] = s2], line', link', cells') /\ link' \in [Cells -> Cells \cup {VOID}]
  BY DEF LineLeaves
<1>3. [ch EXCEPT ![q] = s2] = ChainsOf(line', link')
  BY <1>2, ChainsAre
<1> QED
  BY <1>1, <1>3 DEF Chains

LEMMA LinesFacts ==
    ASSUME LinesInv
    PROVE  /\ LinesHold(Chains, line, link, cells) /\ LineTypes
           /\ Chains \in [Kinds -> Seq(Cells)]
           /\ \A q \in Kinds : SetOf(Chains[q]) \subseteq cells
           /\ \A q, r \in Kinds : q # r => SetOf(Chains[q]) \cap SetOf(Chains[r]) = {}
           /\ \A q \in Kinds : line[q] # VOID => /\ line[q] \in Heads
                                                 /\ CellsOf(q) = Chains[q]
                                                 /\ LineHeld(Chains[q], line[q], link, q)
<1>1. PICK ch : LinesHold(ch, line, link, cells)
  BY DEF LinesInv
<1>2. LineTypes /\ link \in [Cells -> Cells \cup {VOID}]
  BY DEF LinesInv, LineTypes
<1>3. ch = Chains
  BY <1>1, <1>2, ChainsAre DEF Chains
<1>4. LinesHold(Chains, line, link, cells)
  BY <1>1, <1>3
<1>5. \A q \in Kinds : line[q] # VOID => CellsOf(q) = Chains[q]
  BY DEF Chains, ChainsOf, CellsOf
<1> QED
  BY <1>2, <1>4, <1>5 DEF LinesHold, LineTypes

LEMMA LinesInvTyped == LinesInv => LinesTypeOK
<1> SUFFICES ASSUME LinesInv PROVE LinesTypeOK
  OBVIOUS
<1>1. LineTypes
  BY DEF LinesInv
<1>2. ASSUME NEW q \in Kinds, line[q] # VOID
      PROVE  line[q].size = Len(CellsOf(q)) /\ ToSet(CellsOf(q)) \subseteq cells
  <2>1. /\ CellsOf(q) = Chains[q] /\ Chains[q] \in Seq(Cells)
        /\ LineHeld(Chains[q], line[q], link, q) /\ SetOf(Chains[q]) \subseteq cells
    BY <1>2, LinesFacts
  <2>2. ToSet(Chains[q]) = SetOf(Chains[q])
    BY <2>1, LenProperties DEF ToSet, SetOf
  <2> QED
    BY <2>1, <2>2 DEF LineHeld
<1> QED
  BY <1>1, <1>2 DEF LinesTypeOK, LineTypes, Heads

LEMMA LinesInvInit == LinesInit => LinesInv
<1> SUFFICES ASSUME LinesInit PROVE LinesInv
  OBVIOUS
<1> DEFINE ch == [q \in Kinds |-> <<>>]
<1>1. ch \in [Kinds -> Seq(Cells)] /\ \A q \in Kinds : ch[q] = <<>>
  BY EmptySeq
<1> HIDE DEF ch
<1>2. LinesHold(ch, line, link, cells)
  BY <1>1, SetOfEmpty DEF LinesHold, LinesInit
<1> QED
  BY <1>2 DEF LinesInit, LinesInv, LineTypes

LEMMA LineInitKeeps ==
    ASSUME LinesInv, NEW q \in Kinds, line_init(q)
    PROVE  LinesInv' /\ Chains' = [Chains EXCEPT ![q] = <<>>] /\ line'[q] # VOID
<1> DEFINE r == [head |-> VOID, top |-> VOID, size |-> 0]
<1>1. r \in Heads /\ r.head = VOID /\ r.size = 0
  BY DEF Heads
<1>2. /\ line' = [line EXCEPT ![q] = r] /\ line[q] = VOID
      /\ UNCHANGED <<link, thing, cells, wild>>
  BY DEF line_init
<1> HIDE DEF r
<1>3. /\ LinesHold(Chains, line, link, cells) /\ LineTypes
      /\ \A k \in Kinds : SetOf(Chains[k]) \subseteq cells
  BY LinesFacts
<1>4. /\ line' \in [Kinds -> {VOID} \cup Heads] /\ line'[q] = r /\ r # VOID
      /\ \A k \in Kinds \ {q} : line'[k] = line[k]
  BY <1>1, <1>2, <1>3, HeadIsNotVoid DEF LineTypes
<1>5. LineHeld(<<>>, r, link', q)
  BY <1>1, ChainEmpty, EmptySeq DEF LineHeld
<1>6. LineChanges(q, <<>>, Chains, line, link, cells, line', link', cells')
  BY <1>2, <1>3, <1>4, <1>5, SetOfEmpty, EmptySeq DEF LineChanges
<1>7. LineLeaves(q, <<>>, Chains, line', link', thing', cells')
  BY <1>2, <1>3, <1>4, <1>6, LineChanged DEF LineLeaves, LineTypes, LinesInv
<1>8. ~wild'
  BY <1>2, <1>3 DEF LineTypes
<1> QED
  BY <1>4, <1>7, <1>8, LineKept

\* A node in front.
LEMMA ChainPush ==
    ASSUME NEW S, NEW s \in Seq(S), NEW to, NEW to2, NEW head, NEW null,
           IsChain(s, to, head, null), NEW n \in S, n \notin SetOf(s),
           to2[n] = head, \A i \in 1..Len(s) : to2[s[i]] = to[s[i]]
    PROVE  IsChain(<<n>> \o s, to2, n, null)
<1> DEFINE r == <<n>>
           t == r \o s
<1>1. Len(s) \in Nat /\ r \in Seq(S) /\ Len(r) = 1 /\ r[1] = n
  BY LenProperties
<1> HIDE DEF r
<1>2. /\ t \in Seq(S) /\ Len(t) = Len(s) + 1
      /\ \A i \in 1..1 + Len(s) : t[i] = IF i <= 1 THEN r[i] ELSE s[i - 1]
  <2>1. r \in Seq(S)
    BY <1>1
  <2>2. /\ t \in Seq(S) /\ Len(t) = Len(r) + Len(s)
        /\ \A i \in 1..Len(r) + Len(s) : t[i] = IF i <= Len(r) THEN r[i] ELSE s[i - Len(r)]
    BY <2>1, ConcatProperties
  <2> QED
    BY <1>1, <2>2
<1> HIDE DEF t
<1>3. /\ t[1] = n /\ t # <<>>
      /\ \A i \in 1..Len(s) : t[i + 1] = s[i]
  <2>1. t[1] = n /\ t # <<>>
    BY <1>1, <1>2, EmptySeq
  <2>2. ASSUME NEW i \in 1..Len(s) PROVE t[i + 1] = s[i]
    <3>1. i + 1 \in 1..1 + Len(s) /\ ~(i + 1 <= 1) /\ (i + 1) - 1 = i
      BY <1>1
    <3> QED
      BY <1>2, <3>1
  <2> QED
    BY <2>1, <2>2
<1>4. \A i \in 1..Len(s) : s[i] # n
  BY DEF SetOf
<1>5. \A i \in 1..Len(t) : i = 1 \/ (i - 1 \in 1..Len(s) /\ (i - 1) + 1 = i /\ t[i] = s[i - 1])
  <2>1. ASSUME NEW i \in 1..Len(t), i # 1
        PROVE  i - 1 \in 1..Len(s) /\ (i - 1) + 1 = i /\ t[i] = s[i - 1]
    <3>1. i - 1 \in 1..Len(s) /\ (i - 1) + 1 = i
      BY <1>1, <1>2, <2>1
    <3>2. t[(i - 1) + 1] = s[i - 1]
      BY <1>3, <3>1
    <3> QED
      BY <3>1, <3>2
  <2> QED
    BY <2>1
<1>6. Distinct(t)
  <2>1. ASSUME NEW i \in 1..Len(t), NEW j \in 1..Len(t), t[i] = t[j] PROVE i = j
    <3>1. CASE i = 1 \/ j = 1
      BY <1>3, <1>4, <1>5, <2>1, <3>1
    <3>2. CASE i # 1 /\ j # 1
      <4>1. i - 1 \in 1..Len(s) /\ j - 1 \in 1..Len(s) /\ s[i - 1] = s[j - 1]
        BY <1>5, <2>1, <3>2
      <4>2. i - 1 = j - 1
        BY <4>1 DEF IsChain, Distinct
      <4> QED
        BY <1>5, <3>2, <4>2
    <3> QED
      BY <3>1, <3>2
  <2> QED
    BY <2>1 DEF Distinct
<1>7. ASSUME NEW i \in 1..Len(t)
      PROVE  to2[t[i]] = IF i = Len(t) THEN null ELSE t[i + 1]
  <2>1. CASE i = 1
    <3>1. to2[t[i]] = head
      BY <1>3, <2>1
    <3>2. CASE s = <<>>
      <4>1. Len(t) = 1 /\ head = null
        BY <1>1, <1>2, <3>2 DEF IsChain
      <4> QED
        BY <2>1, <3>1, <4>1
    <3>3. CASE s # <<>>
      <4>1. Len(s) # 0
        BY <3>3, EmptySeq
      <4>2. Len(t) # 1 /\ 1 \in 1..Len(s) /\ head = s[1] /\ t[1 + 1] = s[1]
        BY <1>1, <1>2, <1>3, <3>3, <4>1 DEF IsChain
      <4> QED
        BY <2>1, <3>1, <4>2
    <3> QED
      BY <3>2, <3>3
  <2>2. CASE i # 1
    <3>1. i - 1 \in 1..Len(s) /\ (i - 1) + 1 = i /\ t[i] = s[i - 1]
      BY <1>5, <2>2
    <3>2. to2[t[i]] = IF i - 1 = Len(s) THEN null ELSE s[(i - 1) + 1]
      BY <3>1 DEF IsChain
    <3>3. i - 1 = Len(s) <=> i = Len(t)
      BY <1>1, <1>2
    <3>4. i # Len(t) => t[i + 1] = s[i]
      <4>1. ASSUME i # Len(t) PROVE i \in 1..Len(s)
        BY <1>1, <1>2, <4>1
      <4> QED
        BY <1>3, <4>1
    <3> QED
      BY <3>1, <3>2, <3>3, <3>4
  <2> QED
    BY <2>1, <2>2
<1>8. IsChain(t, to2, n, null)
  BY <1>3, <1>6, <1>7 DEF IsChain
<1> QED
  BY <1>8 DEF t, r

\* A line is empty when it has no head.
LEMMA EmptyLine ==
    ASSUME NEW s \in Seq(Cells), NEW r, NEW lk, NEW q, LineHeld(s, r, lk, q)
    PROVE  /\ s = <<>> <=> r.head = VOID
           /\ s # <<>> => s[1] = r.head /\ r.head \in SetOf(s) /\ s[Len(s)] \in SetOf(s)
<1>1. CASE s = <<>>
  BY <1>1 DEF LineHeld, IsChain
<1>2. CASE s # <<>>
  <2>1. Len(s) \in Nat /\ Len(s) # 0
    BY <1>2, LenProperties, EmptySeq
  <2>2. 1 \in 1..Len(s) /\ Len(s) \in 1..Len(s)
    BY <2>1
  <2>3. s[1] \in Cells /\ r.head = s[1]
    BY <1>2, <2>2 DEF LineHeld, IsChain
  <2> QED
    BY <1>2, <2>2, <2>3, InSetOf, VoidAssumption
<1> QED
  BY <1>1, <1>2

LEMMA FifoPushKeeps ==
    ASSUME LinesInv, NEW c \in Things \cup {VOID}, NEW n \in Cells, fifo_push(c, n)
    PROVE  /\ LinesInv' /\ line["fifo"] # VOID /\ n \notin cells
           /\ Chains' = [Chains EXCEPT !["fifo"] = Append(@, n)]
<1> DEFINE q == "fifo"
           s == Chains[q]
           r == line[q]
<1>1. /\ LinesHold(Chains, line, link, cells) /\ LineTypes
      /\ q \in Kinds /\ s \in Seq(Cells) /\ r \in Heads /\ LineHeld(s, r, link, q)
      /\ r # VOID /\ n \notin cells
      /\ \A k \in Kinds : SetOf(Chains[k]) \subseteq cells
      /\ \A k \in Kinds \ {q} : SetOf(s) \cap SetOf(Chains[k]) = {}
  BY LinesFacts DEF fifo_push, Kinds
<1>2. /\ thing' = [thing EXCEPT ![n] = c] /\ cells' = cells \cup {n}
      /\ IF r.head = VOID
         THEN /\ line' = [line EXCEPT ![q] = [head |-> n, top |-> n, size |-> @.size + 1]]
              /\ UNCHANGED <<link, wild>>
         ELSE /\ line' = [line EXCEPT ![q].top = n, ![q].size = @ + 1]
              /\ link' = [link EXCEPT ![r.top] = n]
              /\ wild' = (r.top \notin cells)
  BY DEF fifo_push
<1>3. thing' \in [Cells -> Things \cup {VOID}] /\ cells' \subseteq Cells /\ ~wild
  BY <1>1, <1>2 DEF LineTypes
<1>4. /\ r.head \in Cells \cup {VOID} /\ r.top \in Cells \cup {VOID} /\ r.size \in Nat
      /\ r = [head |-> r.head, top |-> r.top, size |-> r.size]
      /\ line \in [Kinds -> {VOID} \cup Heads]
      /\ link \in [Cells -> Cells \cup {VOID}] /\ \A m \in Cells \ cells : link[m] = VOID
  BY <1>1 DEF LineTypes, Heads, LinesInv
<1>5. /\ s = <<>> <=> r.head = VOID
      /\ s # <<>> => s[Len(s)] \in SetOf(s)
      /\ s # <<>> => r.top = s[Len(s)]
      /\ IsChain(s, link, r.head, VOID) /\ Len(s) = r.size
  BY <1>1, EmptyLine DEF LineHeld
<1>6. n \notin SetOf(s) /\ \A k \in Kinds : n \notin SetOf(Chains[k])
  BY <1>1
<1> DEFINE t == Append(s, n)
<1>7. /\ t \in Seq(Cells) /\ Len(t) = r.size + 1 /\ t[Len(t)] = n
      /\ SetOf(t) = SetOf(s) \cup {n}
  <2>1. t \in Seq(Cells) /\ Len(t) = Len(s) + 1 /\ t[Len(s) + 1] = n
    BY <1>1, AppendProperties
  <2> QED
    BY <1>1, <1>5, <2>1, SetOfAppend
<1> DEFINE r2 == [head |-> IF r.head = VOID THEN n ELSE r.head, top |-> n, size |-> r.size + 1]
<1> HIDE DEF q, s, r, t
<1>8. /\ r2 \in Heads /\ r2.top = n /\ r2.size = r.size + 1
      /\ r2.head = IF s = <<>> THEN n ELSE r.head
  BY <1>4, <1>5 DEF Heads
<1> HIDE DEF r2
<1>9. /\ line'[q] = r2 /\ \A k \in Kinds \ {q} : line'[k] = line[k]
      /\ line' \in [Kinds -> {VOID} \cup Heads] /\ r2 # VOID
  <2>1. CASE r.head = VOID
    <3>1. line' = [line EXCEPT ![q] = r2]
      BY <1>2, <2>1 DEF r2, r
    <3> QED
      BY <1>1, <1>4, <1>8, <3>1, HeadIsNotVoid
  <2>2. CASE r.head # VOID
    <3>1. [[r EXCEPT !.top = n] EXCEPT !.size = @ + 1] = r2
      <4> DEFINE z == [head |-> r.head, top |-> n, size |-> r.size]
      <4>1. [r EXCEPT !.top = n] = z
        BY <1>4
      <4>2. [z EXCEPT !.size = @ + 1] = r2
        BY <2>2 DEF r2
      <4> QED
        BY <4>1, <4>2
    <3>2. line' = [[line EXCEPT ![q].top = n] EXCEPT ![q].size = @ + 1]
      BY <1>2, <2>2
    <3> DEFINE z == [r EXCEPT !.top = n]
               u == [line EXCEPT ![q] = z]
    <3>3. u[q] = z /\ u = [line EXCEPT ![q].top = n]
      BY <1>1, <1>4 DEF r
    <3>4. line' = [u EXCEPT ![q] = [u[q] EXCEPT !.size = @ + 1]]
      BY <3>2, <3>3
    <3>5. [u[q] EXCEPT !.size = @ + 1] = r2
      BY <3>1, <3>3
    <3>6. line' = [u EXCEPT ![q] = r2]
      BY <3>4, <3>5
    <3> HIDE DEF z
    <3>7. line' = [line EXCEPT ![q] = r2]
      BY <1>1, <1>4, <3>6
    <3> QED
      BY <1>1, <1>4, <1>8, <3>7, HeadIsNotVoid
  <2> QED
    BY <2>1, <2>2
<1>10. /\ link' \in [Cells -> Cells \cup {VOID}] /\ ~wild'
       /\ link'[n] = VOID /\ (s # <<>> => link'[s[Len(s)]] = n)
       /\ \A m \in Cells : (s = <<>> \/ m # s[Len(s)]) => link'[m] = link[m]
  <2>1. CASE s = <<>>
    <3>1. UNCHANGED <<link, wild>>
      BY <1>2, <1>5, <2>1
    <3> QED
      BY <1>1, <1>3, <1>4, <2>1, <3>1
  <2>2. CASE s # <<>>
    <3> DEFINE z == s[Len(s)]
    <3>1. z \in SetOf(s) /\ z \in cells /\ z \in Cells /\ z # n /\ r.top = z
      BY <1>1, <1>3, <1>5, <1>6, <2>2 DEF s
    <3>2. link' = [link EXCEPT ![z] = n] /\ ~wild'
      BY <1>2, <1>5, <2>2, <3>1
    <3> HIDE DEF z
    <3>3. /\ link' \in [Cells -> Cells \cup {VOID}]
          /\ link'[n] = link[n] /\ link'[z] = n
          /\ \A m \in Cells : m # z => link'[m] = link[m]
      BY <1>4, <3>1, <3>2
    <3>4. link[n] = VOID
      BY <1>1, <1>4
    <3> QED
      BY <2>2, <3>2, <3>3, <3>4 DEF z
  <2> QED
    BY <2>1, <2>2
<1>11. LineHeld(t, r2, link', q)
  <2>1. \A i \in 1..Len(s) - 1 : link'[s[i]] = link[s[i]]
    <3>1. ASSUME NEW i \in 1..Len(s) - 1 PROVE link'[s[i]] = link[s[i]]
      <4>1. Len(s) \in Nat /\ i \in 1..Len(s) /\ Len(s) \in 1..Len(s) /\ i # Len(s)
        BY <1>1, LenProperties
      <4>2. s[i] \in Cells /\ s[i] # s[Len(s)]
        BY <1>1, <1>5, <4>1, LenProperties DEF IsChain, Distinct
      <4> QED
        BY <1>10, <4>2
    <3> QED
      BY <3>1
  <2>2. IsChain(t, link', r2.head, VOID)
    BY <1>1, <1>5, <1>6, <1>8, <1>10, <2>1, ChainAppend DEF t
  <2> QED
    BY <1>7, <1>8, <2>2 DEF LineHeld
<1>12. \A k \in Kinds \ {q} : \A i \in 1..Len(Chains[k]) : link'[Chains[k][i]] = link[Chains[k][i]]
  <2>1. ASSUME NEW k \in Kinds \ {q}, NEW i \in 1..Len(Chains[k])
        PROVE  link'[Chains[k][i]] = link[Chains[k][i]]
    <3>1. Chains[k][i] \in SetOf(Chains[k]) /\ SetOf(Chains[k]) \subseteq Cells
      BY <1>1, InSetOf DEF LineTypes
    <3>2. s = <<>> \/ Chains[k][i] # s[Len(s)]
      BY <1>1, <1>5, <3>1
    <3> QED
      BY <1>10, <3>1, <3>2
  <2> QED
    BY <2>1
<1>13. LineChanges(q, t, Chains, line, link, cells, line', link', cells')
  <2>1. SetOf(t) \subseteq cells'
    BY <1>1, <1>2, <1>7 DEF s
  <2>2. \A k \in Kinds \ {q} : SetOf(Chains[k]) \subseteq cells' /\ SetOf(t) \cap SetOf(Chains[k]) = {}
    BY <1>1, <1>2, <1>6, <1>7
  <2> QED
    BY <1>7, <1>9, <1>11, <1>12, <2>1, <2>2 DEF LineChanges
<1>14. \A m \in Cells \ cells' : link'[m] = VOID
  <2>1. ASSUME NEW m \in Cells \ cells' PROVE link'[m] = VOID
    <3>1. m \in Cells \ cells /\ (s = <<>> \/ m # s[Len(s)])
      BY <1>1, <1>2, <1>5 DEF s
    <3> QED
      BY <1>4, <1>10, <3>1
  <2> QED
    BY <2>1
<1>15. LineLeaves(q, t, Chains, line', link', thing', cells')
  BY <1>1, <1>3, <1>9, <1>10, <1>13, <1>14, LineChanged DEF LineLeaves
<1>16. LinesInv' /\ Chains' = [Chains EXCEPT ![q] = t]
  BY <1>10, <1>15, LineKept
<1> QED
  BY <1>1, <1>16 DEF q, s, r, t

LEMMA LifoPushKeeps ==
    ASSUME LinesInv, NEW c \in Things \cup {VOID}, NEW n \in Cells, lifo_push(c, n)
    PROVE  /\ LinesInv' /\ line["lifo"] # VOID /\ n \notin cells
           /\ Chains' = [Chains EXCEPT !["lifo"] = <<n>> \o @]
<1> DEFINE q == "lifo"
           s == Chains[q]
           r == line[q]
<1>1. /\ LinesHold(Chains, line, link, cells) /\ LineTypes
      /\ q \in Kinds /\ q # "fifo"
      /\ s \in Seq(Cells) /\ r \in Heads /\ LineHeld(s, r, link, q)
      /\ r # VOID /\ n \notin cells
      /\ \A k \in Kinds : SetOf(Chains[k]) \subseteq cells
      /\ \A k \in Kinds \ {q} : SetOf(s) \cap SetOf(Chains[k]) = {}
  BY LinesFacts DEF lifo_push, Kinds
<1>2. /\ thing' = [thing EXCEPT ![n] = c] /\ cells' = cells \cup {n}
      /\ line' = [line EXCEPT ![q].head = n, ![q].size = @ + 1]
      /\ link' = [link EXCEPT ![n] = r.head] /\ UNCHANGED wild
  BY DEF lifo_push
<1>3. thing' \in [Cells -> Things \cup {VOID}] /\ cells' \subseteq Cells /\ ~wild'
  BY <1>1, <1>2 DEF LineTypes
<1>4. /\ r.head \in Cells \cup {VOID} /\ r.top \in Cells \cup {VOID} /\ r.size \in Nat
      /\ r = [head |-> r.head, top |-> r.top, size |-> r.size]
      /\ line \in [Kinds -> {VOID} \cup Heads]
      /\ link \in [Cells -> Cells \cup {VOID}] /\ \A m \in Cells \ cells : link[m] = VOID
  BY <1>1 DEF LineTypes, Heads, LinesInv
<1>5. IsChain(s, link, r.head, VOID) /\ Len(s) = r.size /\ Len(s) \in Nat
  BY <1>1, LenProperties DEF LineHeld
<1>6. n \notin SetOf(s) /\ \A k \in Kinds : n \notin SetOf(Chains[k])
  BY <1>1
<1> HIDE DEF q, s, r
<1> DEFINE one == <<n>>
           t == one \o s
<1>7. /\ t \in Seq(Cells) /\ Len(t) = r.size + 1 /\ SetOf(t) = SetOf(s) \cup {n}
  <2>1. one \in Seq(Cells) /\ Len(one) = 1 /\ SetOf(one) = {n}
    BY DEF SetOf
  <2> HIDE DEF one
  <2>2. t \in Seq(Cells) /\ Len(t) = 1 + Len(s)
    <3>1. s \in Seq(Cells) /\ one \in Seq(Cells) /\ Len(one) = 1
      BY <1>1, <2>1
    <3>2. one \o s \in Seq(Cells) /\ Len(one \o s) = Len(one) + Len(s)
      BY <3>1, ConcatProperties
    <3> QED
      BY <3>1, <3>2
  <2>3. SetOf(t) = SetOf(one) \cup SetOf(s)
    BY <1>1, <2>1, SetOfConcat
  <2> HIDE DEF t
  <2> QED
    BY <1>5, <2>1, <2>2, <2>3
<1> DEFINE r2 == [head |-> n, top |-> r.top, size |-> r.size + 1]
<1> HIDE DEF t, one
<1>8. r2 \in Heads /\ r2.head = n /\ r2.size = r.size + 1
  BY <1>4 DEF Heads
<1> HIDE DEF r2
<1>9. /\ line'[q] = r2 /\ \A k \in Kinds \ {q} : line'[k] = line[k]
      /\ line' \in [Kinds -> {VOID} \cup Heads] /\ r2 # VOID
  <2> DEFINE z == [r EXCEPT !.head = n]
             u == [line EXCEPT ![q] = z]
  <2>1. [z EXCEPT !.size = @ + 1] = r2
    <3> DEFINE w == [head |-> n, top |-> r.top, size |-> r.size]
    <3>1. z = w
      BY <1>4
    <3>2. [w EXCEPT !.size = @ + 1] = r2
      BY DEF r2
    <3> QED
      BY <3>1, <3>2
  <2>2. u[q] = z /\ u = [line EXCEPT ![q].head = n]
    BY <1>1, <1>4 DEF r
  <2>0. line' = [[line EXCEPT ![q].head = n] EXCEPT ![q].size = @ + 1]
    BY <1>2
  <2>3. line' = [u EXCEPT ![q] = [u[q] EXCEPT !.size = @ + 1]]
    BY <2>0, <2>2
  <2>4. line' = [u EXCEPT ![q] = r2]
    BY <2>1, <2>2, <2>3
  <2> HIDE DEF z
  <2>5. line' = [line EXCEPT ![q] = r2]
    BY <1>1, <1>4, <2>4
  <2> QED
    BY <1>1, <1>4, <1>8, <2>5, HeadIsNotVoid
<1>10. /\ link' \in [Cells -> Cells \cup {VOID}] /\ link'[n] = r.head
       /\ \A m \in Cells \ {n} : link'[m] = link[m]
  BY <1>2, <1>4
<1>11. \A k \in Kinds : \A i \in 1..Len(Chains[k]) : link'[Chains[k][i]] = link[Chains[k][i]]
  <2>1. ASSUME NEW k \in Kinds, NEW i \in 1..Len(Chains[k])
        PROVE  link'[Chains[k][i]] = link[Chains[k][i]]
    <3>1. Chains[k][i] \in SetOf(Chains[k]) /\ SetOf(Chains[k]) \subseteq Cells
      BY <1>1, InSetOf DEF LineTypes
    <3>2. Chains[k][i] # n
      BY <1>6, <3>1
    <3> QED
      BY <1>10, <3>1, <3>2
  <2> QED
    BY <2>1
<1>12. LineHeld(t, r2, link', q)
  <2>1. \A i \in 1..Len(s) : link'[s[i]] = link[s[i]]
    BY <1>1, <1>11 DEF s
  <2>2. IsChain(t, link', r2.head, VOID)
    BY <1>1, <1>5, <1>6, <1>8, <1>10, <2>1, ChainPush DEF t, one
  <2> QED
    BY <1>1, <1>7, <1>8, <2>2 DEF LineHeld
<1>13. LineChanges(q, t, Chains, line, link, cells, line', link', cells')
  <2>1. SetOf(t) \subseteq cells'
    BY <1>1, <1>2, <1>7 DEF s
  <2>2. \A k \in Kinds \ {q} : SetOf(Chains[k]) \subseteq cells' /\ SetOf(t) \cap SetOf(Chains[k]) = {}
    BY <1>1, <1>2, <1>6, <1>7
  <2> QED
    BY <1>7, <1>9, <1>11, <1>12, <2>1, <2>2 DEF LineChanges
<1>14. \A m \in Cells \ cells' : link'[m] = VOID
  BY <1>2, <1>4, <1>10
<1>15. LineLeaves(q, t, Chains, line', link', thing', cells')
  BY <1>1, <1>3, <1>9, <1>10, <1>13, <1>14, LineChanged DEF LineLeaves
<1>16. LinesInv' /\ Chains' = [Chains EXCEPT ![q] = t]
  BY <1>3, <1>15, LineKept
<1> QED
  BY <1>1, <1>16 DEF q, s, r, t, one

\* What Drop leaves alone.
LEMMA DropLeaves ==
    ASSUME LineTypes, NEW S, Drop(S)
    PROVE  /\ link' \in [Cells -> Cells \cup {VOID}] /\ thing' \in [Cells -> Things \cup {VOID}]
           /\ cells' = cells \ S /\ cells' \subseteq Cells
           /\ \A m \in Cells \ S : link'[m] = link[m] /\ thing'[m] = thing[m]
           /\ \A m \in Cells \cap S : link'[m] = VOID
BY DEF Drop, LineTypes

\* The line q loses some of its nodes, and what is left is s2.
LEMMA LoseKeeps ==
    ASSUME LinesInv, NEW q \in Kinds, line[q] # VOID, NEW S, S \subseteq SetOf(Chains[q]),
           Drop(S), UNCHANGED wild, NEW r2 \in {VOID} \cup Heads, line' = [line EXCEPT ![q] = r2],
           NEW s2 \in Seq(Cells), SetOf(s2) \subseteq SetOf(Chains[q]) \ S,
           IF r2 = VOID THEN s2 = <<>> ELSE LineHeld(s2, r2, link', q)
    PROVE  LinesInv' /\ Chains' = [Chains EXCEPT ![q] = s2]
<1>1. /\ LinesHold(Chains, line, link, cells) /\ LineTypes
      /\ \A k \in Kinds : SetOf(Chains[k]) \subseteq cells
      /\ \A k \in Kinds \ {q} : SetOf(Chains[q]) \cap SetOf(Chains[k]) = {}
      /\ line \in [Kinds -> {VOID} \cup Heads] /\ cells \subseteq Cells /\ ~wild'
  BY LinesFacts DEF LineTypes
<1>2. /\ link' \in [Cells -> Cells \cup {VOID}] /\ thing' \in [Cells -> Things \cup {VOID}]
      /\ cells' = cells \ S /\ cells' \subseteq Cells
      /\ \A m \in Cells \ S : link'[m] = link[m]
      /\ \A m \in Cells \cap S : link'[m] = VOID
  BY <1>1, DropLeaves
<1>3. /\ line' \in [Kinds -> {VOID} \cup Heads] /\ line'[q] = r2
      /\ \A k \in Kinds \ {q} : line'[k] = line[k]
  BY <1>1
<1>4. \A k \in Kinds \ {q} : \A i \in 1..Len(Chains[k]) : link'[Chains[k][i]] = link[Chains[k][i]]
  <2>1. ASSUME NEW k \in Kinds \ {q}, NEW i \in 1..Len(Chains[k])
        PROVE  link'[Chains[k][i]] = link[Chains[k][i]]
    <3>1. Chains[k][i] \in SetOf(Chains[k])
      BY InSetOf
    <3>2. Chains[k][i] \in Cells \ S
      BY <1>1, <3>1
    <3> QED
      BY <1>2, <3>2
  <2> QED
    BY <2>1
<1>5. /\ SetOf(s2) \subseteq cells'
      /\ \A k \in Kinds \ {q} : SetOf(Chains[k]) \subseteq cells' /\ SetOf(s2) \cap SetOf(Chains[k]) = {}
  BY <1>1, <1>2
<1>6. LineChanges(q, s2, Chains, line, link, cells, line', link', cells')
  BY <1>3, <1>4, <1>5 DEF LineChanges
<1>7. \A m \in Cells \ cells' : link'[m] = VOID
  <2>1. ASSUME NEW m \in Cells \ cells' PROVE link'[m] = VOID
    <3>1. CASE m \in S
      BY <1>2, <3>1
    <3>2. CASE m \notin S
      <4>1. m \in Cells \ cells
        BY <1>2, <3>2
      <4> QED
        BY <1>2, <3>2, <4>1 DEF LinesInv
    <3> QED
      BY <3>1, <3>2
  <2> QED
    BY <2>1
<1>8. LineLeaves(q, s2, Chains, line', link', thing', cells')
  BY <1>1, <1>2, <1>3, <1>6, <1>7, LineChanged DEF LineLeaves
<1> QED
  BY <1>1, <1>8, LineKept

LEMMA LinePopKeeps ==
    ASSUME LinesInv, NEW q \in Kinds, line_pop(q)
    PROVE  /\ LinesInv' /\ line[q] # VOID
           /\ \/ Chains[q] = <<>> /\ Chains' = Chains /\ line[q].head = VOID
              \/ /\ Chains[q] # <<>> /\ Chains' = [Chains EXCEPT ![q] = Tail(@)]
                 /\ line[q].head = Chains[q][1] /\ line[q].head # VOID
<1> DEFINE s == Chains[q]
           r == line[q]
<1>1. /\ LineTypes /\ s \in Seq(Cells) /\ r \in Heads /\ r # VOID /\ LineHeld(s, r, link, q)
  BY LinesFacts DEF line_pop
<1>2. /\ s = <<>> <=> r.head = VOID
      /\ s # <<>> => s[1] = r.head /\ r.head \in SetOf(s)
  BY <1>1, EmptyLine
<1>3. CASE r.head = VOID
  <2>1. UNCHANGED <<line, link, thing, cells, wild>>
    BY <1>3 DEF line_pop
  <2>2. LinesInv' /\ Chains' = Chains
    BY <2>1 DEF LinesInv, LineTypes, Chains
  <2> QED
    BY <1>1, <1>2, <1>3, <2>2
<1>4. CASE r.head # VOID
  <2> DEFINE tmp == r.head
             t == Tail(s)
             r2 == [head |-> link[tmp], top |-> r.top, size |-> r.size - 1]
  <2>1. /\ line' = [line EXCEPT ![q].head = link[tmp], ![q].size = @ - 1]
        /\ Drop({tmp}) /\ UNCHANGED wild
    BY <1>4 DEF line_pop
  <2>2. s # <<>> /\ s[1] = tmp /\ tmp \in SetOf(s) /\ tmp \in Cells
    BY <1>1, <1>2, <1>4, SetOfIn
  <2>3. /\ IsChain(s, link, tmp, VOID) /\ Len(s) = r.size /\ Len(s) \in Nat /\ Len(s) # 0
        /\ (q = "fifo" => r.top = s[Len(s)])
    BY <1>1, <2>2, LenProperties, EmptySeq DEF LineHeld
  <2>4. /\ t \in Seq(Cells) /\ Len(t) = Len(s) - 1 /\ SetOf(t) = SetOf(s) \ {tmp}
        /\ \A i \in 1..Len(t) : t[i] = s[i + 1]
    BY <1>1, <2>2, <2>3, HeadTailProperties, SetOfTail DEF IsChain
  <2>5. /\ r = [head |-> r.head, top |-> r.top, size |-> r.size]
        /\ r.top \in Cells \cup {VOID} /\ r.size - 1 \in Nat
        /\ link \in [Cells -> Cells \cup {VOID}] /\ link[tmp] \in Cells \cup {VOID}
        /\ line \in [Kinds -> {VOID} \cup Heads]
    BY <1>1, <2>2, <2>3 DEF Heads, LineTypes
  <2>6. r2 \in Heads /\ r2.head = link[tmp] /\ r2.size = Len(t) /\ r2.top = r.top
    BY <2>3, <2>4, <2>5 DEF Heads
  <2>7. line' = [line EXCEPT ![q] = r2]
    <3> DEFINE z == [r EXCEPT !.head = link[tmp]]
               u == [line EXCEPT ![q] = z]
    <3>1. [z EXCEPT !.size = @ - 1] = r2
      <4> DEFINE w == [head |-> link[tmp], top |-> r.top, size |-> r.size]
      <4>1. z = w
        BY <2>5
      <4>2. [w EXCEPT !.size = @ - 1] = r2
        OBVIOUS
      <4> QED
        BY <4>1, <4>2
    <3>2. u[q] = z /\ u = [line EXCEPT ![q].head = link[tmp]]
      BY <2>5
    <3>3. line' = [u EXCEPT ![q] = [u[q] EXCEPT !.size = @ - 1]]
      BY <2>1, <3>2
    <3>4. line' = [u EXCEPT ![q] = r2]
      BY <3>1, <3>2, <3>3
    <3> HIDE DEF z, r2
    <3> QED
      BY <2>5, <3>4
  <2> HIDE DEF tmp, t, r2
  <2>8. /\ link' \in [Cells -> Cells \cup {VOID}]
        /\ \A m \in Cells \ {tmp} : link'[m] = link[m]
    BY <1>1, <2>1, DropLeaves
  <2>9. LineHeld(t, r2, link', q)
    <3>1. \A i \in 2..Len(s) : link'[s[i]] = link[s[i]]
      <4>1. ASSUME NEW i \in 2..Len(s) PROVE link'[s[i]] = link[s[i]]
        <5>1. i \in 1..Len(s) /\ 1 \in 1..Len(s) /\ i # 1
          BY <2>3
        <5>2. s[i] # tmp /\ s[i] \in Cells
          BY <1>1, <2>2, <2>3, <5>1, LenProperties DEF IsChain, Distinct
        <5> QED
          BY <2>8, <5>2
      <4> QED
        BY <4>1
    <3>2. IsChain(t, link', link[tmp], VOID)
      BY <1>1, <2>2, <2>3, <3>1, ChainTail DEF t
    <3>3. ASSUME q = "fifo", t # <<>> PROVE r2.top = t[Len(t)]
      <4>1. Len(t) \in Nat /\ Len(t) # 0
        BY <2>4, <3>3, LenProperties, EmptySeq
      <4>2. Len(t) \in 1..Len(t) /\ Len(t) + 1 = Len(s)
        BY <2>3, <2>4, <4>1
      <4> QED
        BY <2>3, <2>4, <2>6, <3>3, <4>2
    <3> QED
      BY <2>6, <3>2, <3>3 DEF LineHeld
  <2>10. r2 # VOID
    BY <2>6, HeadIsNotVoid
  <2>11. {tmp} \subseteq SetOf(s) /\ SetOf(t) \subseteq SetOf(s) \ {tmp}
    BY <2>2, <2>4
  <2>12. LinesInv' /\ Chains' = [Chains EXCEPT ![q] = t]
    <3> HIDE DEF r, s
    <3>1. line[q] # VOID /\ {tmp} \subseteq SetOf(Chains[q]) /\ SetOf(t) \subseteq SetOf(Chains[q]) \ {tmp}
      BY <1>1, <2>11 DEF r, s
    <3>2. r2 \in {VOID} \cup Heads /\ IF r2 = VOID THEN t = <<>> ELSE LineHeld(t, r2, link', q)
      BY <2>6, <2>9, <2>10
    <3>3. Drop({tmp}) /\ UNCHANGED wild /\ line' = [line EXCEPT ![q] = r2] /\ t \in Seq(Cells)
      BY <2>1, <2>4, <2>7
    <3> QED
      BY <3>1, <3>2, <3>3, LoseKeeps
  <2> QED
    BY <1>1, <1>4, <2>2, <2>12 DEF tmp, t
<1> QED
  BY <1>3, <1>4

FirstVoid(s) == SelectInSeq(s, LAMBDA w : w = VOID)

Popped(q) == LET k == FirstVoid(ThingsOf(q))
             IN  IF k = 0 THEN CellsOf(q) ELSE SubSeq(CellsOf(q), 1, k)

LEMMA FirstVoidIn ==
    ASSUME NEW s, Len(s) \in Nat
    PROVE  FirstVoid(s) \in 0..Len(s)
<1> DEFINE I == {i \in 1..Len(s) : s[i] = VOID}
<1>1. FirstVoid(s) = IF I # {} THEN Min(I) ELSE 0
  BY DEF FirstVoid, SelectInSeq
<1>2. I \subseteq 1..Len(s)
  OBVIOUS
<1> HIDE DEF I
<1>3. CASE I # {}
  <2>1. I \subseteq Nat
    BY <1>2
  <2>2. PICK m \in I : \A k \in I : m <= k
    BY <1>3, <2>1, LeastNumber
  <2>3. Min(I) \in I
    BY <2>2 DEF Min
  <2>4. FirstVoid(s) = Min(I) /\ Min(I) \in 1..Len(s)
    BY <1>1, <1>2, <1>3, <2>3
  <2> QED
    BY <2>4
<1>4. CASE I = {}
  BY <1>1, <1>4
<1> QED
  BY <1>3, <1>4

LEMMA LineReleaseKeeps ==
    ASSUME LinesInv, NEW q \in Kinds, line_release(q)
    PROVE  /\ LinesInv' /\ line[q] # VOID /\ line'[q] = VOID
           /\ Chains' = [Chains EXCEPT ![q] = <<>>] /\ Drop(ToSet(Popped(q)))
           /\ Popped(q) \in Seq(Cells) /\ SetOf(Popped(q)) \subseteq SetOf(Chains[q])
           /\ ToSet(Popped(q)) = SetOf(Popped(q))
           /\ Len(Popped(q)) = IF FirstVoid(ThingsOf(q)) = 0 THEN Len(CellsOf(q))
                               ELSE FirstVoid(ThingsOf(q))
<1>1. line[q] # VOID /\ line' = [line EXCEPT ![q] = VOID] /\ UNCHANGED wild
  BY DEF line_release
<1>2. Drop(ToSet(Popped(q)))
  BY DEF line_release, FirstVoid, Popped
<1> DEFINE s == CellsOf(q)
           k == FirstVoid(ThingsOf(q))
           p == Popped(q)
<1>3. s = Chains[q] /\ s \in Seq(Cells) /\ LineTypes
  BY <1>1, LinesFacts
<1>4. Len(s) \in Nat /\ DOMAIN s = 1..Len(s) /\ \A i \in 1..Len(s) : s[i] \in Cells
  BY <1>3, LenProperties
<1>5. Len(ThingsOf(q)) = Len(s)
  BY <1>4 DEF ThingsOf
<1>6. k \in 0..Len(s)
  BY <1>4, <1>5, FirstVoidIn
<1>7. p = IF k = 0 THEN s ELSE SubSeq(s, 1, k)
  BY DEF Popped
<1> HIDE DEF k, p, s
<1>8. /\ p \in Seq(Cells) /\ SetOf(p) \subseteq SetOf(s)
      /\ Len(p) = IF k = 0 THEN Len(s) ELSE k
  <2>1. CASE k = 0
    BY <1>3, <1>7, <2>1
  <2>2. CASE k # 0
    <3>1. k \in 1..Len(s) /\ p = SubSeq(s, 1, k)
      BY <1>4, <1>6, <1>7, <2>2
    <3>2. \A i \in 1..k : s[i] \in Cells
      BY <1>4, <3>1
    <3>3. p \in Seq(Cells) /\ Len(p) = k /\ \A i \in 1..k : p[i] = s[i]
      BY <1>3, <1>4, <3>1, <3>2
    <3>4. \A i \in 1..Len(p) : i \in 1..Len(s) /\ p[i] = s[i]
      BY <1>4, <3>1, <3>3
    <3> QED
      BY <2>2, <3>3, <3>4 DEF SetOf
  <2> QED
    BY <2>1, <2>2
<1>9. ToSet(p) = SetOf(p)
  BY <1>8, LenProperties DEF ToSet, SetOf
<1>10. line'[q] = VOID
  BY <1>1, <1>3 DEF LineTypes
<1>11. Drop(SetOf(p)) /\ SetOf(p) \subseteq SetOf(Chains[q])
  BY <1>2, <1>3, <1>8, <1>9 DEF p
<1> DEFINE s2 == <<>>
<1>12. s2 \in Seq(Cells) /\ SetOf(s2) \subseteq SetOf(Chains[q]) \ SetOf(p)
  BY SetOfEmpty, EmptySeq
<1>13. LinesInv' /\ Chains' = [Chains EXCEPT ![q] = s2]
  BY <1>1, <1>11, <1>12, LoseKeeps
<1> QED
  BY <1>1, <1>2, <1>3, <1>8, <1>9, <1>10, <1>11, <1>13 DEF p, k, s

LEMMA LinesInvNext ==
    ASSUME LinesInv, [LinesNext]_lineVars
    PROVE  LinesInv'
<1>1. "fifo" \in Kinds /\ "lifo" \in Kinds
  BY DEF Kinds
<1>2. CASE UNCHANGED lineVars
  BY <1>2 DEF lineVars, LinesInv, LineTypes
<1>3. CASE fifo_init \/ lifo_init
  BY <1>1, <1>3, LineInitKeeps DEF fifo_init, lifo_init
<1>4. CASE fifo_pop \/ lifo_pop
  BY <1>1, <1>4, LinePopKeeps DEF fifo_pop, lifo_pop
<1>5. CASE fifo_release \/ lifo_release
  BY <1>1, <1>5, LineReleaseKeeps DEF fifo_release, lifo_release
<1>6. ASSUME NEW c \in Things \cup {VOID}, NEW n \in Cells, fifo_push(c, n) \/ lifo_push(c, n)
      PROVE  LinesInv'
  BY <1>6, FifoPushKeeps, LifoPushKeeps
<1> QED
  BY <1>2, <1>3, <1>4, <1>5, <1>6 DEF LinesNext

-----------------------------------------------------------------------------
(* The tree.  way gives for each hash the nodes a search for it comes by.   *)

Turns(h, lf, rt, hk) ==
    [n \in Vertices |-> IF hk[n] > h THEN rt[n] ELSE IF hk[n] < h THEN lf[n] ELSE NIL]

\* Each node is at the end of the search for its hash.
Ways(way, vs, head, lf, rt, hk) ==
    /\ way \in [HashKeys -> Seq(vs)]
    /\ \A h \in HashKeys : IsChain(way[h], Turns(h, lf, rt, hk), head, NIL)
    /\ \A n \in vs : way[hk[n]] # <<>> /\ way[hk[n]][Len(way[hk[n]])] = n

\* The links of the nodes; a free address has none, as zalloc gives it out.
Linked(vs, lf, rt, pt, hk) ==
    /\ \A n \in vs : hk[n] \in HashKeys
    /\ \A n \in vs : lf[n] # NIL => lf[n] \in vs /\ pt[lf[n]] = n
    /\ \A n \in vs : rt[n] # NIL => rt[n] \in vs /\ pt[rt[n]] = n
    /\ \A n \in vs : lf[n] = NIL \/ lf[n] # rt[n]
    /\ \A n \in Vertices \ vs : lf[n] = NIL /\ rt[n] = NIL

\* A pointer is stored in one node.
StoresIn(vs, pl) ==
    /\ \A n \in vs : pl[n] \in Payloads
    /\ \A n, m \in vs : pl[n] = pl[m] => n = m

TreeTypes ==
    /\ tree \in {NIL} \cup [head : Vertices \cup {NIL}]
    /\ left \in [Vertices -> Vertices \cup {NIL}]
    /\ right \in [Vertices -> Vertices \cup {NIL}]
    /\ parent \in [Vertices -> Vertices \cup {NIL}]
    /\ hash_key \in [Vertices -> HashKeys \cup {0}]
    /\ payload \in [Vertices -> Payloads \cup {NIL}]
    /\ vertices \subseteq Vertices

TreeShape ==
    IF tree = NIL THEN vertices = {}
    ELSE /\ tree.head # NIL => tree.head \in vertices /\ parent[tree.head] = NIL
         /\ \E way : Ways(way, vertices, tree.head, left, right, hash_key)

TreeInv ==
    /\ TreeTypes
    /\ Linked(vertices, left, right, parent, hash_key)
    /\ StoresIn(vertices, payload)
    /\ TreeShape

LEMMA SeqSub ==
    ASSUME NEW S, NEW T, S \subseteq T, NEW s \in Seq(S)
    PROVE  s \in Seq(T)
<1>1. Len(s) \in Nat /\ s \in [1..Len(s) -> S]
  BY LenProperties
<1>2. s \in [1..Len(s) -> T]
  BY <1>1
<1> QED
  BY <1>1, <1>2, SeqDef

LEMMA TreeRecord ==
    ASSUME NEW c \in Vertices \cup {NIL}
    PROVE  [head |-> c] # NIL /\ [head |-> c] \in [head : Vertices \cup {NIL}]
BY NilAssumption

\* The search for a hash comes by its way.
LEMMA PathIs ==
    ASSUME TreeTypes, tree # NIL, NEW way,
           Ways(way, vertices, tree.head, left, right, hash_key),
           NEW h \in HashKeys
    PROVE  Path(h) = way[h]
<1> DEFINE to == Turns(h, left, right, hash_key)
<1>1. way[h] \in Seq(vertices) /\ IsChain(way[h], to, tree.head, NIL)
  BY DEF Ways
<1>2. way[h] \in Seq(Vertices)
  BY <1>1, SeqSub DEF TreeTypes
<1>3. DOMAIN to = Vertices
  BY DEF Turns
<1>4. Path(h) = Along(to, tree.head, NIL)
  BY DEF Path, Turns
<1> HIDE DEF to
<1> QED
  BY <1>1, <1>2, <1>3, <1>4, TreeAssumption, NilAssumption, AlongChain

\* What there is to know of a way.
LEMMA WayFacts ==
    ASSUME NEW vs, vs \subseteq Vertices, NEW head, NEW lf, NEW rt, NEW hk, NEW way,
           Ways(way, vs, head, lf, rt, hk), NEW h \in HashKeys
    PROVE  /\ way[h] \in Seq(vs) /\ Len(way[h]) \in Nat /\ Distinct(way[h])
           /\ \A i \in 1..Len(way[h]) : way[h][i] \in vs
           /\ \A i \in 1..Len(way[h]) :
                 Turns(h, lf, rt, hk)[way[h][i]] = IF i = Len(way[h]) THEN NIL ELSE way[h][i + 1]
           /\ head = IF way[h] = <<>> THEN NIL ELSE way[h][1]
<1>1. way[h] \in Seq(vs) /\ IsChain(way[h], Turns(h, lf, rt, hk), head, NIL)
  BY DEF Ways
<1>2. Len(way[h]) \in Nat /\ \A i \in 1..Len(way[h]) : way[h][i] \in vs
  BY <1>1, LenProperties
<1> QED
  BY <1>1, <1>2 DEF IsChain

LEMMA FoundIs ==
    ASSUME TreeInv, tree # NIL, NEW way,
           Ways(way, vertices, tree.head, left, right, hash_key),
           NEW h \in HashKeys
    PROVE  /\ tree.head = NIL <=> way[h] = <<>>
           /\ tree.head = NIL => vertices = {}
           /\ tree.head # NIL => /\ Len(way[h]) \in 1..Len(way[h])
                                 /\ Last(Path(h)) = way[h][Len(way[h])]
                                 /\ Last(Path(h)) \in vertices
           /\ Found(h) <=> \E n \in vertices : hash_key[n] = h
           /\ Found(h) => hash_key[Last(Path(h))] = h
           /\ \A n \in vertices : hash_key[n] = h => n = Last(Path(h))
<1>0. TreeTypes /\ vertices \subseteq Vertices
  BY DEF TreeInv, TreeTypes
<1>1. Path(h) = way[h]
  BY <1>0, PathIs
<1>2. /\ way[h] \in Seq(vertices) /\ Len(way[h]) \in Nat
      /\ \A i \in 1..Len(way[h]) : way[h][i] \in vertices
      /\ tree.head = IF way[h] = <<>> THEN NIL ELSE way[h][1]
  BY <1>0, WayFacts
<1>3. tree.head = NIL <=> way[h] = <<>>
  <2>1. ASSUME way[h] # <<>> PROVE tree.head # NIL
    <3>1. 1 \in 1..Len(way[h])
      BY <1>2, <2>1, EmptySeq
    <3>2. tree.head \in vertices
      BY <1>2, <2>1, <3>1
    <3> QED
      BY <1>0, <3>2, NilAssumption
  <2> QED
    BY <1>2, <2>1
<1>4. ASSUME tree.head # NIL
      PROVE  /\ Len(way[h]) \in 1..Len(way[h])
             /\ Last(Path(h)) = way[h][Len(way[h])]
             /\ Last(Path(h)) \in vertices
  <2>1. Len(way[h]) # 0
    BY <1>2, <1>3, <1>4, EmptySeq
  <2>2. Len(way[h]) \in 1..Len(way[h])
    BY <1>2, <2>1
  <2> QED
    BY <1>1, <1>2, <2>2 DEF Last
<1>5. ASSUME tree.head = NIL, NEW n \in vertices PROVE FALSE
  <2>1. hash_key[n] \in HashKeys
    BY DEF TreeInv, Linked
  <2>2. way[hash_key[n]] # <<>>
    BY DEF Ways
  <2>3. 1 \in 1..Len(way[hash_key[n]])
    <3>1. Len(way[hash_key[n]]) \in Nat /\ way[hash_key[n]] \in Seq(vertices)
      BY <1>0, <2>1, WayFacts
    <3> QED
      BY <2>2, <3>1, EmptySeq
  <2>4. tree.head = way[hash_key[n]][1] /\ way[hash_key[n]][1] \in vertices
    BY <1>0, <2>1, <2>2, <2>3, WayFacts
  <2> QED
    BY <1>0, <1>5, <2>4, NilAssumption
<1>6. ASSUME NEW n \in vertices, hash_key[n] = h
      PROVE  tree.head # NIL /\ n = Last(Path(h))
  <2>1. tree.head # NIL
    BY <1>5
  <2>2. way[hash_key[n]][Len(way[hash_key[n]])] = n
    BY DEF Ways
  <2> QED
    BY <1>4, <1>6, <2>1, <2>2
<1>7. Found(h) => tree.head # NIL /\ hash_key[Last(Path(h))] = h /\ Last(Path(h)) \in vertices
  BY <1>4 DEF Found
<1>8. (\E n \in vertices : hash_key[n] = h) => Found(h)
  BY <1>6 DEF Found
<1>9. tree.head = NIL => vertices = {}
  BY <1>5
<1> QED
  BY <1>3, <1>4, <1>6, <1>7, <1>8, <1>9
-----------------------------------------------------------------------------
(* The order of a traversal: every node once, those below it first.         *)

LEMMA DistinctConcat ==
    ASSUME NEW S, NEW s \in Seq(S), NEW t \in Seq(S), Distinct(s), Distinct(t),
           SetOf(s) \cap SetOf(t) = {}
    PROVE  Distinct(s \o t)
<1> DEFINE r == s \o t
<1>1. Len(s) \in Nat /\ Len(t) \in Nat
  BY LenProperties
<1>2. /\ Len(r) = Len(s) + Len(t)
      /\ \A i \in 1..Len(s) + Len(t) : r[i] = IF i <= Len(s) THEN s[i] ELSE t[i - Len(s)]
  BY ConcatProperties
<1> HIDE DEF r
<1>3. ASSUME NEW i \in 1..Len(s), NEW j \in 1..Len(t) PROVE s[i] # t[j]
  BY InSetOf
<1>4. ASSUME NEW i \in 1..Len(r), NEW j \in 1..Len(r), r[i] = r[j] PROVE i = j
  <2>1. CASE i <= Len(s) /\ j <= Len(s)
    <3>1. i \in 1..Len(s) /\ j \in 1..Len(s) /\ s[i] = s[j]
      BY <1>1, <1>2, <1>4, <2>1
    <3> QED
      BY <3>1 DEF Distinct
  <2>2. CASE ~(i <= Len(s)) /\ ~(j <= Len(s))
    <3>1. i - Len(s) \in 1..Len(t) /\ j - Len(s) \in 1..Len(t)
      BY <1>1, <1>2, <2>2
    <3>2. t[i - Len(s)] = t[j - Len(s)]
      BY <1>1, <1>2, <1>4, <2>2
    <3>3. i - Len(s) = j - Len(s)
      BY <3>1, <3>2 DEF Distinct
    <3> QED
      BY <1>1, <1>2, <3>3
  <2>3. CASE i <= Len(s) /\ ~(j <= Len(s))
    <3>1. i \in 1..Len(s) /\ j - Len(s) \in 1..Len(t)
      BY <1>1, <1>2, <2>3
    <3>2. r[i] = s[i] /\ r[j] = t[j - Len(s)]
      BY <1>1, <1>2, <2>3
    <3> QED
      BY <1>3, <1>4, <3>1, <3>2
  <2>4. CASE ~(i <= Len(s)) /\ j <= Len(s)
    <3>1. j \in 1..Len(s) /\ i - Len(s) \in 1..Len(t)
      BY <1>1, <1>2, <2>4
    <3>2. r[j] = s[j] /\ r[i] = t[i - Len(s)]
      BY <1>1, <1>2, <2>4
    <3> QED
      BY <1>3, <1>4, <3>1, <3>2
  <2> QED
    BY <2>1, <2>2, <2>3, <2>4
<1>5. Distinct(r)
  BY <1>4 DEF Distinct
<1> QED
  BY <1>5 DEF r

\* The local function of PostOrder, level by level.
Above(g) ==
    [n \in vertices |-> (IF left[n] = NIL THEN <<>> ELSE g[left[n]])
                          \o (IF right[n] = NIL THEN <<>> ELSE g[right[n]])
                          \o <<n>>]

Orders(f, K) ==
    /\ f[0] = [n \in vertices |-> <<>>]
    /\ \A k \in 1..K : f[k] = Above(f[k - 1])

OrderMeets(b) ==
    b = [k \in 0..Cardinality(Vertices) |->
            [n \in vertices |->
                IF k = 0 THEN <<>>
                ELSE (IF left[n] = NIL THEN <<>> ELSE b[k - 1][left[n]])
                       \o (IF right[n] = NIL THEN <<>> ELSE b[k - 1][right[n]])
                       \o <<n>>]]

LEMMA OrdersExist ==
    ASSUME NEW K \in Nat
    PROVE  \E f : Orders(f, K)
<1> DEFINE T == {j \in Nat : \E f : Orders(f, j)}
<1>1. 0 \in T
  <2> DEFINE f == [k \in 0..0 |-> [n \in vertices |-> <<>>]]
  <2>1. f[0] = [n \in vertices |-> <<>>]
    OBVIOUS
  <2> HIDE DEF f
  <2>2. Orders(f, 0)
    BY <2>1 DEF Orders
  <2> QED
    BY <2>2
<1>2. ASSUME NEW j \in Nat, j \in T PROVE j + 1 \in T
  <2>1. PICK f : Orders(f, j)
    BY <1>2
  <2> DEFINE g == [k \in 0..j + 1 |-> IF k = j + 1 THEN Above(f[j]) ELSE f[k]]
  <2>2. /\ g[0] = f[0] /\ g[j + 1] = Above(f[j])
        /\ \A k \in 0..j : g[k] = f[k]
    <3> DEFINE top == Above(f[j])
    <3> HIDE DEF top
    <3>1. g[0] = f[0] /\ g[j + 1] = top /\ \A k \in 0..j : g[k] = f[k]
      BY DEF top
    <3> QED
      BY <3>1 DEF top
  <2> HIDE DEF g
  <2>3. ASSUME NEW k \in 1..j + 1 PROVE g[k] = Above(g[k - 1])
    <3>1. k - 1 \in 0..j
      OBVIOUS
    <3>2. g[k - 1] = f[k - 1]
      BY <2>2, <3>1
    <3>3. CASE k = j + 1
      <4>1. k - 1 = j
        BY <3>3
      <4> QED
        BY <2>2, <3>2, <3>3, <4>1
    <3>4. CASE k # j + 1
      <4>1. k \in 1..j /\ k \in 0..j
        BY <3>4
      <4> QED
        BY <2>1, <2>2, <3>2, <4>1 DEF Orders
    <3> QED
      BY <3>3, <3>4
  <2>4. Orders(g, j + 1)
    BY <2>1, <2>2, <2>3 DEF Orders
  <2> QED
    BY <2>4
<1> HIDE DEF T
<1>3. K \in T
  BY <1>1, <1>2, Induction
<1> QED
  BY <1>3 DEF T

LEMMA LevelIs ==
    ASSUME NEW b, NEW k \in Nat, k > 0
    PROVE  [n \in vertices |->
                IF k = 0 THEN <<>>
                ELSE (IF left[n] = NIL THEN <<>> ELSE b[k - 1][left[n]])
                       \o (IF right[n] = NIL THEN <<>> ELSE b[k - 1][right[n]])
                       \o <<n>>] = Above(b[k - 1])
<1> DEFINE P(n) == (IF left[n] = NIL THEN <<>> ELSE b[k - 1][left[n]])
                       \o (IF right[n] = NIL THEN <<>> ELSE b[k - 1][right[n]])
                       \o <<n>>
<1>1. Above(b[k - 1]) = [n \in vertices |-> P(n)]
  BY DEF Above
<1>2. k # 0
  OBVIOUS
<1> HIDE DEF P
<1>3. [n \in vertices |-> IF k = 0 THEN <<>> ELSE P(n)] = [n \in vertices |-> P(n)]
  BY <1>2
<1>4. [n \in vertices |-> IF k = 0 THEN <<>> ELSE P(n)] = Above(b[k - 1])
  BY <1>1, <1>3
<1> QED
  BY <1>4, Zenon DEF P

LEMMA OrderMeetsOrders ==
    ASSUME NEW b, Cardinality(Vertices) \in Nat
    PROVE  /\ OrderMeets(b) => Orders(b, Cardinality(Vertices))
           /\ Orders(b, Cardinality(Vertices)) => OrderMeets([k \in 0..Cardinality(Vertices) |-> b[k]])
<1> DEFINE N == Cardinality(Vertices)
           Level(f, k) ==
             [n \in vertices |->
                IF k = 0 THEN <<>>
                ELSE (IF left[n] = NIL THEN <<>> ELSE f[k - 1][left[n]])
                       \o (IF right[n] = NIL THEN <<>> ELSE f[k - 1][right[n]])
                       \o <<n>>]
<1>1. \A f : \A k \in 1..N : Level(f, k) = Above(f[k - 1])
  <2> SUFFICES ASSUME NEW f, NEW k \in 1..N PROVE Level(f, k) = Above(f[k - 1])
    OBVIOUS
  <2>1. k \in Nat /\ k > 0
    OBVIOUS
  <2> QED
    BY <2>1, LevelIs, Zenon
<1>2. \A f : Level(f, 0) = [n \in vertices |-> <<>>]
  OBVIOUS
<1>3. \A f : OrderMeets(f) <=> f = [k \in 0..N |-> Level(f, k)]
  BY DEF OrderMeets
<1>4. \A f : \A k \in 1..N : \A h : h[k - 1] = f[k - 1] => Level(f, k) = Level(h, k)
  <2> SUFFICES ASSUME NEW f, NEW k \in 1..N, NEW h, h[k - 1] = f[k - 1]
               PROVE  Level(f, k) = Level(h, k)
    OBVIOUS
  <2> HIDE DEF Level
  <2> QED
    BY <1>1
<1> HIDE DEF Level
<1>5. ASSUME OrderMeets(b) PROVE Orders(b, N)
  <2>1. b = [k \in 0..N |-> Level(b, k)]
    BY <1>3, <1>5
  <2> DEFINE L == [k \in 0..N |-> Level(b, k)]
  <2>2. \A k \in 0..N : L[k] = Level(b, k)
    OBVIOUS
  <2>0. b = L
    BY <2>1
  <2> HIDE DEF L
  <2>3. \A k \in 0..N : b[k] = Level(b, k)
    BY <2>0, <2>2
  <2>4. 0 \in 0..N /\ \A k \in 1..N : k \in 0..N
    OBVIOUS
  <2> QED
    BY <1>1, <1>2, <2>3, <2>4 DEF Orders
<1>6. ASSUME Orders(b, N) PROVE OrderMeets([k \in 0..N |-> b[k]])
  <2> DEFINE g == [k \in 0..N |-> b[k]]
  <2>1. ASSUME NEW k \in 0..N PROVE b[k] = Level(g, k)
    <3>1. CASE k = 0
      BY <1>2, <1>6, <3>1 DEF Orders
    <3>2. CASE k # 0
      <4>1. k \in 1..N /\ k - 1 \in 0..N
        BY <3>2
      <4>2. g[k - 1] = b[k - 1]
        BY <4>1
      <4> HIDE DEF g
      <4>3. b[k] = Above(b[k - 1])
        BY <1>6, <4>1 DEF Orders
      <4> QED
        BY <1>1, <4>1, <4>2, <4>3
    <3> QED
      BY <3>1, <3>2
  <2>2. g = [k \in 0..N |-> Level(g, k)]
    <3> DEFINE G == [k \in 0..N |-> Level(g, k)]
    <3>1. \A k \in 0..N : G[k] = Level(g, k)
      OBVIOUS
    <3>2. G = [k \in 0..N |-> G[k]]
      OBVIOUS
    <3> HIDE DEF G
    <3>3. \A k \in 0..N : G[k] = b[k]
      BY <2>1, <3>1
    <3>4. G = [k \in 0..N |-> b[k]]
      BY <3>2, <3>3
    <3> QED
      BY <3>4 DEF G
  <2> HIDE DEF g
  <2>3. OrderMeets(g)
    BY <1>3, <2>2
  <2> QED
    BY <2>3 DEF g
<1> QED
  BY <1>5, <1>6 DEF N

LEMMA PostOrderIs ==
    ASSUME NEW head, Cardinality(Vertices) \in Nat
    PROVE  \E f : /\ Orders(f, Cardinality(Vertices))
                  /\ PostOrder(head) = IF head = NIL THEN <<>>
                                       ELSE f[Cardinality(Vertices)][head]
<1> DEFINE f == CHOOSE b : OrderMeets(b)
<1>1. PostOrder(head) = IF head = NIL THEN <<>> ELSE f[Cardinality(Vertices)][head]
  BY Zenon DEF PostOrder, OrderMeets
<1>2. \E b : OrderMeets(b)
  BY OrdersExist, OrderMeetsOrders
<1>3. OrderMeets(f)
  BY <1>2, Zenon
<1>4. Orders(f, Cardinality(Vertices))
  BY <1>3, OrderMeetsOrders
<1> QED
  BY <1>1, <1>4
TreeIs(way) ==
    /\ TreeInv /\ tree # NIL
    /\ Ways(way, vertices, tree.head, left, right, hash_key)

\* The nodes whose search comes by n, none for a child that is missing.
Under(n, way)  == {m \in vertices : n \in SetOf(way[hash_key[m]])}
Below(c, way)  == IF c = NIL THEN {} ELSE Under(c, way)

LEMMA TreeIsFacts ==
    ASSUME NEW way, TreeIs(way)
    PROVE  /\ TreeTypes /\ vertices \subseteq Vertices /\ NIL \notin vertices
           /\ Linked(vertices, left, right, parent, hash_key)
           /\ Ways(way, vertices, tree.head, left, right, hash_key)
           /\ \A n \in vertices : hash_key[n] \in HashKeys
           /\ tree.head # NIL => tree.head \in vertices /\ parent[tree.head] = NIL
BY NilAssumption DEF TreeIs, TreeInv, TreeTypes, TreeShape, Linked

LEMMA TreeWay ==
    ASSUME NEW way, TreeIs(way), NEW h \in HashKeys
    PROVE  /\ way[h] \in Seq(vertices) /\ Len(way[h]) \in Nat /\ Distinct(way[h])
           /\ \A i \in 1..Len(way[h]) : way[h][i] \in vertices
           /\ tree.head = IF way[h] = <<>> THEN NIL ELSE way[h][1]
<1>1. way[h] \in Seq(vertices) /\ IsChain(way[h], Turns(h, left, right, hash_key), tree.head, NIL)
  BY DEF TreeIs, Ways
<1>2. Len(way[h]) \in Nat /\ \A i \in 1..Len(way[h]) : way[h][i] \in vertices
  BY <1>1, LenProperties
<1> QED
  BY <1>1, <1>2 DEF IsChain

\* A node that is met is the parent of the next, and its child is met next.
LEMMA TreeWayParent ==
    ASSUME NEW way, TreeIs(way), NEW h \in HashKeys,
           NEW i \in 1..Len(way[h]), i # Len(way[h])
    PROVE  /\ i + 1 \in 1..Len(way[h])
           /\ parent[way[h][i + 1]] = way[h][i]
           /\ \/ way[h][i + 1] = left[way[h][i]] /\ hash_key[way[h][i]] < h
              \/ way[h][i + 1] = right[way[h][i]] /\ hash_key[way[h][i]] > h
<1> DEFINE s == way[h]
           n == s[i]
           c == s[i + 1]
<1>1. /\ vertices \subseteq Vertices /\ NIL \notin vertices
      /\ Linked(vertices, left, right, parent, hash_key)
      /\ Ways(way, vertices, tree.head, left, right, hash_key)
  BY TreeIsFacts
<1>2. Len(s) \in Nat /\ \A k \in 1..Len(s) : s[k] \in vertices
  BY TreeWay
<1>3. i + 1 \in 1..Len(s)
  BY <1>2, NextIndex
<1>4. n \in vertices /\ n \in Vertices /\ c \in vertices /\ c # NIL
  BY <1>1, <1>2, <1>3
<1>5. Turns(h, left, right, hash_key)[n] = c
  BY <1>1 DEF Ways, IsChain
<1> HIDE DEF s, n, c
<1>6. c = IF hash_key[n] > h THEN right[n] ELSE IF hash_key[n] < h THEN left[n] ELSE NIL
  BY <1>4, <1>5 DEF Turns
<1>7. parent[c] = n
  BY <1>1, <1>4, <1>6 DEF Linked
<1> QED
  BY <1>3, <1>4, <1>6, <1>7 DEF n, c, s

\* The node whose hash is met is the last.
LEMMA TreeWayEnds ==
    ASSUME NEW way, TreeIs(way), NEW n \in vertices
    PROVE  /\ hash_key[n] \in HashKeys /\ way[hash_key[n]] # <<>>
           /\ Len(way[hash_key[n]]) \in 1..Len(way[hash_key[n]])
           /\ way[hash_key[n]][Len(way[hash_key[n]])] = n
<1>1. hash_key[n] \in HashKeys
  BY TreeIsFacts
<1>2. way[hash_key[n]] # <<>> /\ way[hash_key[n]][Len(way[hash_key[n]])] = n
  BY DEF TreeIs, Ways
<1>3. way[hash_key[n]] \in Seq(vertices) /\ Len(way[hash_key[n]]) \in Nat
  BY <1>1, TreeWay
<1>4. Len(way[hash_key[n]]) # 0
  BY <1>2, <1>3, EmptySeq
<1> QED
  BY <1>1, <1>2, <1>3, <1>4

\* What comes by a child comes by its parent just before.
LEMMA WayBefore ==
    ASSUME NEW way, TreeIs(way), NEW n \in vertices, NEW h \in HashKeys,
           NEW i \in 1..Len(way[h]),
           way[h][i] = left[n] \/ way[h][i] = right[n]
    PROVE  i - 1 \in 1..Len(way[h]) /\ way[h][i - 1] = n
<1>1. /\ TreeTypes /\ vertices \subseteq Vertices /\ NIL \notin vertices
      /\ Linked(vertices, left, right, parent, hash_key)
      /\ Ways(way, vertices, tree.head, left, right, hash_key)
      /\ tree.head # NIL => tree.head \in vertices /\ parent[tree.head] = NIL
  BY TreeIsFacts
<1>2. /\ Len(way[h]) \in Nat /\ way[h] \in Seq(vertices)
      /\ \A k \in 1..Len(way[h]) : way[h][k] \in vertices
      /\ tree.head = IF way[h] = <<>> THEN NIL ELSE way[h][1]
  BY TreeWay
<1> DEFINE c == way[h][i]
<1>3. c \in vertices /\ c # NIL
  BY <1>1, <1>2
<1>4. parent[c] = n
  BY <1>1, <1>3 DEF Linked
<1>5. i # 1
  <2> SUFFICES ASSUME i = 1 PROVE FALSE
    OBVIOUS
  <2>1. way[h] # <<>>
    BY <1>2, EmptySeq
  <2>2. tree.head = c
    BY <1>2, <2>1
  <2>3. parent[c] = NIL
    BY <1>1, <1>3, <2>2
  <2> QED
    BY <1>1, <1>4, <2>3
<1>6. i - 1 \in 1..Len(way[h]) /\ i - 1 # Len(way[h]) /\ (i - 1) + 1 = i
  BY <1>2, <1>5
<1>7. parent[way[h][(i - 1) + 1]] = way[h][i - 1]
  BY <1>6, TreeWayParent
<1> QED
  BY <1>4, <1>6, <1>7

LEMMA UnderSplit ==
    ASSUME NEW way, TreeIs(way), NEW n \in vertices
    PROVE  /\ Under(n, way) = Below(left[n], way) \cup Below(right[n], way) \cup {n}
           /\ Below(left[n], way) \cap Below(right[n], way) = {}
           /\ n \notin Below(left[n], way) \cup Below(right[n], way)
<1>1. /\ TreeTypes /\ vertices \subseteq Vertices /\ NIL \notin vertices
      /\ Linked(vertices, left, right, parent, hash_key)
      /\ Ways(way, vertices, tree.head, left, right, hash_key)
      /\ \A m \in vertices : hash_key[m] \in HashKeys
  BY TreeIsFacts
<1>0. \A h \in HashKeys : Len(way[h]) \in Nat
  BY TreeWay
<1>2. ASSUME NEW m \in vertices
      PROVE  LET w == way[hash_key[m]]
             IN  /\ hash_key[m] \in HashKeys /\ Len(w) \in 1..Len(w) /\ w[Len(w)] = m
                 /\ Distinct(w)
  <2>1. hash_key[m] \in HashKeys /\ Distinct(way[hash_key[m]])
    BY <1>1, TreeWay
  <2>2. Len(way[hash_key[m]]) \in 1..Len(way[hash_key[m]])
        /\ way[hash_key[m]][Len(way[hash_key[m]])] = m
    BY TreeWayEnds
  <2> QED
    BY <2>1, <2>2
<1>3. ASSUME NEW m \in vertices, NEW c \in {left[n], right[n]}, m \in Below(c, way)
      PROVE  /\ c # NIL
             /\ \E i \in 1..Len(way[hash_key[m]]) :
                   /\ way[hash_key[m]][i] = c
                   /\ i - 1 \in 1..Len(way[hash_key[m]]) /\ way[hash_key[m]][i - 1] = n
  <2>1. c # NIL /\ c \in SetOf(way[hash_key[m]])
    BY <1>3 DEF Below, Under
  <2>2. PICK i \in 1..Len(way[hash_key[m]]) : way[hash_key[m]][i] = c
    BY <2>1 DEF SetOf
  <2>3. hash_key[m] \in HashKeys
    BY <1>1
  <2>4. i - 1 \in 1..Len(way[hash_key[m]]) /\ way[hash_key[m]][i - 1] = n
    BY <2>2, <2>3, WayBefore
  <2> QED
    BY <2>1, <2>2, <2>4
<1>4. ASSUME NEW m \in vertices, NEW c \in {left[n], right[n]}, m \in Below(c, way)
      PROVE  m \in Under(n, way) /\ m # n
  <2>1. PICK i \in 1..Len(way[hash_key[m]]) :
               i - 1 \in 1..Len(way[hash_key[m]]) /\ way[hash_key[m]][i - 1] = n
    BY <1>3, <1>4
  <2>2. n \in SetOf(way[hash_key[m]])
    BY <2>1 DEF SetOf
  <2>3. m # n
    <3> SUFFICES ASSUME m = n PROVE FALSE
      OBVIOUS
    <3>1. i - 1 = Len(way[hash_key[m]])
      BY <1>2, <2>1 DEF Distinct
    <3>2. Len(way[hash_key[m]]) \in Nat
      BY <1>0, <1>2
    <3> QED
      BY <2>1, <3>1, <3>2
  <2> QED
    BY <2>2, <2>3 DEF Under
<1>5. ASSUME NEW m \in Under(n, way), m # n
      PROVE  m \in Below(left[n], way) \/ m \in Below(right[n], way)
  <2>1. m \in vertices /\ hash_key[m] \in HashKeys
    BY <1>1 DEF Under
  <2> DEFINE w == way[hash_key[m]]
  <2>2. PICK i \in 1..Len(w) : w[i] = n
    BY <1>5 DEF Under, SetOf
  <2>3. i # Len(w)
    BY <1>2, <1>5, <2>1, <2>2
  <2>4. /\ i + 1 \in 1..Len(w)
        /\ w[i + 1] = left[w[i]] \/ w[i + 1] = right[w[i]]
    BY <2>1, <2>3, TreeWayParent
  <2>5. w[i + 1] \in vertices /\ w[i + 1] # NIL
    BY <1>1, <2>1, <2>4, TreeWay
  <2>6. w[i + 1] \in SetOf(w)
    BY <2>4, InSetOf
  <2>7. m \in Below(w[i + 1], way)
    BY <2>1, <2>5, <2>6 DEF Below, Under
  <2> QED
    BY <2>2, <2>4, <2>7
<1>6. n \in Under(n, way)
  <2>1. way[hash_key[n]][Len(way[hash_key[n]])] \in SetOf(way[hash_key[n]])
    BY <1>2, InSetOf
  <2> QED
    BY <1>2, <2>1 DEF Under
<1>7. \A c : Below(c, way) \subseteq vertices
  BY DEF Below, Under
<1>8. Under(n, way) = Below(left[n], way) \cup Below(right[n], way) \cup {n}
  <2>1. \A m \in Under(n, way) : m \in Below(left[n], way) \cup Below(right[n], way) \cup {n}
    BY <1>5
  <2>2. \A m \in Below(left[n], way) \cup Below(right[n], way) \cup {n} : m \in Under(n, way)
    BY <1>4, <1>6, <1>7
  <2> QED
    BY <2>1, <2>2
<1>9. n \notin Below(left[n], way) \cup Below(right[n], way)
  BY <1>4
<1>10. ASSUME NEW m, m \in Below(left[n], way), m \in Below(right[n], way)
       PROVE  FALSE
  <2>1. m \in vertices
    BY <1>7, <1>10
  <2>2. /\ left[n] # NIL
        /\ \E i \in 1..Len(way[hash_key[m]]) :
              /\ way[hash_key[m]][i] = left[n]
              /\ i - 1 \in 1..Len(way[hash_key[m]]) /\ way[hash_key[m]][i - 1] = n
    BY <1>3, <1>10, <2>1
  <2>3. /\ right[n] # NIL
        /\ \E i \in 1..Len(way[hash_key[m]]) :
              /\ way[hash_key[m]][i] = right[n]
              /\ i - 1 \in 1..Len(way[hash_key[m]]) /\ way[hash_key[m]][i - 1] = n
    BY <1>3, <1>10, <2>1
  <2>4. PICK i \in 1..Len(way[hash_key[m]]) :
              /\ way[hash_key[m]][i] = left[n]
              /\ i - 1 \in 1..Len(way[hash_key[m]]) /\ way[hash_key[m]][i - 1] = n
    BY <2>2
  <2>5. PICK j \in 1..Len(way[hash_key[m]]) :
              /\ way[hash_key[m]][j] = right[n]
              /\ j - 1 \in 1..Len(way[hash_key[m]]) /\ way[hash_key[m]][j - 1] = n
    BY <2>3
  <2>6. i - 1 = j - 1
    BY <1>2, <2>1, <2>4, <2>5 DEF Distinct
  <2>7. i = j
    BY <2>6
  <2>8. left[n] = right[n]
    BY <2>4, <2>5, <2>7
  <2> QED
    BY <1>1, <2>2, <2>8 DEF Linked
<1> QED
  BY <1>8, <1>9, <1>10

\* s is the nodes under c, each once.
ListsOnce(s, c, way) ==
    s \in Seq(vertices) /\ Distinct(s) /\ SetOf(s) = Below(c, way)

LEMMA AboveLists ==
    ASSUME NEW way, TreeIs(way), NEW g, NEW n \in vertices,
           left[n] # NIL => ListsOnce(g[left[n]], left[n], way),
           right[n] # NIL => ListsOnce(g[right[n]], right[n], way)
    PROVE  ListsOnce(Above(g)[n], n, way)
<1> DEFINE s == IF left[n] = NIL THEN <<>> ELSE g[left[n]]
           t == IF right[n] = NIL THEN <<>> ELSE g[right[n]]
           u == <<n>>
<1>1. Above(g)[n] = s \o t \o u
  BY DEF Above
<1>2. ListsOnce(<<>>, NIL, way)
  BY SetOfEmpty, EmptySeq DEF ListsOnce, Below, Distinct
<1>3. ListsOnce(s, left[n], way) /\ ListsOnce(t, right[n], way)
  BY <1>2
<1>4. u \in Seq(vertices) /\ Distinct(u) /\ SetOf(u) = {n}
  BY DEF Distinct, SetOf
<1> HIDE DEF s, t, u
<1>5. /\ Under(n, way) = Below(left[n], way) \cup Below(right[n], way) \cup {n}
      /\ Below(left[n], way) \cap Below(right[n], way) = {}
      /\ n \notin Below(left[n], way) \cup Below(right[n], way)
  BY UnderSplit
<1>6. s \in Seq(vertices) /\ t \in Seq(vertices) /\ Distinct(s) /\ Distinct(t)
      /\ SetOf(s) \cap SetOf(t) = {}
  BY <1>3, <1>5 DEF ListsOnce
<1>7. s \o t \in Seq(vertices) /\ Distinct(s \o t) /\ SetOf(s \o t) = SetOf(s) \cup SetOf(t)
  BY <1>6, DistinctConcat, SetOfConcat, ConcatProperties
<1> DEFINE r == s \o t
<1>8. r \in Seq(vertices) /\ Distinct(r) /\ SetOf(r) \cap SetOf(u) = {}
      /\ SetOf(r) = SetOf(s) \cup SetOf(t)
  BY <1>3, <1>4, <1>5, <1>7 DEF ListsOnce
<1> HIDE DEF r
<1>9. r \o u \in Seq(vertices) /\ Distinct(r \o u) /\ SetOf(r \o u) = SetOf(r) \cup SetOf(u)
  BY <1>4, <1>8, DistinctConcat, SetOfConcat, ConcatProperties
<1>10. n # NIL /\ Below(n, way) = Under(n, way)
  BY TreeIsFacts DEF Below
<1>11. SetOf(r \o u) = Below(n, way)
  BY <1>3, <1>4, <1>5, <1>8, <1>9, <1>10 DEF ListsOnce
<1> QED
  BY <1>1, <1>9, <1>11 DEF ListsOnce, r

\* The traversal of the tree comes by every node once.
LEMMA PostOrderLists ==
    ASSUME NEW way, TreeIs(way)
    PROVE  /\ PostOrder(tree.head) \in Seq(vertices)
           /\ Distinct(PostOrder(tree.head))
           /\ SetOf(PostOrder(tree.head)) = vertices
<1> DEFINE N == Cardinality(Vertices)
           Deep(n, k) == \A h \in HashKeys : \A i \in 1..Len(way[h]) :
                            way[h][i] = n => i + k >= N + 1
<1>1. /\ TreeTypes /\ vertices \subseteq Vertices /\ NIL \notin vertices
      /\ Linked(vertices, left, right, parent, hash_key)
      /\ Ways(way, vertices, tree.head, left, right, hash_key)
      /\ \A m \in vertices : hash_key[m] \in HashKeys
      /\ tree.head # NIL => tree.head \in vertices /\ parent[tree.head] = NIL
  BY TreeIsFacts
<1>2. N \in Nat
  BY TreeAssumption, FS_CardinalityType
<1>3. PICK f : /\ Orders(f, N)
               /\ PostOrder(tree.head) = IF tree.head = NIL THEN <<>> ELSE f[N][tree.head]
  BY <1>2, PostOrderIs
<1>4. \A h \in HashKeys : Len(way[h]) \in Nat /\ Len(way[h]) <= N
  <2>1. ASSUME NEW h \in HashKeys PROVE Len(way[h]) \in Nat /\ Len(way[h]) <= N
    <3>1. way[h] \in Seq(vertices) /\ Distinct(way[h]) /\ Len(way[h]) \in Nat
      BY TreeWay
    <3>2. way[h] \in Seq(Vertices)
      BY <1>1, <3>1, SeqSub
    <3> QED
      BY <3>1, <3>2, TreeAssumption, DistinctIsShort
  <2> QED
    BY <2>1
<1> HIDE DEF N, Deep
<1> DEFINE T == {k \in Nat : k <= N => \A n \in vertices : Deep(n, k) => ListsOnce(f[k][n], n, way)}
<1>5. 0 \in T
  <2>1. ASSUME NEW n \in vertices, Deep(n, 0) PROVE FALSE
    <3>1. /\ hash_key[n] \in HashKeys
          /\ Len(way[hash_key[n]]) \in 1..Len(way[hash_key[n]])
          /\ way[hash_key[n]][Len(way[hash_key[n]])] = n
      BY TreeWayEnds
    <3>2. Len(way[hash_key[n]]) + 0 >= N + 1
      BY <2>1, <3>1 DEF Deep
    <3> QED
      BY <1>2, <1>4, <3>1, <3>2
  <2> QED
    BY <2>1
<1>6. ASSUME NEW k \in Nat, k \in T PROVE k + 1 \in T
  <2> SUFFICES ASSUME k + 1 <= N, NEW n \in vertices, Deep(n, k + 1)
               PROVE  ListsOnce(f[k + 1][n], n, way)
    OBVIOUS
  <2>1. k + 1 \in 1..N /\ k <= N /\ (k + 1) - 1 = k
    BY <1>2
  <2>2. f[k + 1] = Above(f[k])
    BY <1>3, <2>1 DEF Orders
  <2>3. ASSUME NEW c \in {left[n], right[n]}, c # NIL PROVE c \in vertices /\ Deep(c, k)
    <3>1. c \in vertices
      BY <1>1, <2>3 DEF Linked
    <3>2. ASSUME NEW h \in HashKeys, NEW i \in 1..Len(way[h]), way[h][i] = c
          PROVE  i + k >= N + 1
      <4>1. i - 1 \in 1..Len(way[h]) /\ way[h][i - 1] = n
        BY <2>3, <3>2, WayBefore
      <4>2. (i - 1) + (k + 1) >= N + 1
        BY <4>1 DEF Deep
      <4> QED
        BY <1>2, <1>4, <4>2
    <3> QED
      BY <3>1, <3>2 DEF Deep
  <2>4. /\ left[n] # NIL => ListsOnce(f[k][left[n]], left[n], way)
        /\ right[n] # NIL => ListsOnce(f[k][right[n]], right[n], way)
    BY <1>6, <2>1, <2>3
  <2>5. ListsOnce(Above(f[k])[n], n, way)
    BY <2>4, AboveLists
  <2> QED
    BY <2>2, <2>5
<1> HIDE DEF T
<1>7. N \in T
  BY <1>2, <1>5, <1>6, Induction
<1> USE DEF T
<1>8. CASE tree.head = NIL
  <2>1. vertices = {}
    <3>1. ASSUME NEW n \in vertices PROVE FALSE
      <4>1. /\ hash_key[n] \in HashKeys
            /\ way[hash_key[n]] # <<>>
            /\ Len(way[hash_key[n]]) \in 1..Len(way[hash_key[n]])
        BY TreeWayEnds
      <4>2. tree.head = way[hash_key[n]][1] /\ 1 \in 1..Len(way[hash_key[n]])
            /\ way[hash_key[n]][1] \in vertices
        BY <4>1, TreeWay
      <4> QED
        BY <1>1, <1>8, <4>2
    <3> QED
      BY <3>1
  <2> QED
    BY <1>3, <1>8, <2>1, SetOfEmpty, EmptySeq DEF Distinct
<1>9. CASE tree.head # NIL
  <2>1. Deep(tree.head, N)
    <3>1. ASSUME NEW h \in HashKeys, NEW i \in 1..Len(way[h]) PROVE i + N >= N + 1
      BY <1>2, <1>4
    <3> QED
      BY <3>1 DEF Deep
  <2>2. ListsOnce(f[N][tree.head], tree.head, way)
    BY <1>1, <1>2, <1>7, <1>9, <2>1
  <2>3. Under(tree.head, way) = vertices
    <3>1. ASSUME NEW m \in vertices PROVE tree.head \in SetOf(way[hash_key[m]])
      <4>1. /\ hash_key[m] \in HashKeys
            /\ way[hash_key[m]] # <<>>
            /\ Len(way[hash_key[m]]) \in 1..Len(way[hash_key[m]])
        BY TreeWayEnds
      <4>2. tree.head = way[hash_key[m]][1] /\ 1 \in 1..Len(way[hash_key[m]])
        BY <4>1, TreeWay
      <4> QED
        BY <4>2, InSetOf
    <3> QED
      BY <3>1 DEF Under
  <2> QED
    BY <1>3, <1>9, <2>2, <2>3 DEF ListsOnce, Below
<1> QED
  BY <1>8, <1>9
LEMMA TreeInvWay ==
    ASSUME TreeInv, tree # NIL
    PROVE  \E way : TreeIs(way)
BY DEF TreeInv, TreeShape, TreeIs

LEMMA OrderFacts ==
    ASSUME TreeInv, tree # NIL
    PROVE  /\ PostOrder(tree.head) \in Seq(vertices)
           /\ Distinct(PostOrder(tree.head))
           /\ SetOf(PostOrder(tree.head)) = vertices
           /\ ToSet(PostOrder(tree.head)) = vertices
<1>1. PICK way : TreeIs(way)
  BY TreeInvWay
<1> DEFINE s == PostOrder(tree.head)
<1>2. s \in Seq(vertices) /\ Distinct(s) /\ SetOf(s) = vertices
  BY <1>1, PostOrderLists
<1> HIDE DEF s
<1>3. ToSet(s) = SetOf(s)
  BY <1>2, LenProperties DEF ToSet, SetOf
<1> QED
  BY <1>2, <1>3 DEF s

LEMMA TreeInvTyped == TreeInv => TreeTypeOK
<1> SUFFICES ASSUME TreeInv PROVE TreeTypeOK
  OBVIOUS
<1>1. TreeTypes /\ Linked(vertices, left, right, parent, hash_key)
  BY DEF TreeInv
<1>2. vertices = IF tree = NIL THEN {} ELSE ToSet(PostOrder(tree.head))
  BY OrderFacts DEF TreeInv, TreeShape
<1>3. ASSUME NEW n \in vertices, NEW c \in {left[n], right[n]} \ {NIL} PROVE parent[c] = n
  BY <1>1 DEF Linked
<1> QED
  BY <1>1, <1>2, <1>3 DEF TreeTypeOK, TreeTypes

LEMMA TreeInvInit == TreeInit => TreeInv
BY NilAssumption DEF TreeInit, Zeroed, TreeInv, TreeTypes, Linked, StoresIn, TreeShape

LEMMA TreeInvCreate ==
    ASSUME TreeInv, bt_init
    PROVE  TreeInv'
<1>1. /\ tree = NIL /\ tree' = [head |-> NIL] /\ vertices = {}
      /\ UNCHANGED <<left, right, parent, hash_key, payload, vertices>>
  BY DEF bt_init, nodeVars, TreeInv, TreeShape
<1>2. TreeTypes' /\ tree' # NIL /\ tree'.head = NIL
  BY <1>1, TreeRecord DEF TreeInv, TreeTypes
<1> DEFINE way == [h \in HashKeys |-> <<>>]
<1>3. Ways(way, vertices', tree'.head, left', right', hash_key')
  <2>1. way \in [HashKeys -> Seq(vertices')] /\ \A h \in HashKeys : way[h] = <<>>
    BY EmptySeq
  <2> HIDE DEF way
  <2> QED
    BY <1>1, <1>2, <2>1, ChainEmpty DEF Ways
<1> HIDE DEF way
<1>4. TreeShape'
  BY <1>2, <1>3 DEF TreeShape
<1> QED
  BY <1>1, <1>2, <1>4 DEF TreeInv

LEMMA TreeInvRelease ==
    ASSUME TreeInv, NEW release_data \in BOOLEAN, bt_release(release_data)
    PROVE  TreeInv'
<1>1. /\ tree # NIL /\ tree' = NIL /\ bt_node_release(tree.head)
  BY DEF bt_release
<1>2. ToSet(PostOrder(tree.head)) = vertices
  BY <1>1, OrderFacts
<1>3. /\ vertices' = {}
      /\ left' = [n \in Vertices |-> IF n \in vertices THEN NIL ELSE left[n]]
      /\ right' = [n \in Vertices |-> IF n \in vertices THEN NIL ELSE right[n]]
      /\ parent' = [n \in Vertices |-> IF n \in vertices THEN NIL ELSE parent[n]]
      /\ payload' = [n \in Vertices |-> IF n \in vertices THEN NIL ELSE payload[n]]
      /\ hash_key' = [n \in Vertices |-> IF n \in vertices THEN 0 ELSE hash_key[n]]
  BY <1>1, <1>2 DEF bt_node_release
<1>4. TreeTypes /\ Linked(vertices, left, right, parent, hash_key)
  BY DEF TreeInv
<1>5. TreeTypes'
  BY <1>1, <1>3, <1>4 DEF TreeTypes
<1>6. \A n \in Vertices : left'[n] = NIL /\ right'[n] = NIL
  BY <1>3, <1>4 DEF Linked
<1>7. Linked(vertices', left', right', parent', hash_key')
  BY <1>3, <1>6 DEF Linked
<1>8. StoresIn(vertices', payload') /\ TreeShape'
  BY <1>1, <1>3 DEF StoresIn, TreeShape
<1> QED
  BY <1>5, <1>7, <1>8 DEF TreeInv

LEMMA TreeInvReplace ==
    ASSUME TreeInv, NEW h \in HashKeys, NEW ptr \in Payloads, bt_node_set(h, ptr), Found(h)
    PROVE  /\ TreeInv' /\ tree' = tree /\ vertices' = vertices /\ hash_key' = hash_key
           /\ Last(Path(h)) \in vertices /\ hash_key[Last(Path(h))] = h
           /\ payload' = [payload EXCEPT ![Last(Path(h))] = ptr]
<1> DEFINE n == Last(Path(h))
<1>1. /\ tree # NIL /\ ptr \notin {payload[m] : m \in vertices}
      /\ payload' = [payload EXCEPT ![n] = ptr]
      /\ UNCHANGED <<tree, left, right, parent, hash_key, vertices>>
  BY DEF bt_node_set
<1>2. PICK way : Ways(way, vertices, tree.head, left, right, hash_key)
  BY <1>1 DEF TreeInv, TreeShape
<1>3. tree.head # NIL
  BY DEF Found
<1>4. n \in vertices /\ hash_key[n] = h
  BY <1>1, <1>2, <1>3, FoundIs
<1> HIDE DEF n
<1>5. TreeTypes /\ StoresIn(vertices, payload) /\ TreeShape
      /\ Linked(vertices, left, right, parent, hash_key)
  BY DEF TreeInv
<1>6. TreeTypes'
  BY <1>1, <1>5 DEF TreeTypes
<1>7. StoresIn(vertices', payload')
  BY <1>1, <1>4, <1>5 DEF StoresIn, TreeTypes
<1>8. Linked(vertices', left', right', parent', hash_key') /\ TreeShape'
  BY <1>1, <1>5 DEF TreeShape
<1>9. TreeInv'
  BY <1>6, <1>7, <1>8 DEF TreeInv
<1> QED
  BY <1>1, <1>4, <1>9 DEF n
\* What a set without a match does to the nodes: n goes below last, or alone.
Grows(n, last, h, ptr) ==
    /\ n \in Vertices /\ n \notin vertices
    /\ vertices' = vertices \cup {n}
    /\ hash_key' = [hash_key EXCEPT ![n] = h]
    /\ payload' = [payload EXCEPT ![n] = ptr]
    /\ parent' = [parent EXCEPT ![n] = last]
    /\ tree' = IF last = NIL THEN [head |-> n] ELSE tree
    /\ right' = IF last # NIL /\ hash_key[last] > h THEN [right EXCEPT ![last] = n] ELSE right
    /\ left' = IF last # NIL /\ hash_key[last] < h THEN [left EXCEPT ![last] = n] ELSE left

LEMMA GrowIs ==
    ASSUME TreeInv, NEW h \in HashKeys, NEW ptr \in Payloads, bt_node_set(h, ptr), ~Found(h)
    PROVE  /\ tree # NIL /\ ptr \notin {payload[m] : m \in vertices}
           /\ \A m \in vertices : hash_key[m] # h
           /\ \E n : Grows(n, IF tree.head = NIL THEN NIL ELSE Last(Path(h)), h, ptr)
<1>1. tree # NIL /\ ptr \notin {payload[m] : m \in vertices} /\ Grow(h, ptr)
  BY DEF bt_node_set
<1>2. PICK way : Ways(way, vertices, tree.head, left, right, hash_key)
  BY <1>1 DEF TreeInv, TreeShape
<1>3. \A m \in vertices : hash_key[m] # h
  BY <1>1, <1>2, FoundIs
<1> DEFINE n == CHOOSE v \in Vertices : v \notin vertices
           last == IF tree.head = NIL THEN NIL ELSE Last(Path(h))
<1>4. n \in Vertices /\ n \notin vertices
  <2>1. vertices # Vertices /\ vertices \subseteq Vertices
    BY <1>1 DEF Grow, TreeInv, TreeTypes
  <2>2. \E v \in Vertices : v \notin vertices
    BY <2>1
  <2> QED
    BY <2>2, Zenon
<1>5. Grows(n, last, h, ptr)
  BY <1>1, <1>4, Zenon DEF Grow, Grows
<1> QED
  BY <1>1, <1>3, <1>5

LEMMA TreeInvGrowFirst ==
    ASSUME TreeInv, NEW h \in HashKeys, NEW ptr \in Payloads, tree # NIL, tree.head = NIL,
           NEW n, Grows(n, NIL, h, ptr)
    PROVE  TreeInv'
<1>1. PICK way : Ways(way, vertices, tree.head, left, right, hash_key)
  BY DEF TreeInv, TreeShape
<1>2. vertices = {}
  BY <1>1, FoundIs
<1>3. /\ n \in Vertices /\ vertices' = {n} /\ n # NIL
      /\ hash_key' = [hash_key EXCEPT ![n] = h]
      /\ payload' = [payload EXCEPT ![n] = ptr]
      /\ parent' = [parent EXCEPT ![n] = NIL]
      /\ tree' = [head |-> n] /\ right' = right /\ left' = left
  BY <1>2, NilAssumption DEF Grows
<1>4. TreeTypes /\ \A m \in Vertices : left[m] = NIL /\ right[m] = NIL
  BY <1>2 DEF TreeInv, Linked
<1>5. TreeTypes' /\ tree' # NIL /\ tree'.head = n
  BY <1>3, <1>4, TreeRecord DEF TreeTypes
<1>6. hash_key'[n] = h /\ payload'[n] = ptr /\ parent'[n] = NIL
  BY <1>3, <1>4 DEF TreeTypes
<1>7. Linked(vertices', left', right', parent', hash_key') /\ StoresIn(vertices', payload')
  BY <1>3, <1>4, <1>6 DEF Linked, StoresIn
<1> DEFINE one == <<n>>
           way2 == [k \in HashKeys |-> one]
<1>8. /\ one \in Seq(vertices') /\ Len(one) = 1 /\ one[1] = n /\ one # <<>>
      /\ Distinct(one)
  BY <1>3 DEF Distinct
<1>9. way2 \in [HashKeys -> Seq(vertices')] /\ \A k \in HashKeys : way2[k] = one
  BY <1>8
<1> HIDE DEF one, way2
<1>10. ASSUME NEW k \in HashKeys
       PROVE  IsChain(one, Turns(k, left', right', hash_key'), n, NIL)
  <2>1. Turns(k, left', right', hash_key')[n] = NIL
    BY <1>3, <1>4 DEF Turns
  <2>2. \A i \in 1..Len(one) : i = 1
    BY <1>8
  <2> QED
    BY <1>8, <2>1, <2>2 DEF IsChain
<1>11. Ways(way2, vertices', tree'.head, left', right', hash_key')
  BY <1>3, <1>5, <1>6, <1>8, <1>9, <1>10 DEF Ways
<1>12. TreeShape'
  BY <1>3, <1>5, <1>6, <1>11 DEF TreeShape
<1> QED
  BY <1>5, <1>7, <1>12 DEF TreeInv

\* A search comes by the new node where it would have ended at last.
Turned(k, h, last) ==
    \/ hash_key[last] > h /\ hash_key[last] > k
    \/ hash_key[last] < h /\ hash_key[last] < k

LEMMA TreeInvGrowBelow ==
    ASSUME TreeInv, NEW h \in HashKeys, NEW ptr \in Payloads, tree # NIL, tree.head # NIL,
           ptr \notin {payload[m] : m \in vertices}, \A m \in vertices : hash_key[m] # h,
           NEW n, NEW last, last = Last(Path(h)), Grows(n, last, h, ptr)
    PROVE  TreeInv'
<1>1. PICK way : TreeIs(way)
  BY TreeInvWay
<1>2. /\ TreeTypes /\ vertices \subseteq Vertices /\ NIL \notin vertices
      /\ Linked(vertices, left, right, parent, hash_key)
      /\ Ways(way, vertices, tree.head, left, right, hash_key)
      /\ \A m \in vertices : hash_key[m] \in HashKeys
      /\ tree.head \in vertices /\ parent[tree.head] = NIL
  BY <1>1, TreeIsFacts
<1>3. /\ last \in vertices /\ last # NIL
      /\ Len(way[h]) \in 1..Len(way[h]) /\ way[h][Len(way[h])] = last
      /\ \A k \in HashKeys : way[k] # <<>>
  <2>1. /\ last \in vertices
        /\ Len(way[h]) \in 1..Len(way[h]) /\ way[h][Len(way[h])] = last
    BY <1>2, FoundIs
  <2>2. \A k \in HashKeys : way[k] # <<>>
    BY <1>2, FoundIs
  <2> QED
    BY <1>2, <2>1, <2>2
<1>4. /\ n \in Vertices /\ n \notin vertices /\ n # NIL /\ n # last
      /\ vertices' = vertices \cup {n}
      /\ hash_key' = [hash_key EXCEPT ![n] = h]
      /\ payload' = [payload EXCEPT ![n] = ptr]
      /\ parent' = [parent EXCEPT ![n] = last]
      /\ tree' = tree
      /\ right' = IF hash_key[last] > h THEN [right EXCEPT ![last] = n] ELSE right
      /\ left' = IF hash_key[last] < h THEN [left EXCEPT ![last] = n] ELSE left
  BY <1>3, NilAssumption DEF Grows
<1>5. /\ hash_key[last] \in Nat /\ h \in Nat /\ hash_key[last] # h
      /\ \A k \in HashKeys : k \in Nat
  BY <1>2, <1>3, TreeAssumption
<1>6. Turns(h, left, right, hash_key)[last] = NIL
  <2>1. IsChain(way[h], Turns(h, left, right, hash_key), tree.head, NIL)
    BY <1>2 DEF Ways
  <2> QED
    BY <1>3, <2>1 DEF IsChain
<1>7. /\ hash_key[last] > h => right[last] = NIL
      /\ hash_key[last] < h => left[last] = NIL
  BY <1>2, <1>3, <1>5, <1>6 DEF Turns
<1>8. TreeTypes'
  BY <1>2, <1>3, <1>4 DEF TreeTypes
<1>9. /\ hash_key'[n] = h /\ payload'[n] = ptr /\ parent'[n] = last
      /\ \A m \in vertices : /\ hash_key'[m] = hash_key[m] /\ payload'[m] = payload[m]
                             /\ parent'[m] = parent[m]
      /\ left[n] = NIL /\ right[n] = NIL /\ left'[n] = NIL /\ right'[n] = NIL
  BY <1>2, <1>4 DEF TreeTypes, Linked
<1>10. /\ \A m \in Vertices \ {last} : left'[m] = left[m] /\ right'[m] = right[m]
       /\ right'[last] = IF hash_key[last] > h THEN n ELSE right[last]
       /\ left'[last] = IF hash_key[last] < h THEN n ELSE left[last]
  BY <1>2, <1>3, <1>4 DEF TreeTypes
<1>11. Linked(vertices', left', right', parent', hash_key')
  <2>1. \A m \in vertices' : hash_key'[m] \in HashKeys
    BY <1>2, <1>4, <1>9
  <2>2. \A m \in vertices' : left'[m] # NIL => left'[m] \in vertices' /\ parent'[left'[m]] = m
    BY <1>2, <1>3, <1>4, <1>9, <1>10 DEF Linked
  <2>3. \A m \in vertices' : right'[m] # NIL => right'[m] \in vertices' /\ parent'[right'[m]] = m
    BY <1>2, <1>3, <1>4, <1>9, <1>10 DEF Linked
  <2>4. \A m \in vertices' : left'[m] = NIL \/ left'[m] # right'[m]
    <3>1. CASE hash_key[last] > h
      <4>1. left'[last] = left[last] /\ right'[last] = n /\ left[last] # n
        BY <1>2, <1>3, <1>4, <1>5, <1>10, <3>1 DEF Linked
      <4> QED
        BY <1>2, <1>4, <1>9, <1>10, <4>1 DEF Linked
    <3>2. CASE hash_key[last] < h
      <4>1. right'[last] = right[last] /\ left'[last] = n /\ right[last] # n
        BY <1>2, <1>3, <1>4, <1>5, <1>10, <3>2 DEF Linked
      <4> QED
        BY <1>2, <1>4, <1>9, <1>10, <4>1 DEF Linked
    <3> QED
      BY <1>5, <3>1, <3>2
  <2>5. \A m \in Vertices \ vertices' : left'[m] = NIL /\ right'[m] = NIL
    BY <1>2, <1>3, <1>4, <1>10 DEF Linked
  <2> QED
    BY <2>1, <2>2, <2>3, <2>4, <2>5 DEF Linked
<1>12. StoresIn(vertices', payload')
  <2>1. StoresIn(vertices, payload)
    BY DEF TreeInv
  <2> QED
    BY <1>4, <1>9, <2>1 DEF StoresIn
<1> DEFINE Old(k) == Turns(k, left, right, hash_key)
           New(k) == Turns(k, left', right', hash_key')
<1>13. ASSUME NEW k \in HashKeys
       PROVE  /\ New(k)[n] = NIL
              /\ \A m \in vertices \ {last} : New(k)[m] = Old(k)[m]
              /\ New(k)[last] = IF Turned(k, h, last) THEN n ELSE Old(k)[last]
              /\ Turned(k, h, last) => Old(k)[last] = NIL
  <2>1. New(k)[n] = NIL
    BY <1>4, <1>9 DEF Turns
  <2>2. \A m \in vertices \ {last} : New(k)[m] = Old(k)[m]
    BY <1>2, <1>9, <1>10 DEF Turns
  <2>3. New(k)[last] = IF hash_key[last] > k THEN right'[last]
                       ELSE IF hash_key[last] < k THEN left'[last] ELSE NIL
    BY <1>2, <1>3, <1>9 DEF Turns
  <2>4. Old(k)[last] = IF hash_key[last] > k THEN right[last]
                       ELSE IF hash_key[last] < k THEN left[last] ELSE NIL
    BY <1>2, <1>3 DEF Turns
  <2> HIDE DEF Old, New
  <2>5. k \in Nat
    BY <1>5
  <2>6. Turned(k, h, last) => New(k)[last] = n /\ Old(k)[last] = NIL
    BY <1>5, <1>7, <1>10, <2>3, <2>4, <2>5 DEF Turned
  <2>7. ~Turned(k, h, last) => New(k)[last] = Old(k)[last]
    BY <1>5, <1>10, <2>3, <2>4, <2>5 DEF Turned
  <2> QED
    BY <2>1, <2>2, <2>6, <2>7
<1> HIDE DEF Old, New
<1> DEFINE Goes(k) == last \in SetOf(way[k]) /\ Turned(k, h, last)
           way2 == [k \in HashKeys |-> IF Goes(k) THEN Append(way[k], n) ELSE way[k]]
<1>14. ASSUME NEW k \in HashKeys
       PROVE  /\ way[k] \in Seq(vertices) /\ way[k] \in Seq(vertices') /\ Len(way[k]) \in Nat
              /\ way[k] # <<>> /\ Distinct(way[k]) /\ SetOf(way[k]) \subseteq vertices
              /\ IsChain(way[k], Old(k), tree.head, NIL)
              /\ Append(way[k], n) \in Seq(vertices')
  <2>1. /\ way[k] \in Seq(vertices) /\ Len(way[k]) \in Nat /\ Distinct(way[k])
        /\ IsChain(way[k], Old(k), tree.head, NIL)
    BY <1>1, <1>2, TreeWay DEF Ways, Old
  <2>2. way[k] \in Seq(vertices')
    BY <1>4, <2>1, SeqSub
  <2>3. Append(way[k], n) \in Seq(vertices')
    BY <1>4, <2>2, AppendProperties
  <2> QED
    BY <1>3, <2>1, <2>2, <2>3, SetOfIn
<1>15. ASSUME NEW k \in HashKeys, Goes(k)
       PROVE  way[k][Len(way[k])] = last /\ Len(way[k]) \in 1..Len(way[k])
  <2>1. PICK i \in 1..Len(way[k]) : way[k][i] = last
    BY <1>15 DEF SetOf
  <2>2. Old(k)[way[k][i]] = IF i = Len(way[k]) THEN NIL ELSE way[k][i + 1]
    BY <1>14 DEF IsChain
  <2>3. Old(k)[way[k][i]] = NIL
    BY <1>13, <1>15, <2>1
  <2>4. i = Len(way[k])
    <3> SUFFICES ASSUME i # Len(way[k]) PROVE FALSE
      OBVIOUS
    <3>1. i + 1 \in 1..Len(way[k])
      BY <1>14, NextIndex
    <3>2. way[k][i + 1] \in vertices
      BY <1>14, <3>1, InSetOf
    <3> QED
      BY <1>2, <2>2, <2>3, <3>2
  <2> QED
    BY <2>1, <2>4
<1>16. ASSUME NEW k \in HashKeys, Goes(k)
       PROVE  IsChain(Append(way[k], n), New(k), tree.head, NIL)
  <2>1. \A i \in 1..Len(way[k]) - 1 : New(k)[way[k][i]] = Old(k)[way[k][i]]
    <3> SUFFICES ASSUME NEW i \in 1..Len(way[k]) - 1
                 PROVE  New(k)[way[k][i]] = Old(k)[way[k][i]]
      OBVIOUS
    <3>1. i \in 1..Len(way[k]) /\ i # Len(way[k])
      BY <1>14
    <3>2. way[k][i] # last
      BY <1>14, <1>15, <1>16, <3>1 DEF Distinct
    <3>3. way[k][i] \in vertices
      BY <1>14, <3>1, InSetOf
    <3> QED
      BY <1>13, <3>2, <3>3
  <2>2. New(k)[n] = NIL /\ New(k)[way[k][Len(way[k])]] = n
    BY <1>13, <1>15, <1>16
  <2>3. n \notin SetOf(way[k]) /\ n \in vertices'
    BY <1>4, <1>14
  <2>4. way[k] \in Seq(vertices') /\ way[k] # <<>> /\ IsChain(way[k], Old(k), tree.head, NIL)
    BY <1>14
  <2> QED
    BY <2>1, <2>2, <2>3, <2>4, ChainAppend
<1>17. ASSUME NEW k \in HashKeys, ~Goes(k)
       PROVE  IsChain(way[k], New(k), tree.head, NIL)
  <2>1. \A i \in 1..Len(way[k]) : New(k)[way[k][i]] = Old(k)[way[k][i]]
    <3> SUFFICES ASSUME NEW i \in 1..Len(way[k])
                 PROVE  New(k)[way[k][i]] = Old(k)[way[k][i]]
      OBVIOUS
    <3>1. way[k][i] \in SetOf(way[k])
      BY InSetOf
    <3>2. way[k][i] \in vertices
      BY <1>14, <3>1
    <3>3. CASE way[k][i] # last
      BY <1>13, <3>2, <3>3
    <3>4. CASE way[k][i] = last
      <4>1. ~Turned(k, h, last)
        BY <1>17, <3>1, <3>4
      <4> QED
        BY <1>13, <3>4, <4>1
    <3> QED
      BY <3>3, <3>4
  <2>2. way[k] \in Seq(vertices) /\ IsChain(way[k], Old(k), tree.head, NIL)
    BY <1>14
  <2> QED
    BY <2>1, <2>2, ChainSame
<1> HIDE DEF Goes
<1>18. \A k \in HashKeys : way2[k] = IF Goes(k) THEN Append(way[k], n) ELSE way[k]
  OBVIOUS
<1>19. way2 \in [HashKeys -> Seq(vertices')]
  BY <1>14
<1> HIDE DEF way2
<1>20. \A k \in HashKeys : IsChain(way2[k], New(k), tree.head, NIL)
  BY <1>16, <1>17, <1>18
<1>21. ASSUME NEW m \in vertices
       PROVE  way2[hash_key[m]] # <<>> /\ way2[hash_key[m]][Len(way2[hash_key[m]])] = m
  <2> DEFINE k == hash_key[m]
  <2>1. k \in HashKeys /\ way[k] # <<>> /\ way[k][Len(way[k])] = m
    BY <1>1, TreeWayEnds
  <2>2. ~Goes(k)
    <3> SUFFICES ASSUME Goes(k) PROVE FALSE
      OBVIOUS
    <3>1. m = last
      BY <1>15, <2>1
    <3>2. Turned(hash_key[last], h, last)
      BY <3>1 DEF Goes
    <3> QED
      BY <1>5, <3>2 DEF Turned
  <2> HIDE DEF k
  <2>3. way2[k] = way[k]
    BY <1>18, <2>1, <2>2
  <2> QED
    BY <2>1, <2>3 DEF k
<1>22. way2[h] # <<>> /\ way2[h][Len(way2[h])] = n
  <2>1. Goes(h)
    <3>1. last \in SetOf(way[h])
      BY <1>3, InSetOf
    <3>2. Turned(h, h, last)
      BY <1>5 DEF Turned
    <3> QED
      BY <3>1, <3>2 DEF Goes
  <2>2. way2[h] = Append(way[h], n)
    BY <1>18, <2>1
  <2>3. way[h] \in Seq(vertices') /\ n \in vertices'
    BY <1>4, <1>14
  <2> QED
    BY <2>2, <2>3, AppendProperties, EmptySeq
<1>23. Ways(way2, vertices', tree'.head, left', right', hash_key')
  <2>1. \A m \in vertices' : /\ way2[hash_key'[m]] # <<>>
                             /\ way2[hash_key'[m]][Len(way2[hash_key'[m]])] = m
    BY <1>4, <1>9, <1>21, <1>22
  <2> QED
    BY <1>4, <1>19, <1>20, <2>1 DEF Ways, New
<1>24. TreeShape'
  <2>1. tree' # NIL /\ tree'.head \in vertices' /\ parent'[tree'.head] = NIL
    BY <1>2, <1>4, <1>9
  <2> QED
    BY <1>23, <2>1 DEF TreeShape
<1> QED
  BY <1>8, <1>11, <1>12, <1>24 DEF TreeInv

LEMMA TreeInvSet ==
    ASSUME TreeInv, NEW h \in HashKeys, NEW ptr \in Payloads, bt_node_set(h, ptr)
    PROVE  TreeInv'
<1>1. CASE Found(h)
  BY <1>1, TreeInvReplace
<1>2. CASE ~Found(h)
  <2>1. /\ tree # NIL /\ ptr \notin {payload[m] : m \in vertices}
        /\ \A m \in vertices : hash_key[m] # h
        /\ \E n : Grows(n, IF tree.head = NIL THEN NIL ELSE Last(Path(h)), h, ptr)
    BY <1>2, GrowIs
  <2>2. CASE tree.head = NIL
    BY <2>1, <2>2, TreeInvGrowFirst
  <2>3. CASE tree.head # NIL
    BY <2>1, <2>3, TreeInvGrowBelow
  <2> QED
    BY <2>2, <2>3
<1> QED
  BY <1>1, <1>2

LEMMA TreeInvStays ==
    ASSUME TreeInv, UNCHANGED <<tree, nodeVars>>
    PROVE  TreeInv'
BY DEF nodeVars, TreeInv, TreeTypes, TreeShape

LEMMA TreeInvNext ==
    ASSUME TreeInv, [TreeNext]_treeVars
    PROVE  TreeInv'
<1>1. CASE bt_init
  BY <1>1, TreeInvCreate
<1>2. CASE bt_node_left
  BY <1>2, TreeInvStays DEF bt_node_left
<1>3. CASE bt_node_traverse
  BY <1>3, TreeInvStays DEF bt_node_traverse
<1>4. ASSUME NEW h \in HashKeys, bt_node_get(h) PROVE TreeInv'
  BY <1>4, TreeInvStays DEF bt_node_get
<1>5. ASSUME NEW h \in HashKeys, NEW ptr \in Payloads, bt_node_set(h, ptr) PROVE TreeInv'
  BY <1>5, TreeInvSet
<1>6. ASSUME NEW release_data \in BOOLEAN, bt_release(release_data) PROVE TreeInv'
  BY <1>6, TreeInvRelease
<1>7. CASE UNCHANGED treeVars
  BY <1>7, TreeInvStays DEF treeVars
<1> QED
  BY <1>1, <1>2, <1>3, <1>4, <1>5, <1>6, <1>7 DEF TreeNext
-----------------------------------------------------------------------------
(* All containers, one of them in use.                                      *)

AllInv == LInv /\ LinesInv /\ TreeInv /\ VecInv

LEMMA AllInvInit == ContainersInit => AllInv
BY LInvInit, LinesInvInit, TreeInvInit, VecInvInit DEF ContainersInit, AllInv

LEMMA StepOfEach ==
    ASSUME [ContainersNext]_allVars
    PROVE  [Next]_vars /\ [LinesNext]_lineVars /\ [TreeNext]_treeVars /\ [VecNext]_vecVars
BY DEF ContainersNext, Only, allVars

LEMMA AllInvNext ==
    ASSUME ~ReleasesBoth, AllInv, [ContainersNext]_allVars
    PROVE  AllInv'
<1>1. [Next]_vars /\ [LinesNext]_lineVars /\ [TreeNext]_treeVars /\ [VecNext]_vecVars
  BY StepOfEach
<1> USE DEF AllInv
<1>2. LInv'
  BY <1>1, LInvNext
<1>3. LinesInv'
  BY <1>1, LinesInvNext
<1>4. TreeInv'
  BY <1>1, TreeInvNext
<1>5. VecInv'
  BY <1>1, VecInvNext
<1> QED
  BY <1>2, <1>3, <1>4, <1>5

LEMMA AllInvTyped == AllInv => ContainersTypeOK
BY LinesInvTyped, TreeInvTyped DEF AllInv, LInv, VecInv, ContainersTypeOK

(* In every state of any sequence of calls on the containers the fields of  *)
(* their nodes have their types, no line or tree leads to a node that was   *)
(* released, the nodes allocated for the tree are those a traversal comes   *)
(* by, and the sizes are those of what is held, as long as no list that was *)
(* merged away is released.                                                 *)
THEOREM ContainersTyped ==
    ASSUME ~ReleasesBoth
    PROVE  ContainersSpec => []ContainersTypeOK
<1>1. ContainersInit => AllInv
  BY AllInvInit
<1>2. AllInv /\ [ContainersNext]_allVars => AllInv'
  BY AllInvNext
<1>3. AllInv => ContainersTypeOK
  BY AllInvTyped
<1> QED
  BY <1>1, <1>2, <1>3, PTL DEF ContainersSpec
-----------------------------------------------------------------------------
(* The queue and the stack implement the lines of the collections.          *)

LinesOf(ls, ch, th) == [q \in Kinds |-> IF ls[q] = VOID THEN VOID ELSE ItemsIn(ch[q], th)]

LinesNow  == [q \in Kinds |-> IF line[q] = VOID THEN VOID ELSE ThingsOf(q)]
ArrayNow  == IF vec = NOVEC THEN VOID ELSE vec.ptr
LentNow   == IF borrowed = NOVEC THEN VOID ELSE IF moved THEN 0 ELSE borrowed + 1
AnswerNow == [lines |-> line_out, dict |-> tree_out, array |-> vec_out]

LinesAre == LinesNow = LinesOf(line, Chains, thing)

LEMMA LinesAreRead == LinesInv => LinesAre
<1> SUFFICES ASSUME LinesInv PROVE LinesAre
  OBVIOUS
<1>1. ASSUME NEW q \in Kinds, line[q] # VOID PROVE ThingsOf(q) = ItemsIn(Chains[q], thing)
  <2>1. CellsOf(q) = Chains[q] /\ Chains[q] \in Seq(Cells)
    BY <1>1, LinesFacts
  <2> DEFINE s == Chains[q]
  <2>2. ThingsOf(q) = [k \in DOMAIN s |-> thing[s[k]]]
    BY <2>1 DEF ThingsOf
  <2>3. s \in Seq(Cells)
    BY <2>1
  <2> HIDE DEF s
  <2>4. DOMAIN s = 1..Len(s)
    BY <2>3, LenProperties
  <2>5. ThingsOf(q) = ItemsIn(s, thing)
    BY <2>2, <2>4 DEF ItemsIn
  <2> QED
    BY <2>5 DEF s
<1> QED
  BY <1>1 DEF LinesAre, LinesNow, LinesOf

LEMMA ThingsAreNotVoid ==
    ASSUME NEW s \in Seq(Cells), NEW th \in [Cells -> Things \cup {VOID}]
    PROVE  ItemsIn(s, th) # VOID
<1>1. Len(s) \in Nat /\ \A i \in 1..Len(s) : s[i] \in Cells
  BY LenProperties
<1>2. ItemsIn(s, th) \in [1..Len(s) -> Things \cup {VOID}]
  BY <1>1 DEF ItemsIn
<1>3. ItemsIn(s, th) \in Seq(Things \cup {VOID})
  BY <1>1, <1>2, SeqDef
<1> QED
  BY <1>3, VoidAssumption

\* A call on q leaves the other line as it is.
LEMMA LinesStep ==
    ASSUME LinesAre, LinesAre', NEW q \in Kinds, NEW val,
           \A r \in Kinds \ {q} : /\ line'[r] = line[r]
                                  /\ ItemsIn(Chains'[r], thing') = ItemsIn(Chains[r], thing),
           val = IF line'[q] = VOID THEN VOID ELSE ItemsIn(Chains'[q], thing')
    PROVE  LinesNow' = [LinesNow EXCEPT ![q] = val]
<1>1. LinesNow = [r \in Kinds |-> IF line[r] = VOID THEN VOID ELSE ItemsIn(Chains[r], thing)]
  BY DEF LinesAre, LinesOf
<1>2. LinesNow' = [r \in Kinds |-> IF line'[r] = VOID THEN VOID ELSE ItemsIn(Chains'[r], thing')]
  BY DEF LinesAre, LinesOf
<1> QED
  BY <1>1, <1>2

\* The call is on the queue or the stack.
OnlyLines ==
    UNCHANGED <<tree, nodeVars, tree_out, vec, borrowed, moved, vec_out>>

LEMMA OnlyLinesIs ==
    ASSUME OnlyLines
    PROVE  /\ Dict' = Dict /\ ArrayNow' = ArrayNow /\ LentNow' = LentNow
           /\ AnswerNow' = [AnswerNow EXCEPT !["lines"] = line_out']
<1>1. Dict' = Dict
  BY DEF OnlyLines, nodeVars, Dict
<1>2. ArrayNow' = ArrayNow
  BY DEF OnlyLines, ArrayNow
<1>3. LentNow' = LentNow
  <2>1. vec' = vec /\ borrowed' = borrowed /\ moved' = moved
    BY DEF OnlyLines
  <2> QED
    BY <2>1, Zenon DEF LentNow
<1>4. AnswerNow' = [AnswerNow EXCEPT !["lines"] = line_out']
  <2>1. tree_out' = tree_out /\ vec_out' = vec_out
    BY DEF OnlyLines
  <2> QED
    BY <2>1 DEF AnswerNow
<1> QED
  BY <1>1, <1>2, <1>3, <1>4

LEMMA ChainsTyped ==
    ASSUME LinesInv
    PROVE  /\ Chains \in [Kinds -> Seq(Cells)] /\ thing \in [Cells -> Things \cup {VOID}]
           /\ \A q \in Kinds : SetOf(Chains[q]) \subseteq cells
           /\ \A q, r \in Kinds : q # r => SetOf(Chains[q]) \cap SetOf(Chains[r]) = {}
           /\ line \in [Kinds -> {VOID} \cup Heads]
BY LinesFacts DEF LineTypes

LEMMA RefineLineInit ==
    ASSUME LinesInv, LinesAre, LinesAre', OnlyLines, NEW q \in Kinds, line_init(q)
    PROVE  Promised!LinesCreate(q)
<1>1. Chains' = [Chains EXCEPT ![q] = <<>>] /\ line'[q] # VOID
  BY LineInitKeeps
<1>2. /\ line[q] = VOID /\ thing' = thing /\ line_out' = <<"init", q>>
      /\ line' = [line EXCEPT ![q] = [head |-> VOID, top |-> VOID, size |-> 0]]
  BY DEF line_init
<1>3. Chains \in [Kinds -> Seq(Cells)] /\ line \in [Kinds -> {VOID} \cup Heads]
  BY ChainsTyped
<1>4. ItemsIn(Chains'[q], thing') = <<>>
  <2>1. Chains'[q] = <<>>
    BY <1>1, <1>3
  <2> QED
    BY <2>1 DEF ItemsIn
<1>5. \A r \in Kinds \ {q} : Chains'[r] = Chains[r] /\ line'[r] = line[r]
  BY <1>1, <1>2, <1>3
<1>6. LinesNow' = [LinesNow EXCEPT ![q] = <<>>]
  BY <1>1, <1>2, <1>4, <1>5, LinesStep
<1>7. LinesNow[q] = VOID
  BY <1>2 DEF LinesNow
<1>8. /\ Dict' = Dict /\ ArrayNow' = ArrayNow /\ LentNow' = LentNow
      /\ AnswerNow' = [AnswerNow EXCEPT !["lines"] = <<"init", q>>]
  BY <1>2, OnlyLinesIs
<1> QED
  BY <1>6, <1>7, <1>8
     DEF LinesNow, ArrayNow, LentNow, AnswerNow,
         Promised!LinesCreate, Promised!OnLines, Promised!Answer

LEMMA RefineLinePush ==
    ASSUME LinesInv, LinesAre, LinesAre', OnlyLines, NEW c \in Things \cup {VOID}, NEW n \in Cells,
           NEW q \in Kinds,
           \/ q = "fifo" /\ fifo_push(c, n)
           \/ q = "lifo" /\ lifo_push(c, n)
    PROVE  Promised!LinesPush(q, c)
<1> DEFINE s == Chains[q]
           one == <<n>>
           s2 == IF q = "fifo" THEN Append(s, n) ELSE one \o s
<1>1. /\ line[q] # VOID /\ n \notin cells /\ LinesInv' /\ Chains' = [Chains EXCEPT ![q] = s2]
  BY FifoPushKeeps, LifoPushKeeps
<1>2. thing' = [thing EXCEPT ![n] = c] /\ line_out' = <<"push", q, c>>
  BY DEF fifo_push, lifo_push
<1>3. /\ Chains \in [Kinds -> Seq(Cells)] /\ thing \in [Cells -> Things \cup {VOID}]
      /\ \A r \in Kinds : SetOf(Chains[r]) \subseteq cells
      /\ line \in [Kinds -> {VOID} \cup Heads]
  BY ChainsTyped
<1>4. line' \in [Kinds -> {VOID} \cup Heads] /\ line'[q] # VOID
      /\ \A r \in Kinds \ {q} : line'[r] = line[r]
  <2>1. line' \in [Kinds -> {VOID} \cup Heads]
    BY <1>1 DEF LinesInv, LineTypes
  <2>2. line[q] \in Heads
    BY <1>1, <1>3
  <2>3. /\ \A r \in Kinds \ {q} : line'[r] = line[r]
        /\ line'[q].size = line[q].size + 1
    BY <1>3, <2>2 DEF fifo_push, lifo_push, Heads
  <2>4. line'[q] # VOID
    <3>1. CASE q = "fifo" /\ fifo_push(c, n)
      <4>1. CASE line["fifo"].head = VOID
        <5> DEFINE z == [head |-> n, top |-> n, size |-> line["fifo"].size + 1]
        <5>1. line'[q] = z
          BY <1>3, <3>1, <4>1 DEF fifo_push
        <5>2. z \in Heads
          BY <2>2, <3>1 DEF Heads
        <5> HIDE DEF z
        <5> QED
          BY <5>1, <5>2, HeadIsNotVoid
      <4>2. CASE line["fifo"].head # VOID
        <5>1. line' = [line EXCEPT !["fifo"].top = n, !["fifo"].size = @ + 1]
          BY <3>1, <4>2 DEF fifo_push
        <5> DEFINE z == [line[q] EXCEPT !.top = n]
                   w == [z EXCEPT !.size = @ + 1]
        <5>2. line'[q] = w
          BY <1>3, <3>1, <5>1
        <5>3. z \in Heads
          BY <2>2 DEF Heads
        <5>4. w \in Heads
          <6> HIDE DEF z
          <6> QED
            BY <5>3 DEF Heads
        <5> HIDE DEF z, w
        <5> QED
          BY <5>2, <5>4, HeadIsNotVoid
      <4> QED
        BY <4>1, <4>2
    <3>2. CASE q = "lifo" /\ lifo_push(c, n)
      <4>1. line' = [line EXCEPT !["lifo"].head = n, !["lifo"].size = @ + 1]
        BY <3>2 DEF lifo_push
      <4> DEFINE z == [line[q] EXCEPT !.head = n]
                 w == [z EXCEPT !.size = @ + 1]
      <4>2. line'[q] = w
        BY <1>3, <3>2, <4>1
      <4>3. z \in Heads
        BY <2>2 DEF Heads
      <4>4. w \in Heads
        <5> HIDE DEF z
        <5> QED
          BY <4>3 DEF Heads
      <4> HIDE DEF z, w
      <4> QED
        BY <4>2, <4>4, HeadIsNotVoid
    <3> QED
      BY <3>1, <3>2
  <2> QED
    BY <2>1, <2>3, <2>4
<1>5. s \in Seq(Cells) /\ thing'[n] = c /\ n \notin SetOf(s)
  BY <1>1, <1>2, <1>3
<1>6. ASSUME NEW r \in Kinds PROVE ItemsIn(Chains[r], thing') = ItemsIn(Chains[r], thing)
  <2>1. ASSUME NEW i \in 1..Len(Chains[r]) PROVE thing'[Chains[r][i]] = thing[Chains[r][i]]
    <3>1. Chains[r][i] \in SetOf(Chains[r]) /\ SetOf(Chains[r]) \subseteq Cells
      BY <1>3, InSetOf, SetOfIn
    <3> QED
      BY <1>1, <1>2, <1>3, <3>1
  <2> QED
    BY <1>3, <2>1, ItemsSame
<1> DEFINE it == ItemsIn(s, thing)
<1>7. ItemsIn(s2, thing') = IF q = "fifo" THEN Append(it, c) ELSE <<c>> \o it
  <2>1. ItemsIn(s, thing') = it
    BY <1>6
  <2> HIDE DEF s, it
  <2>2. ItemsIn(Append(s, n), thing') = Append(it, c)
    BY <1>5, <2>1, ItemsAppend
  <2>3. one \in Seq(Cells) /\ Len(one) = 1 /\ one[1] = n
    OBVIOUS
  <2> HIDE DEF one
  <2>4. ItemsIn(one, thing') = <<c>>
    BY <1>5, <2>3 DEF ItemsIn
  <2>5. ItemsIn(one \o s, thing') = <<c>> \o it
    <3>1. ItemsIn(one \o s, thing') = ItemsIn(one, thing') \o ItemsIn(s, thing')
      BY <1>5, <2>3, ItemsConcat
    <3> QED
      BY <2>1, <2>4, <3>1
  <2> QED
    BY <2>2, <2>5
<1>8. LinesNow[q] = it /\ it # VOID
  <2>1. LinesNow[q] = it
    BY <1>1 DEF LinesAre, LinesOf
  <2> QED
    BY <1>3, <2>1, ThingsAreNotVoid
<1>9. Chains'[q] = s2 /\ \A r \in Kinds \ {q} : Chains'[r] = Chains[r]
  BY <1>1, <1>3
<1> HIDE DEF s2, it, s
<1> DEFINE v == IF q = "fifo" THEN Append(it, c) ELSE <<c>> \o it
<1>10. ItemsIn(Chains'[q], thing') = v
  BY <1>7, <1>9
<1> HIDE DEF v
<1>11. LinesNow' = [LinesNow EXCEPT ![q] = v]
  BY <1>4, <1>6, <1>9, <1>10, LinesStep
<1>12. LinesNow' = [LinesNow EXCEPT ![q] = IF q = "fifo" THEN Append(@, c) ELSE <<c>> \o @]
  BY <1>8, <1>11, Zenon DEF v
<1>13. /\ Dict' = Dict /\ ArrayNow' = ArrayNow /\ LentNow' = LentNow
       /\ AnswerNow' = [AnswerNow EXCEPT !["lines"] = <<"push", q, c>>]
  BY <1>2, OnlyLinesIs
<1>14. LinesNow[q] # VOID
  BY <1>8
<1> QED
  BY <1>12, <1>13, <1>14
     DEF LinesNow, ArrayNow, LentNow, AnswerNow,
         Promised!LinesPush, Promised!OnLines, Promised!Answer
LEMMA RefineLinePop ==
    ASSUME LinesInv, LinesAre, LinesAre', OnlyLines, NEW q \in Kinds, line_pop(q)
    PROVE  Promised!LinesPop(q)
<1>1. /\ LinesInv' /\ line[q] # VOID
      /\ \/ Chains[q] = <<>> /\ Chains' = Chains /\ line[q].head = VOID
         \/ /\ Chains[q] # <<>> /\ Chains' = [Chains EXCEPT ![q] = Tail(@)]
            /\ line[q].head = Chains[q][1] /\ line[q].head # VOID
  BY LinePopKeeps
<1>2. /\ Chains \in [Kinds -> Seq(Cells)] /\ thing \in [Cells -> Things \cup {VOID}]
      /\ \A k, r \in Kinds : k # r => SetOf(Chains[k]) \cap SetOf(Chains[r]) = {}
      /\ line \in [Kinds -> {VOID} \cup Heads]
  BY ChainsTyped
<1>3. LinesNow[q] = ItemsIn(Chains[q], thing) /\ LinesNow[q] # VOID
  <2>1. LinesNow[q] = ItemsIn(Chains[q], thing)
    BY <1>1 DEF LinesAre, LinesOf
  <2> QED
    BY <1>2, <2>1, ThingsAreNotVoid
<1>4. CASE Chains[q] = <<>> /\ Chains' = Chains /\ line[q].head = VOID
  <2>1. UNCHANGED <<line, thing>> /\ line_out' = <<"pop", q, VOID>>
    BY <1>4 DEF line_pop
  <2>2. LinesNow' = LinesNow
    BY <1>4, <2>1 DEF LinesAre, LinesOf
  <2>3. LinesNow[q] = <<>>
    BY <1>3, <1>4 DEF ItemsIn
  <2>4. /\ Dict' = Dict /\ ArrayNow' = ArrayNow /\ LentNow' = LentNow
        /\ AnswerNow' = [AnswerNow EXCEPT !["lines"] = <<"pop", q, VOID>>]
    BY <2>1, OnlyLinesIs
  <2> QED
    BY <1>3, <2>2, <2>3, <2>4
       DEF LinesNow, ArrayNow, LentNow, AnswerNow,
           Promised!LinesPop, Promised!OnLines, Promised!Answer
<1>5. CASE /\ Chains[q] # <<>> /\ Chains' = [Chains EXCEPT ![q] = Tail(@)]
           /\ line[q].head = Chains[q][1] /\ line[q].head # VOID
  <2> DEFINE s == Chains[q]
             tmp == s[1]
             it == ItemsIn(s, thing)
  <2>1. /\ line' = [line EXCEPT ![q].head = link[tmp], ![q].size = @ - 1]
        /\ line_out' = <<"pop", q, thing[tmp]>> /\ Drop({tmp})
    BY <1>5 DEF line_pop
  <2>2. s \in Seq(Cells) /\ s # <<>> /\ Len(s) \in Nat /\ Len(s) # 0 /\ Distinct(s)
    <3>1. LineHeld(Chains[q], line[q], link, q)
      BY <1>1, LinesFacts
    <3> QED
      BY <1>2, <1>5, <3>1, LenProperties, EmptySeq DEF LineHeld, IsChain
  <2>3. tmp \in SetOf(s)
    BY <2>2, InSetOf
  <2>4. \A m \in Cells \ {tmp} : thing'[m] = thing[m]
    BY <2>1 DEF Drop
  <2>5. /\ Tail(s) \in Seq(Cells) /\ SetOf(Tail(s)) = SetOf(s) \ {tmp}
        /\ ItemsIn(Tail(s), thing) = Tail(it) /\ Head(it) = thing[tmp] /\ it # <<>>
    BY <2>2, HeadTailProperties, SetOfTail, ItemsTail, ItemsAre
  <2>6. Chains'[q] = Tail(s) /\ \A r \in Kinds \ {q} : Chains'[r] = Chains[r]
    BY <1>2, <1>5
  <2>7. \A r \in Kinds \ {q} : tmp \notin SetOf(Chains[r])
    BY <1>2, <2>3
  <2>8. LinesNow[q] = it
    BY <1>3
  <2> HIDE DEF s, tmp, it
  <2>9. ItemsIn(Tail(s), thing') = Tail(it)
    <3> DEFINE t == Tail(s)
    <3>1. t \in Seq(Cells) /\ SetOf(t) = SetOf(s) \ {tmp}
      BY <2>5
    <3> HIDE DEF t
    <3>2. ASSUME NEW i \in 1..Len(t) PROVE thing'[t[i]] = thing[t[i]]
      <4>1. t[i] \in SetOf(t) /\ SetOf(t) \subseteq Cells
        BY <3>1, InSetOf, SetOfIn
      <4> QED
        BY <2>4, <3>1, <4>1
    <3>3. ItemsIn(t, thing') = ItemsIn(t, thing)
      BY <3>1, <3>2, ItemsSame
    <3> QED
      BY <2>5, <3>3 DEF t
  <2>10. ASSUME NEW r \in Kinds \ {q}
         PROVE  ItemsIn(Chains'[r], thing') = ItemsIn(Chains[r], thing)
    <3>1. Chains'[r] = Chains[r] /\ Chains[r] \in Seq(Cells)
      BY <1>2, <2>6
    <3>2. ASSUME NEW i \in 1..Len(Chains[r]) PROVE thing'[Chains[r][i]] = thing[Chains[r][i]]
      <4>1. Chains[r][i] \in SetOf(Chains[r]) /\ SetOf(Chains[r]) \subseteq Cells
        BY <3>1, InSetOf, SetOfIn
      <4> QED
        BY <2>4, <2>7, <4>1
    <3>3. ItemsIn(Chains[r], thing') = ItemsIn(Chains[r], thing)
      BY <3>1, <3>2, ItemsSame
    <3> QED
      BY <3>1, <3>3
  <2>11. line'[q] # VOID /\ \A r \in Kinds \ {q} : line'[r] = line[r]
    <3>1. line[q] \in Heads
      BY <1>1, <1>2
    <3>2. \A r \in Kinds \ {q} : line'[r] = line[r]
      BY <1>2, <2>1
    <3> DEFINE z == [line[q] EXCEPT !.head = link[tmp]]
               w == [z EXCEPT !.size = @ - 1]
    <3>3. line'[q] = w
      BY <1>2, <2>1
    <3>4. link[tmp] \in Cells \cup {VOID}
      <4>1. LineTypes /\ tmp \in Cells
        BY LinesFacts, <2>2, <2>3, SetOfIn
      <4> QED
        BY <4>1 DEF LineTypes
    <3>5. line[q].size \in Nat /\ line[q].size # 0
      <4>1. LineHeld(Chains[q], line[q], link, q)
        BY <1>1, LinesFacts
      <4> QED
        BY <2>2, <4>1 DEF LineHeld, s
    <3>6. z \in Heads /\ z.size \in Nat /\ z.size # 0
      BY <3>1, <3>4, <3>5 DEF Heads
    <3>7. w \in Heads
      <4> HIDE DEF z
      <4> QED
        BY <3>6 DEF Heads
    <3> HIDE DEF z, w
    <3> QED
      BY <3>2, <3>3, <3>7, HeadIsNotVoid
  <2>12. LinesNow' = [LinesNow EXCEPT ![q] = Tail(it)]
    <3> DEFINE v == Tail(it)
    <3>1. v = IF line'[q] = VOID THEN VOID ELSE ItemsIn(Chains'[q], thing')
      BY <2>6, <2>9, <2>11
    <3>2. \A r \in Kinds \ {q} : /\ line'[r] = line[r]
                                  /\ ItemsIn(Chains'[r], thing') = ItemsIn(Chains[r], thing)
      BY <2>10, <2>11
    <3> HIDE DEF v
    <3>3. LinesNow' = [LinesNow EXCEPT ![q] = v]
      BY <3>1, <3>2, LinesStep
    <3> QED
      BY <3>3 DEF v
  <2>13. LinesNow' = [LinesNow EXCEPT ![q] = Tail(@)]
    BY <2>8, <2>12
  <2>14. LinesNow[q] # <<>> /\ Head(LinesNow[q]) = thing[tmp]
    BY <2>5, <2>8
  <2>15. /\ Dict' = Dict /\ ArrayNow' = ArrayNow /\ LentNow' = LentNow
         /\ AnswerNow' = [AnswerNow EXCEPT !["lines"] = <<"pop", q, Head(LinesNow[q])>>]
    BY <2>1, <2>14, OnlyLinesIs
  <2> QED
    BY <1>3, <2>13, <2>14, <2>15
       DEF LinesNow, ArrayNow, LentNow, AnswerNow,
           Promised!LinesPop, Promised!OnLines, Promised!Answer
<1> QED
  BY <1>1, <1>4, <1>5
LEMMA RefineLineRelease ==
    ASSUME LinesInv, LinesAre, LinesAre', OnlyLines, NEW q \in Kinds, line_release(q)
    PROVE  Promised!LinesRelease(q)
<1> DEFINE it == ThingsOf(q)
           k == FirstVoid(it)
           p == Popped(q)
<1>1. /\ LinesInv' /\ line[q] # VOID /\ line'[q] = VOID
      /\ Chains' = [Chains EXCEPT ![q] = <<>>] /\ Drop(ToSet(p))
      /\ p \in Seq(Cells) /\ SetOf(p) \subseteq SetOf(Chains[q])
      /\ ToSet(p) = SetOf(p)
      /\ Len(p) = IF k = 0 THEN Len(CellsOf(q)) ELSE k
  BY LineReleaseKeeps
<1>2. /\ Chains \in [Kinds -> Seq(Cells)] /\ thing \in [Cells -> Things \cup {VOID}]
      /\ \A j, r \in Kinds : j # r => SetOf(Chains[j]) \cap SetOf(Chains[r]) = {}
      /\ line \in [Kinds -> {VOID} \cup Heads]
  BY ChainsTyped
<1>3. LinesNow[q] = it /\ it = ItemsIn(Chains[q], thing) /\ it # VOID
  <2>1. LinesNow[q] = it /\ LinesNow[q] = ItemsIn(Chains[q], thing)
    BY <1>1 DEF LinesNow, LinesAre, LinesOf
  <2> QED
    BY <1>2, <2>1, ThingsAreNotVoid
<1>4. CellsOf(q) = Chains[q] /\ Len(it) = Len(CellsOf(q)) /\ Len(it) \in Nat
  <2>1. CellsOf(q) = Chains[q] /\ Chains[q] \in Seq(Cells)
    BY <1>1, LinesFacts
  <2>2. Len(ItemsIn(Chains[q], thing)) = Len(Chains[q]) /\ Len(Chains[q]) \in Nat
    BY <2>1, ItemsAre, LenProperties
  <2> HIDE DEF it
  <2> QED
    BY <1>3, <2>1, <2>2
<1>5. line_out' = <<"release", q, IF k = 0 THEN it ELSE SubSeq(it, 1, k - 1),
                    Len(CellsOf(q)) - Len(p)>>
  BY DEF line_release, FirstVoid, Popped
<1>6. k \in 0..Len(it)
  BY <1>4, FirstVoidIn
<1>7. Promised!UpToNull(LinesNow[q]) = FirstVoid(LinesNow[q])
  <2> DEFINE v == LinesNow[q]
             I == {j \in 1..Len(v) : v[j] = VOID}
  <2>1. FirstVoid(v) = IF I # {} THEN CHOOSE m \in I : \A j \in I : m <= j ELSE 0
    BY DEF FirstVoid, SelectInSeq, Min
  <2>2. Promised!UpToNull(v) = IF I # {} THEN CHOOSE m \in I : \A j \in I : m <= j ELSE 0
    BY DEF Promised!UpToNull, Promised!SelectInSeq, Promised!Min
  <2> QED
    BY <2>1, <2>2
<1>8. \A r \in Kinds \ {q} : line'[r] = line[r]
  BY <1>2 DEF line_release
<1> HIDE DEF it, k, p
<1>9. Len(CellsOf(q)) - Len(p) = IF k = 0 THEN 0 ELSE Len(it) - k
  BY <1>1, <1>4, <1>6
<1>10. ASSUME NEW r \in Kinds \ {q}
       PROVE  ItemsIn(Chains'[r], thing') = ItemsIn(Chains[r], thing)
  <2>1. Chains'[r] = Chains[r] /\ Chains[r] \in Seq(Cells)
    BY <1>1, <1>2
  <2>2. \A m \in Cells \ SetOf(p) : thing'[m] = thing[m]
    BY <1>1 DEF Drop
  <2>3. ASSUME NEW i \in 1..Len(Chains[r]) PROVE thing'[Chains[r][i]] = thing[Chains[r][i]]
    <3>1. Chains[r][i] \in SetOf(Chains[r]) /\ SetOf(Chains[r]) \subseteq Cells
      BY <2>1, InSetOf, SetOfIn
    <3>2. SetOf(Chains[q]) \cap SetOf(Chains[r]) = {}
      BY <1>2
    <3> QED
      BY <1>1, <2>2, <3>1, <3>2
  <2>4. ItemsIn(Chains[r], thing') = ItemsIn(Chains[r], thing)
    BY <2>1, <2>3, ItemsSame
  <2> QED
    BY <2>1, <2>4
<1>11. LinesNow' = [LinesNow EXCEPT ![q] = VOID]
  BY <1>1, <1>8, <1>10, LinesStep
<1>12. line_out' = <<"release", q, IF k = 0 THEN it ELSE SubSeq(it, 1, k - 1),
                     IF k = 0 THEN 0 ELSE Len(it) - k>>
  BY <1>5, <1>9
<1>13. k = Promised!UpToNull(LinesNow[q])
  BY <1>3, <1>7 DEF k
<1> DEFINE u == Promised!UpToNull(LinesNow[q])
<1>14. line_out' = <<"release", q, IF u = 0 THEN LinesNow[q] ELSE SubSeq(LinesNow[q], 1, u - 1),
                     IF u = 0 THEN 0 ELSE Len(LinesNow[q]) - u>>
  BY <1>3, <1>12, <1>13
<1> HIDE DEF u
<1>15. /\ Dict' = Dict /\ ArrayNow' = ArrayNow /\ LentNow' = LentNow
       /\ AnswerNow' = [AnswerNow EXCEPT !["lines"] =
                          <<"release", q, IF u = 0 THEN LinesNow[q] ELSE SubSeq(LinesNow[q], 1, u - 1),
                            IF u = 0 THEN 0 ELSE Len(LinesNow[q]) - u>>]
  BY <1>14, OnlyLinesIs
<1>16. LinesNow[q] # VOID
  BY <1>3
<1> QED
  BY <1>11, <1>15, <1>16
     DEF LinesNow, ArrayNow, LentNow, AnswerNow, u,
         Promised!LinesRelease, Promised!OnLines, Promised!Answer

LEMMA RefineLines ==
    ASSUME LinesInv, LinesAre, LinesAre', OnlyLines, LinesNext
    PROVE  Promised!Next
<1>1. ASSUME NEW q \in Kinds, line_init(q) PROVE Promised!Next
  BY <1>1, RefineLineInit DEF Promised!Next, Kinds
<1>2. ASSUME NEW q \in Kinds, line_pop(q) PROVE Promised!Next
  BY <1>2, RefineLinePop DEF Promised!Next, Kinds
<1>3. ASSUME NEW q \in Kinds, line_release(q) PROVE Promised!Next
  BY <1>3, RefineLineRelease DEF Promised!Next, Kinds
<1>4. ASSUME NEW c \in Things \cup {VOID}, NEW n \in Cells, NEW q \in Kinds,
             \/ q = "fifo" /\ fifo_push(c, n)
             \/ q = "lifo" /\ lifo_push(c, n)
      PROVE  Promised!Next
  <2>1. Promised!LinesPush(q, c)
    BY <1>4, RefineLinePush
  <2> QED
    BY <2>1 DEF Promised!Next, Kinds
<1>5. "fifo" \in Kinds /\ "lifo" \in Kinds
  BY DEF Kinds
<1>6. CASE fifo_init \/ lifo_init
  BY <1>1, <1>5, <1>6 DEF fifo_init, lifo_init
<1>7. CASE fifo_pop \/ lifo_pop
  BY <1>2, <1>5, <1>7 DEF fifo_pop, lifo_pop
<1>8. CASE fifo_release \/ lifo_release
  BY <1>3, <1>5, <1>8 DEF fifo_release, lifo_release
<1>9. ASSUME NEW c \in Things \cup {VOID}, NEW n \in Cells, fifo_push(c, n) \/ lifo_push(c, n)
      PROVE  Promised!Next
  BY <1>4, <1>5, <1>9
<1> QED
  BY <1>6, <1>7, <1>8, <1>9 DEF LinesNext
-----------------------------------------------------------------------------
(* The tree implements the map of the collections.                          *)

KeysOf(vs, hk)     == {hk[n] : n \in vs}
DictOf(vs, hk, pl) == [h \in KeysOf(vs, hk) |-> pl[CHOOSE n \in vs : hk[n] = h]]
OneHash(vs, hk)    == \A n, m \in vs : hk[n] = hk[m] => n = m

DictAre == Dict = IF tree = NIL THEN NIL ELSE DictOf(vertices, hash_key, payload)

LEMMA DictAreRead == DictAre
BY DEF DictAre, Dict, DictOf, KeysOf

LEMMA DictOfIs ==
    ASSUME NEW vs, NEW hk, NEW pl, OneHash(vs, hk)
    PROVE  /\ DOMAIN DictOf(vs, hk, pl) = KeysOf(vs, hk)
           /\ \A n \in vs : hk[n] \in KeysOf(vs, hk) /\ DictOf(vs, hk, pl)[hk[n]] = pl[n]
<1>1. DOMAIN DictOf(vs, hk, pl) = KeysOf(vs, hk)
  BY DEF DictOf
<1>2. ASSUME NEW n \in vs PROVE hk[n] \in KeysOf(vs, hk) /\ DictOf(vs, hk, pl)[hk[n]] = pl[n]
  <2> DEFINE m == CHOOSE v \in vs : hk[v] = hk[n]
  <2>1. m \in vs /\ hk[m] = hk[n]
    OBVIOUS
  <2>2. m = n
    BY <2>1 DEF OneHash
  <2>3. hk[n] \in KeysOf(vs, hk)
    BY DEF KeysOf
  <2> QED
    BY <2>2, <2>3 DEF DictOf
<1> QED
  BY <1>1, <1>2

LEMMA DictOfMeets ==
    ASSUME NEW vs, NEW hk, NEW pl, OneHash(vs, hk),
           NEW f, f = [h \in KeysOf(vs, hk) |-> f[h]], \A n \in vs : f[hk[n]] = pl[n]
    PROVE  DictOf(vs, hk, pl) = f
<1> DEFINE w == DictOf(vs, hk, pl)
<1>1. /\ w = [h \in KeysOf(vs, hk) |-> w[h]]
      /\ \A n \in vs : w[hk[n]] = pl[n]
  BY DictOfIs DEF DictOf
<1>2. ASSUME NEW h \in KeysOf(vs, hk) PROVE w[h] = f[h]
  <2>1. PICK n \in vs : h = hk[n]
    BY DEF KeysOf
  <2> HIDE DEF w
  <2> QED
    BY <1>1, <2>1
<1> HIDE DEF w
<1>3. w = f
  BY <1>1, <1>2
<1> QED
  BY <1>3 DEF w

Keys == KeysOf(vertices, hash_key)

LEMMA DictFacts ==
    ASSUME TreeInv, tree # NIL
    PROVE  /\ OneHash(vertices, hash_key)
           /\ Dict = DictOf(vertices, hash_key, payload)
           /\ Dict # VOID /\ Dict = [h \in Keys |-> Dict[h]]
           /\ DOMAIN Dict = Keys /\ Keys \subseteq HashKeys
           /\ \A n \in vertices : hash_key[n] \in Keys /\ Dict[hash_key[n]] = payload[n]
           /\ Promised!Stored = {payload[n] : n \in vertices}
<1>1. PICK way : TreeIs(way)
  BY TreeInvWay
<1>2. OneHash(vertices, hash_key)
  BY <1>1, TreeWayEnds DEF OneHash
<1>3. Dict = DictOf(vertices, hash_key, payload)
  BY DictAreRead DEF DictAre
<1>4. /\ DOMAIN Dict = Keys
      /\ \A n \in vertices : hash_key[n] \in Keys /\ Dict[hash_key[n]] = payload[n]
  BY <1>2, <1>3, DictOfIs DEF Keys
<1>5. Keys \subseteq HashKeys
  BY DEF TreeInv, Linked, Keys, KeysOf
<1>6. ASSUME NEW h \in Keys PROVE \E n \in vertices : h = hash_key[n] /\ Dict[h] = payload[n]
  <2>1. PICK n \in vertices : h = hash_key[n]
    BY DEF Keys, KeysOf
  <2> QED
    BY <1>4, <2>1
<1>7. Dict = [h \in Keys |-> Dict[h]]
  BY <1>3 DEF DictOf, Keys
<1>8. \A h \in Keys : Dict[h] \in Payloads
  BY <1>6 DEF TreeInv, StoresIn
<1>9. Dict # VOID
  <2>1. Dict \in [Keys -> Payloads]
    BY <1>7, <1>8
  <2> QED
    BY <1>5, <2>1, NilAssumption, NullsAssumption
<1>10. Promised!Stored = {payload[n] : n \in vertices}
  <2>1. Promised!Stored = {Dict[h] : h \in Keys}
    BY <1>4 DEF Promised!Stored
  <2> QED
    BY <1>4, <1>6, <2>1
<1> QED
  BY <1>2, <1>3, <1>4, <1>5, <1>7, <1>9, <1>10

\* The call is on the tree.
OnlyTree == UNCHANGED <<lineVars, vecVars>>

LEMMA OnlyTreeIs ==
    ASSUME OnlyTree
    PROVE  /\ LinesNow' = LinesNow /\ ArrayNow' = ArrayNow /\ LentNow' = LentNow
           /\ AnswerNow' = [AnswerNow EXCEPT !["dict"] = tree_out']
<1>1. LinesNow' = LinesNow
  BY DEF OnlyTree, LinesNow, lineVars, ThingsOf, CellsOf
<1>2. ArrayNow' = ArrayNow
  BY DEF OnlyTree, ArrayNow, vecVars
<1>3. LentNow' = LentNow
  <2>1. borrowed' = borrowed /\ moved' = moved
    BY DEF OnlyTree, vecVars
  <2> QED
    BY <2>1, Zenon DEF LentNow
<1>4. AnswerNow' = [AnswerNow EXCEPT !["dict"] = tree_out']
  <2>1. line_out' = line_out /\ vec_out' = vec_out
    BY DEF OnlyTree, lineVars, vecVars
  <2> QED
    BY <2>1 DEF AnswerNow
<1> QED
  BY <1>1, <1>2, <1>3, <1>4

LEMMA RefineTreeInit ==
    ASSUME TreeInv, OnlyTree, bt_init
    PROVE  Promised!DictCreate
<1>1. /\ tree = NIL /\ tree' = [head |-> NIL] /\ vertices = {} /\ vertices' = {}
      /\ tree_out' = <<"init">>
  BY DEF bt_init, nodeVars, TreeInv, TreeShape
<1>2. Dict = VOID
  BY <1>1, NullsAssumption DEF Dict
<1>3. Dict' = [h \in {} |-> VOID]
  <2>1. tree' # NIL
    BY <1>1, TreeRecord
  <2>2. {hash_key'[n] : n \in vertices'} = {}
    BY <1>1
  <2> QED
    BY <2>1, <2>2 DEF Dict
<1>4. /\ LinesNow' = LinesNow /\ ArrayNow' = ArrayNow /\ LentNow' = LentNow
      /\ AnswerNow' = [AnswerNow EXCEPT !["dict"] = <<"init">>]
  BY <1>1, OnlyTreeIs
<1> QED
  BY <1>2, <1>3, <1>4
     DEF LinesNow, ArrayNow, LentNow, AnswerNow,
         Promised!DictCreate, Promised!OnDict, Promised!Answer

LEMMA RefineTreeGet ==
    ASSUME TreeInv, OnlyTree, NEW h \in HashKeys, bt_node_get(h)
    PROVE  Promised!DictGet(h)
<1>1. /\ tree # NIL /\ UNCHANGED <<tree, nodeVars>>
      /\ tree_out' = <<"get", h, IF Found(h) THEN payload[Last(Path(h))] ELSE NIL>>
  BY DEF bt_node_get
<1>2. PICK way : Ways(way, vertices, tree.head, left, right, hash_key)
  BY <1>1 DEF TreeInv, TreeShape
<1>3. /\ Found(h) <=> h \in Keys
      /\ Found(h) => Last(Path(h)) \in vertices /\ hash_key[Last(Path(h))] = h
  <2>1. /\ Found(h) <=> \E n \in vertices : hash_key[n] = h
        /\ Found(h) => hash_key[Last(Path(h))] = h
        /\ \A n \in vertices : hash_key[n] = h => n = Last(Path(h))
    BY <1>1, <1>2, FoundIs
  <2> QED
    BY <2>1 DEF Keys, KeysOf
<1>4. /\ Dict # VOID /\ DOMAIN Dict = Keys
      /\ \A n \in vertices : hash_key[n] \in Keys /\ Dict[hash_key[n]] = payload[n]
  BY <1>1, DictFacts
<1>5. tree_out' = <<"get", h, IF h \in DOMAIN Dict THEN Dict[h] ELSE VOID>>
  <2>1. CASE Found(h)
    BY <1>1, <1>3, <1>4, <2>1
  <2>2. CASE ~Found(h)
    BY <1>1, <1>3, <1>4, <2>2, NullsAssumption
  <2> QED
    BY <2>1, <2>2
<1>6. Dict' = Dict
  BY <1>1 DEF Dict, nodeVars
<1>7. /\ LinesNow' = LinesNow /\ ArrayNow' = ArrayNow /\ LentNow' = LentNow
      /\ AnswerNow' = [AnswerNow EXCEPT !["dict"] =
                         <<"get", h, IF h \in DOMAIN Dict THEN Dict[h] ELSE VOID>>]
  BY <1>5, OnlyTreeIs
<1> QED
  BY <1>4, <1>6, <1>7
     DEF LinesNow, ArrayNow, LentNow, AnswerNow,
         Promised!DictGet, Promised!OnDict, Promised!Answer

LEMMA RefineTreeSet ==
    ASSUME TreeInv, OnlyTree, NEW h \in HashKeys, NEW ptr \in Payloads, bt_node_set(h, ptr)
    PROVE  Promised!DictSet(h, ptr)
<1>1. tree # NIL /\ ptr \notin {payload[n] : n \in vertices}
  BY DEF bt_node_set
<1>2. PICK way : Ways(way, vertices, tree.head, left, right, hash_key)
  BY <1>1 DEF TreeInv, TreeShape
<1>3. /\ OneHash(vertices, hash_key) /\ Dict # VOID /\ DOMAIN Dict = Keys
      /\ Dict = [k \in Keys |-> Dict[k]]
      /\ \A n \in vertices : hash_key[n] \in Keys /\ Dict[hash_key[n]] = payload[n]
      /\ Promised!Stored = {payload[n] : n \in vertices}
  BY <1>1, DictFacts
<1>4. TreeTypes
  BY DEF TreeInv
<1> DEFINE f == [k \in Keys \cup {h} |-> IF k = h THEN ptr ELSE Dict[k]]
           old == IF h \in DOMAIN Dict THEN Dict[h] ELSE VOID
<1>5. /\ tree_out' = <<"set", h, ptr, old>>
      /\ tree' # NIL /\ OneHash(vertices', hash_key')
      /\ KeysOf(vertices', hash_key') = Keys \cup {h}
      /\ \A n \in vertices' : f[hash_key'[n]] = payload'[n]
  <2>1. CASE Found(h)
    <3> DEFINE n == Last(Path(h))
    <3>1. /\ tree' = tree /\ vertices' = vertices /\ hash_key' = hash_key
          /\ n \in vertices /\ hash_key[n] = h
          /\ payload' = [payload EXCEPT ![n] = ptr]
      BY <2>1, TreeInvReplace
    <3>2. tree_out' = <<"set", h, ptr, payload[n]>>
      BY <2>1 DEF bt_node_set
    <3> HIDE DEF n
    <3>3. h \in Keys /\ Dict[h] = payload[n]
      BY <1>3, <3>1
    <3>4. ASSUME NEW m \in vertices PROVE f[hash_key[m]] = payload'[m]
      <4>1. hash_key[m] \in Keys /\ Dict[hash_key[m]] = payload[m]
        BY <1>3
      <4>2. hash_key[m] = h => m = n
        BY <1>3, <3>1 DEF OneHash
      <4>3. payload'[m] = IF m = n THEN ptr ELSE payload[m]
        BY <1>4, <3>1 DEF TreeTypes
      <4> QED
        BY <3>1, <4>1, <4>2, <4>3
    <3>5. Keys \cup {h} = Keys
      BY <3>3
    <3>6. old = payload[n]
      BY <1>3, <3>3
    <3> QED
      BY <1>1, <1>3, <3>1, <3>2, <3>4, <3>5, <3>6 DEF Keys
  <2>2. CASE ~Found(h)
    <3>1. /\ \A m \in vertices : hash_key[m] # h
          /\ \E n : Grows(n, IF tree.head = NIL THEN NIL ELSE Last(Path(h)), h, ptr)
      BY <2>2, GrowIs
    <3> DEFINE last == IF tree.head = NIL THEN NIL ELSE Last(Path(h))
    <3>2. PICK n : Grows(n, last, h, ptr)
      BY <3>1
    <3> HIDE DEF last
    <3>3. /\ n \in Vertices /\ n \notin vertices /\ vertices' = vertices \cup {n}
          /\ hash_key' = [hash_key EXCEPT ![n] = h]
          /\ payload' = [payload EXCEPT ![n] = ptr]
          /\ tree' = IF last = NIL THEN [head |-> n] ELSE tree
      BY <3>2 DEF Grows
    <3>4. tree' # NIL
      BY <1>1, <3>3, TreeRecord
    <3>5. /\ hash_key'[n] = h /\ payload'[n] = ptr
          /\ \A m \in vertices : hash_key'[m] = hash_key[m] /\ payload'[m] = payload[m]
      BY <1>4, <3>3 DEF TreeTypes
    <3>6. OneHash(vertices', hash_key')
      BY <1>3, <3>1, <3>3, <3>5 DEF OneHash
    <3>7. KeysOf(vertices', hash_key') = Keys \cup {h}
      BY <3>3, <3>5 DEF Keys, KeysOf
    <3>8. ASSUME NEW m \in vertices' PROVE f[hash_key'[m]] = payload'[m]
      <4>1. CASE m = n
        BY <3>5, <4>1
      <4>2. CASE m # n
        <5>1. m \in vertices
          BY <3>3, <4>2
        <5>2. hash_key'[m] = hash_key[m] /\ payload'[m] = payload[m] /\ hash_key[m] # h
          BY <3>1, <3>5, <5>1
        <5>3. hash_key[m] \in Keys /\ Dict[hash_key[m]] = payload[m]
          BY <1>3, <5>1
        <5> QED
          BY <5>2, <5>3
      <4> QED
        BY <4>1, <4>2
    <3>9. tree_out' = <<"set", h, ptr, NIL>>
      BY <2>2 DEF bt_node_set
    <3>10. h \notin Keys
      BY <3>1 DEF Keys, KeysOf
    <3>11. old = NIL
      BY <1>3, <3>10, NullsAssumption
    <3> QED
      BY <3>4, <3>6, <3>7, <3>8, <3>9, <3>11
  <2> QED
    BY <2>1, <2>2
<1>6. Dict' = f
  <2>1. Dict' = DictOf(vertices', hash_key', payload')
    BY <1>5 DEF Dict, DictOf, KeysOf
  <2>2. f = [k \in Keys \cup {h} |-> f[k]]
    OBVIOUS
  <2> HIDE DEF f
  <2>3. f = [k \in KeysOf(vertices', hash_key') |-> f[k]]
    BY <1>5, <2>2
  <2>4. DictOf(vertices', hash_key', payload') = f
    BY <1>5, <2>3, DictOfMeets
  <2> QED
    BY <2>1, <2>4
<1>7. f = Promised!With(Dict, h, ptr)
  BY <1>3 DEF Promised!With
<1>8. ptr \notin Promised!Stored
  BY <1>1, <1>3
<1>9. /\ LinesNow' = LinesNow /\ ArrayNow' = ArrayNow /\ LentNow' = LentNow
      /\ AnswerNow' = [AnswerNow EXCEPT !["dict"] = <<"set", h, ptr, old>>]
  BY <1>5, OnlyTreeIs
<1>10. Dict' = Promised!With(Dict, h, ptr)
  BY <1>6, <1>7
<1> HIDE DEF f
<1> QED
  BY <1>3, <1>8, <1>9, <1>10
     DEF LinesNow, ArrayNow, LentNow, AnswerNow,
         Promised!DictSet, Promised!OnDict, Promised!Answer

\* Some member of a sequence of numbers is the largest.
LEMMA LargestOf ==
    ASSUME NEW m \in Nat, m > 0, NEW f, \A i \in 1..m : f[i] \in Nat
    PROVE  \E j \in 1..m : \A i \in 1..m : f[i] <= f[j]
<1> DEFINE Top(k) == \E j \in 1..k : \A i \in 1..k : f[i] <= f[j]
           I == {k \in Nat : k + 1 <= m => Top(k + 1)}
<1>1. 0 \in I
  <2>1. ASSUME 0 + 1 <= m PROVE Top(0 + 1)
    <3>1. 1 \in 1..m /\ 0 + 1 = 1 /\ 1..1 = {1}
      BY <2>1
    <3>2. f[1] <= f[1]
      BY <3>1
    <3> QED
      BY <3>1, <3>2
  <2> HIDE DEF Top
  <2> QED
    BY <2>1
<1>2. ASSUME NEW k \in Nat, k \in I PROVE k + 1 \in I
  <2>1. ASSUME (k + 1) + 1 <= m PROVE Top((k + 1) + 1)
    <3>1. PICK j \in 1..(k + 1) : \A i \in 1..(k + 1) : f[i] <= f[j]
      BY <1>2, <2>1
    <3> DEFINE l == (k + 1) + 1
    <3>2. /\ l \in 1..m /\ j \in 1..m /\ l \in 1..l /\ j \in 1..l
          /\ f[l] \in Nat /\ f[j] \in Nat
          /\ \A i \in 1..l : i \in 1..m /\ (i = l \/ i \in 1..(k + 1))
      BY <2>1
    <3>3. CASE f[l] <= f[j]
      <4>1. \A i \in 1..l : f[i] <= f[j]
        BY <3>1, <3>2, <3>3
      <4> QED
        BY <3>2, <4>1
    <3>4. CASE ~(f[l] <= f[j])
      <4>1. ASSUME NEW i \in 1..l PROVE f[i] <= f[l]
        <5>1. f[i] \in Nat /\ (i = l \/ f[i] <= f[j])
          BY <3>1, <3>2
        <5> HIDE DEF l
        <5> QED
          BY <3>2, <3>4, <5>1
      <4> QED
        BY <3>2, <4>1
    <3> QED
      BY <3>3, <3>4
  <2> HIDE DEF Top
  <2> QED
    BY <2>1
<1>3. m - 1 \in I
  <2> HIDE DEF I
  <2>1. Nat \subseteq I
    BY <1>1, <1>2, Induction
  <2> QED
    BY <2>1
<1>4. (m - 1) + 1 = m /\ m <= m
  OBVIOUS
<1>5. Top(m)
  <2> HIDE DEF Top
  <2> QED
    BY <1>3, <1>4
<1> QED
  BY <1>5

LEMMA LargestHash ==
    ASSUME TreeInv, tree # NIL, vertices # {}
    PROVE  \E n \in vertices : \A m \in vertices : hash_key[m] <= hash_key[n]
<1> DEFINE s == PostOrder(tree.head)
           f == [i \in 1..Len(s) |-> hash_key[s[i]]]
<1>1. s \in Seq(vertices) /\ SetOf(s) = vertices
  BY OrderFacts
<1>2. \A n \in vertices : hash_key[n] \in Nat
  BY TreeAssumption DEF TreeInv, Linked
<1> HIDE DEF s
<1>3. Len(s) \in Nat /\ \A i \in 1..Len(s) : s[i] \in vertices
  BY <1>1, LenProperties
<1>4. \A n \in vertices : \E i \in 1..Len(s) : n = s[i]
  BY <1>1 DEF SetOf
<1>5. Len(s) > 0
  BY <1>3, <1>4
<1>6. \A i \in 1..Len(s) : f[i] = hash_key[s[i]] /\ f[i] \in Nat
  BY <1>2, <1>3
<1> HIDE DEF f
<1>7. PICK j \in 1..Len(s) : \A i \in 1..Len(s) : f[i] <= f[j]
  BY <1>3, <1>5, <1>6, LargestOf
<1>8. ASSUME NEW m \in vertices PROVE hash_key[m] <= hash_key[s[j]]
  <2>1. PICK i \in 1..Len(s) : m = s[i]
    BY <1>4
  <2> QED
    BY <1>6, <1>7, <2>1
<1> QED
  BY <1>3, <1>8

\* The search for the largest hash takes the left child of each node, and
\* the node it ends at has none.
LEMMA LeftWay ==
    ASSUME NEW way, TreeIs(way), NEW n \in vertices,
           \A m \in vertices : hash_key[m] <= hash_key[n]
    PROVE  IsChain(way[hash_key[n]], left, tree.head, NIL)
<1> DEFINE h == hash_key[n]
           s == way[h]
<1>1. h \in HashKeys /\ s # <<>> /\ Len(s) \in 1..Len(s) /\ s[Len(s)] = n
  BY TreeWayEnds
<1>2. /\ s \in Seq(vertices) /\ Len(s) \in Nat /\ Distinct(s)
      /\ \A i \in 1..Len(s) : s[i] \in vertices
      /\ tree.head = IF s = <<>> THEN NIL ELSE s[1]
  BY <1>1, TreeWay
<1>3. /\ \A m \in vertices : hash_key[m] \in HashKeys
      /\ Linked(vertices, left, right, parent, hash_key)
  BY TreeIsFacts
<1>4. HashKeys \subseteq Nat
  BY TreeAssumption
<1>5. ASSUME NEW i \in 1..Len(s), i # Len(s) PROVE left[s[i]] = s[i + 1]
  <2>1. \/ s[i + 1] = left[s[i]] /\ hash_key[s[i]] < h
        \/ s[i + 1] = right[s[i]] /\ hash_key[s[i]] > h
    BY <1>1, <1>5, TreeWayParent
  <2>2. s[i] \in vertices /\ hash_key[s[i]] \in Nat /\ h \in Nat /\ hash_key[s[i]] <= h
    BY <1>1, <1>2, <1>3, <1>4
  <2> QED
    BY <2>1, <2>2
<1>6. left[n] = NIL
  <2>1. SUFFICES ASSUME left[n] # NIL PROVE FALSE
    OBVIOUS
  <2> DEFINE c == left[n]
             k == hash_key[c]
             z == Len(way[k])
  <2>2. c \in vertices /\ c # right[n]
    BY <1>3, <2>1 DEF Linked
  <2>3. k \in HashKeys /\ z \in 1..z /\ way[k][z] = c
    BY <2>2, TreeWayEnds
  <2>4. z - 1 \in 1..z /\ way[k][z - 1] = n
    BY <2>3, WayBefore
  <2>5. z \in Nat
    BY <2>3, TreeWay
  <2>6. z - 1 # z /\ (z - 1) + 1 = z
    BY <2>5
  <2>7. \/ way[k][(z - 1) + 1] = left[n] /\ hash_key[n] < k
        \/ way[k][(z - 1) + 1] = right[n] /\ hash_key[n] > k
    BY <2>3, <2>4, <2>6, TreeWayParent
  <2>8. hash_key[n] < k
    BY <2>2, <2>3, <2>6, <2>7
  <2>9. k <= hash_key[n] /\ k \in Nat /\ hash_key[n] \in Nat
    BY <1>3, <1>4, <2>2
  <2> HIDE DEF k
  <2> QED
    BY <2>8, <2>9
<1> HIDE DEF h, s
<1>7. \A i \in 1..Len(s) : left[s[i]] = IF i = Len(s) THEN NIL ELSE s[i + 1]
  BY <1>1, <1>5, <1>6
<1>8. IsChain(s, left, tree.head, NIL)
  BY <1>2, <1>7 DEF IsChain
<1> QED
  BY <1>8 DEF s, h

LEMMA RefineTreeLeft ==
    ASSUME TreeInv, OnlyTree, bt_node_left
    PROVE  Promised!DictLargest
<1> DEFINE s == Along(left, tree.head, NIL)
<1>1. /\ tree # NIL /\ UNCHANGED <<tree, nodeVars>>
      /\ tree_out' = <<"left", IF s = <<>> THEN NIL ELSE payload[Last(s)]>>
  BY DEF bt_node_left
<1>2. /\ Dict # VOID /\ DOMAIN Dict = Keys /\ Keys \subseteq HashKeys
      /\ \A n \in vertices : hash_key[n] \in Keys /\ Dict[hash_key[n]] = payload[n]
  BY <1>1, DictFacts
<1>3. PICK way : TreeIs(way)
  BY <1>1, TreeInvWay
<1>4. /\ DOMAIN left = Vertices /\ vertices \subseteq Vertices /\ NIL \notin Vertices
      /\ tree.head \in vertices \cup {NIL}
  BY <1>1, NilAssumption DEF TreeInv, TreeTypes, TreeShape
<1>5. \/ tree_out' = <<"left", VOID>> /\ DOMAIN Dict = {}
      \/ \E h \in DOMAIN Dict : /\ \A k \in DOMAIN Dict : k <= h
                                /\ tree_out' = <<"left", Dict[h]>>
  <2>1. CASE vertices = {}
    <3>1. tree.head = NIL
      BY <1>4, <2>1
    <3> DEFINE w == <<>>
    <3>2. w \in Seq(Vertices) /\ IsChain(w, left, tree.head, NIL)
      BY <3>1, ChainEmpty, EmptySeq
    <3> HIDE DEF w
    <3>3. s = w
      BY <1>4, <3>2, AlongChain, TreeAssumption
    <3>4. s = <<>>
      BY <3>3 DEF w
    <3>5. Keys = {}
      BY <2>1 DEF Keys, KeysOf
    <3> QED
      BY <1>1, <1>2, <3>4, <3>5, NullsAssumption
  <2>2. CASE vertices # {}
    <3>1. PICK n \in vertices : \A m \in vertices : hash_key[m] <= hash_key[n]
      BY <1>1, <2>2, LargestHash
    <3> DEFINE w == way[hash_key[n]]
    <3>2. IsChain(w, left, tree.head, NIL)
      BY <1>3, <3>1, LeftWay
    <3>3. hash_key[n] \in HashKeys /\ w # <<>> /\ w[Len(w)] = n
      BY <1>3, TreeWayEnds
    <3>4. w \in Seq(vertices)
      BY <1>3, <3>3, TreeWay
    <3> HIDE DEF w
    <3>5. w \in Seq(Vertices)
      BY <1>4, <3>4, SeqSub
    <3>6. s = w
      BY <1>4, <3>2, <3>5, AlongChain, TreeAssumption
    <3>7. Last(w) = n
      BY <3>3 DEF Last
    <3> HIDE DEF s
    <3>8. tree_out' = <<"left", payload[n]>>
      BY <1>1, <3>3, <3>6, <3>7
    <3>9. hash_key[n] \in DOMAIN Dict /\ Dict[hash_key[n]] = payload[n]
      BY <1>2
    <3>10. \A k \in DOMAIN Dict : k <= hash_key[n]
      BY <1>2, <3>1 DEF Keys, KeysOf
    <3> QED
      BY <3>8, <3>9, <3>10
  <2> QED
    BY <2>1, <2>2
<1>6. Dict' = Dict
  BY <1>1 DEF Dict, nodeVars
<1>7. /\ LinesNow' = LinesNow /\ ArrayNow' = ArrayNow /\ LentNow' = LentNow
      /\ AnswerNow' = [AnswerNow EXCEPT !["dict"] = tree_out']
  BY OnlyTreeIs
<1> HIDE DEF s
<1>8. CASE tree_out' = <<"left", VOID>> /\ DOMAIN Dict = {}
  BY <1>2, <1>6, <1>7, <1>8
     DEF LinesNow, ArrayNow, LentNow, AnswerNow,
         Promised!DictLargest, Promised!OnDict, Promised!Answer
<1>9. ASSUME NEW h \in DOMAIN Dict, \A k \in DOMAIN Dict : k <= h,
             tree_out' = <<"left", Dict[h]>>
      PROVE  Promised!DictLargest
  BY <1>2, <1>6, <1>7, <1>9
     DEF LinesNow, ArrayNow, LentNow, AnswerNow,
         Promised!DictLargest, Promised!OnDict, Promised!Answer
<1> QED
  BY <1>5, <1>8, <1>9

LEMMA SameCount ==
    ASSUME NEW S
    PROVE  Promised!Cardinality(S) = Cardinality(S)
BY Zenon DEF Promised!Cardinality, Cardinality

\* A traversal hands out every pointer stored, each once.
LEMMA StoredOnce ==
    ASSUME TreeInv, tree # NIL
    PROVE  PayloadsOf(tree.head) \in Promised!SetToSeqs(Promised!Stored)
<1> DEFINE s == PostOrder(tree.head)
           P == {payload[n] : n \in vertices}
<1>1. s \in Seq(vertices) /\ Distinct(s) /\ SetOf(s) = vertices
  BY OrderFacts
<1>2. PayloadsOf(tree.head) = [k \in DOMAIN s |-> payload[s[k]]]
  BY DEF PayloadsOf
<1> HIDE DEF s
<1>3. Len(s) \in Nat /\ DOMAIN s = 1..Len(s) /\ \A i \in 1..Len(s) : s[i] \in vertices
  BY <1>1, LenProperties
<1> DEFINE f == [k \in 1..Len(s) |-> payload[s[k]]]
<1>4. /\ f \in [1..Len(s) -> P]
      /\ \A i, j \in 1..Len(s) : f[i] = f[j] => i = j
      /\ \A v \in P : \E i \in 1..Len(s) : f[i] = v
  <2>1. f \in [1..Len(s) -> P]
    BY <1>3
  <2>2. ASSUME NEW i \in 1..Len(s), NEW j \in 1..Len(s), f[i] = f[j] PROVE i = j
    <3>1. s[i] \in vertices /\ s[j] \in vertices /\ payload[s[i]] = payload[s[j]]
      BY <1>3, <2>2
    <3>2. s[i] = s[j]
      BY <3>1 DEF TreeInv, StoresIn
    <3> QED
      BY <1>1, <3>2 DEF Distinct
  <2>3. ASSUME NEW v \in P PROVE \E i \in 1..Len(s) : f[i] = v
    <3>1. PICK n \in vertices : v = payload[n]
      OBVIOUS
    <3>2. PICK i \in 1..Len(s) : n = s[i]
      BY <1>1 DEF SetOf
    <3> QED
      BY <3>1, <3>2
  <2> QED
    BY <2>1, <2>2, <2>3
<1> HIDE DEF f, P
<1>5. Cardinality(P) = Len(s)
  <2>1. f \in Bijection(1..Len(s), P)
    BY <1>4 DEF Bijection, Injection, Surjection, IsInjective
  <2> QED
    BY <1>3, <2>1, FS_CountingElements DEF ExistsBijection
<1>6. f \in Promised!SetToSeqs(P)
  <2>1. \A i, j \in 1..Cardinality(P) : i # j => f[i] # f[j]
    BY <1>4, <1>5
  <2>2. f \in [1..Cardinality(P) -> P]
    BY <1>4, <1>5
  <2> DEFINE D == 1..Cardinality(P)
  <2>3. Promised!SetToSeqs(P) = {g \in [D -> P] : \A i, j \in D : i # j => g[i] # g[j]}
    BY SameCount DEF Promised!SetToSeqs
  <2> HIDE DEF D
  <2>4. f \in [D -> P] /\ \A i, j \in D : i # j => f[i] # f[j]
    BY <2>1, <2>2 DEF D
  <2> QED
    BY <2>3, <2>4
<1>7. Promised!Stored = P
  BY DictFacts DEF P
<1>8. PayloadsOf(tree.head) = f
  BY <1>2, <1>3 DEF f
<1> QED
  BY <1>6, <1>7, <1>8

LEMMA RefineTreeTraverse ==
    ASSUME TreeInv, OnlyTree, bt_node_traverse
    PROVE  Promised!DictTraverse
<1>1. /\ tree # NIL /\ UNCHANGED <<tree, nodeVars>>
      /\ tree_out' = <<"traverse", PayloadsOf(tree.head)>>
  BY DEF bt_node_traverse
<1>2. Dict # VOID /\ PayloadsOf(tree.head) \in Promised!SetToSeqs(Promised!Stored)
  BY <1>1, DictFacts, StoredOnce
<1>3. Dict' = Dict
  BY <1>1 DEF Dict, nodeVars
<1>4. /\ LinesNow' = LinesNow /\ ArrayNow' = ArrayNow /\ LentNow' = LentNow
      /\ AnswerNow' = [AnswerNow EXCEPT !["dict"] = <<"traverse", PayloadsOf(tree.head)>>]
  BY <1>1, OnlyTreeIs
<1> QED
  BY <1>2, <1>3, <1>4
     DEF LinesNow, ArrayNow, LentNow, AnswerNow,
         Promised!DictTraverse, Promised!OnDict, Promised!Answer

LEMMA RefineTreeRelease ==
    ASSUME TreeInv, OnlyTree, NEW release_data \in BOOLEAN, bt_release(release_data)
    PROVE  Promised!DictRelease
<1>1. tree # NIL /\ tree' = NIL
  BY DEF bt_release
<1>2. Dict # VOID /\ PayloadsOf(tree.head) \in Promised!SetToSeqs(Promised!Stored)
  BY <1>1, DictFacts, StoredOnce
<1>3. Dict' = VOID
  BY <1>1, NullsAssumption DEF Dict
<1>4. /\ LinesNow' = LinesNow /\ ArrayNow' = ArrayNow /\ LentNow' = LentNow
      /\ AnswerNow' = [AnswerNow EXCEPT !["dict"] = tree_out']
  BY OnlyTreeIs
<1>5. CASE tree_out' = <<"release", PayloadsOf(tree.head)>>
  BY <1>2, <1>3, <1>4, <1>5
     DEF LinesNow, ArrayNow, LentNow, AnswerNow,
         Promised!DictRelease, Promised!OnDict, Promised!Answer
<1>6. CASE tree_out' = <<"release", <<>>>>
  BY <1>2, <1>3, <1>4, <1>6
     DEF LinesNow, ArrayNow, LentNow, AnswerNow,
         Promised!DictRelease, Promised!OnDict, Promised!Answer
<1>7. tree_out' = <<"release", IF release_data THEN PayloadsOf(tree.head) ELSE <<>>>>
  BY DEF bt_release
<1> QED
  BY <1>5, <1>6, <1>7

LEMMA RefineTree ==
    ASSUME TreeInv, OnlyTree, TreeNext
    PROVE  Promised!Next
<1>1. CASE bt_init \/ bt_node_left \/ bt_node_traverse
  BY <1>1, RefineTreeInit, RefineTreeLeft, RefineTreeTraverse DEF Promised!Next
<1>2. ASSUME NEW h \in HashKeys, bt_node_get(h) PROVE Promised!Next
  <2>1. Promised!DictGet(h)
    BY <1>2, RefineTreeGet
  <2> QED
    BY <2>1 DEF Promised!Next
<1>3. ASSUME NEW h \in HashKeys, NEW ptr \in Payloads, bt_node_set(h, ptr) PROVE Promised!Next
  <2>1. Promised!DictSet(h, ptr)
    BY <1>3, RefineTreeSet
  <2> QED
    BY <2>1 DEF Promised!Next
<1>4. ASSUME NEW release_data \in BOOLEAN, bt_release(release_data) PROVE Promised!Next
  <2>1. Promised!DictRelease
    BY <1>4, RefineTreeRelease
  <2> QED
    BY <2>1 DEF Promised!Next
<1> QED
  BY <1>1, <1>2, <1>3, <1>4 DEF TreeNext
-----------------------------------------------------------------------------
(* The vector implements the array of the collections.                      *)

\* The call is on the vector.
OnlyVec == UNCHANGED <<lineVars, treeVars>>

LEMMA OnlyVecIs ==
    ASSUME OnlyVec
    PROVE  /\ LinesNow' = LinesNow /\ Dict' = Dict
           /\ AnswerNow' = [AnswerNow EXCEPT !["array"] = vec_out']
<1>1. LinesNow' = LinesNow
  BY DEF OnlyVec, LinesNow, lineVars, ThingsOf, CellsOf
<1>2. Dict' = Dict
  BY DEF OnlyVec, Dict, treeVars, nodeVars
<1>3. AnswerNow' = [AnswerNow EXCEPT !["array"] = vec_out']
  <2>1. line_out' = line_out /\ tree_out' = tree_out
    BY DEF OnlyVec, lineVars, treeVars
  <2> QED
    BY <2>1 DEF AnswerNow
<1> QED
  BY <1>1, <1>2, <1>3

\* What the array and the address lent are while there is a vector.
LEMMA VecNow ==
    ASSUME VecInv, vec # NOVEC
    PROVE  /\ vec \in Vecs /\ vec.ptr \in Seq(Elems) /\ vec.size = Len(vec.ptr)
           /\ Len(vec.ptr) \in Nat /\ DOMAIN vec.ptr = 1..Len(vec.ptr)
           /\ ArrayNow = vec.ptr /\ ArrayNow # VOID
           /\ borrowed \in Nat \cup {NOVEC} /\ moved \in BOOLEAN
           /\ LentNow = VOID <=> borrowed = NOVEC
           /\ borrowed # NOVEC => borrowed \in 0..(vec.size - 1)
<1>1. vec \in Vecs /\ vec.size = Len(vec.ptr) /\ vec.ptr \in Seq(Elems)
  BY DEF VecInv, VecTypeOK, Vecs
<1>2. Len(vec.ptr) \in Nat /\ DOMAIN vec.ptr = 1..Len(vec.ptr)
  BY <1>1, LenProperties
<1>3. ArrayNow = vec.ptr /\ ArrayNow # VOID
  BY <1>1, NovecAssumption, NullsAssumption DEF ArrayNow
<1>4. borrowed \in Nat \cup {NOVEC} /\ moved \in BOOLEAN
  BY DEF VecInv, VecTypeOK
<1>5. LentNow = VOID <=> borrowed = NOVEC
  BY <1>4, NovecAssumption, NullsAssumption DEF LentNow
<1>6. ASSUME borrowed # NOVEC PROVE borrowed \in 0..(vec.size - 1)
  <2>1. borrowed \in Nat /\ borrowed < vec.size
    BY <1>4, <1>6 DEF VecInv, VecTypeOK
  <2> QED
    BY <1>1, <1>2, <2>1
<1> QED
  BY <1>1, <1>2, <1>3, <1>4, <1>5, <1>6

LEMMA RefineVecInit ==
    ASSUME VecInv, VecInv', OnlyVec, vector_init
    PROVE  Promised!ArrayCreate
<1>1. /\ vec = NOVEC /\ vec' = [ptr |-> <<>>, room |-> FirstRoom, size |-> 0]
      /\ borrowed' = borrowed /\ moved' = moved /\ vec_out' = <<"init">>
  BY DEF vector_init
<1>2. ArrayNow = VOID
  BY <1>1, NullsAssumption DEF ArrayNow
<1>3. ArrayNow' = <<>>
  <2> DEFINE v == [ptr |-> <<>>, room |-> FirstRoom, size |-> 0]
  <2>1. v \in Vecs /\ v.ptr = <<>>
    BY RoomAssumption, EmptySeq DEF Vecs
  <2>2. vec' = v
    BY <1>1
  <2> HIDE DEF v
  <2> QED
    BY <2>1, <2>2, VecIsNot DEF ArrayNow
<1>4. LentNow' = LentNow
  BY <1>1, Zenon DEF LentNow
<1>5. /\ LinesNow' = LinesNow /\ Dict' = Dict
      /\ AnswerNow' = [AnswerNow EXCEPT !["array"] = <<"init">>]
  BY <1>1, OnlyVecIs
<1> QED
  BY <1>2, <1>3, <1>4, <1>5
     DEF LinesNow, ArrayNow, LentNow, AnswerNow,
         Promised!ArrayCreate, Promised!OnArray, Promised!Answer

LEMMA RefineVecAdd ==
    ASSUME VecInv, OnlyVec, NEW el \in Elems, vector_add(el)
    PROVE  Promised!ArrayAdd(el)
<1> DEFINE full == Len(vec.ptr) = vec.room
           v == [ptr  |-> Append(vec.ptr, el),
                 room |-> IF full THEN vec.room + 1 ELSE vec.room,
                 size |-> vec.size + 1]
<1>1. /\ vec # NOVEC /\ vec' = v /\ borrowed' = borrowed /\ vec_out' = <<"add", el>>
      /\ moved' \in IF full /\ borrowed # NOVEC THEN {TRUE, moved} ELSE {moved}
  BY DEF vector_add
<1>2. /\ vec \in Vecs /\ vec.ptr \in Seq(Elems) /\ vec.size = Len(vec.ptr)
      /\ Len(vec.ptr) \in Nat /\ ArrayNow = vec.ptr /\ ArrayNow # VOID
      /\ LentNow = VOID <=> borrowed = NOVEC
  BY <1>1, VecNow
<1>3. vec.room \in Nat /\ vec.room >= FirstRoom /\ FirstRoom \in Nat
  BY <1>1, <1>2, RoomAssumption DEF VecInv, Vecs
<1>4. ArrayNow' = Append(ArrayNow, el)
  <2>1. Append(vec.ptr, el) \in Seq(Elems)
    BY <1>2, AppendProperties
  <2>2. v \in Vecs /\ v.ptr = Append(vec.ptr, el)
    BY <1>2, <1>3, <2>1 DEF Vecs
  <2> HIDE DEF v
  <2> QED
    BY <1>1, <1>2, <2>2, VecIsNot DEF ArrayNow
<1> HIDE DEF v
<1>5. full => Len(ArrayNow) >= FirstRoom
  BY <1>2, <1>3
<1> HIDE DEF full
<1>6. LentNow' \in IF LentNow # VOID /\ Len(ArrayNow) >= FirstRoom THEN {0, LentNow} ELSE {LentNow}
  <2>1. CASE moved' = moved
    <3>1. LentNow' = LentNow
      BY <1>1, <2>1, Zenon DEF LentNow
    <3> QED
      BY <3>1
  <2>2. CASE moved' = TRUE /\ full /\ borrowed # NOVEC
    <3>1. LentNow' = 0
      BY <1>1, <2>2 DEF LentNow
    <3> QED
      BY <1>2, <1>5, <2>2, <3>1
  <2>3. moved' = moved \/ (moved' = TRUE /\ full /\ borrowed # NOVEC)
    BY <1>1
  <2> QED
    BY <2>1, <2>2, <2>3
<1>7. /\ LinesNow' = LinesNow /\ Dict' = Dict
      /\ AnswerNow' = [AnswerNow EXCEPT !["array"] = <<"add", el>>]
  BY <1>1, OnlyVecIs
<1> QED
  BY <1>2, <1>4, <1>6, <1>7
     DEF LinesNow, ArrayNow, LentNow, AnswerNow,
         Promised!ArrayAdd, Promised!OnArray, Promised!Answer

LEMMA RefineVecGet ==
    ASSUME VecInv, OnlyVec, NEW i \in Nat, vector_get(i)
    PROVE  Promised!ArrayGet(i)
<1>1. /\ vec # NOVEC /\ vec' = vec
      /\ IF i >= vec.size
         THEN vec_out' = <<"out_of_range", i>> /\ borrowed' = borrowed /\ moved' = moved
         ELSE borrowed' = i /\ moved' = FALSE /\ vec_out' = <<"get", i>>
  BY DEF vector_get
<1>2. /\ vec.size = Len(vec.ptr) /\ Len(vec.ptr) \in Nat
      /\ ArrayNow = vec.ptr /\ ArrayNow # VOID
  BY <1>1, VecNow
<1>3. ArrayNow' = ArrayNow
  BY <1>1 DEF ArrayNow
<1>4. IF i < Len(ArrayNow)
      THEN LentNow' = i + 1 /\ vec_out' = <<"get", i>>
      ELSE LentNow' = LentNow /\ vec_out' = <<"out_of_range", i>>
  <2>1. CASE i < Len(ArrayNow)
    <3>1. borrowed' = i /\ moved' = FALSE /\ vec_out' = <<"get", i>>
      BY <1>1, <1>2, <2>1
    <3>2. i # NOVEC
      BY NovecAssumption
    <3>3. LentNow' = i + 1
      BY <3>1, <3>2 DEF LentNow
    <3> QED
      BY <2>1, <3>1, <3>3
  <2>2. CASE ~(i < Len(ArrayNow))
    <3>1. borrowed' = borrowed /\ moved' = moved /\ vec_out' = <<"out_of_range", i>>
      BY <1>1, <1>2, <2>2
    <3>2. LentNow' = LentNow
      BY <3>1, Zenon DEF LentNow
    <3> QED
      BY <2>2, <3>1, <3>2
  <2> QED
    BY <2>1, <2>2
<1>5. /\ LinesNow' = LinesNow /\ Dict' = Dict
      /\ AnswerNow' = [AnswerNow EXCEPT !["array"] = vec_out']
  BY OnlyVecIs
<1> QED
  BY <1>2, <1>3, <1>4, <1>5
     DEF LinesNow, ArrayNow, LentNow, AnswerNow,
         Promised!ArrayGet, Promised!OnArray, Promised!Answer

LEMMA RefineVecSet ==
    ASSUME VecInv, OnlyVec, NEW i \in Nat, NEW el \in Elems, vector_set(i, el)
    PROVE  Promised!ArraySet(i, el)
<1> DEFINE p == [vec.ptr EXCEPT ![i + 1] = el]
<1>1. /\ vec # NOVEC /\ borrowed' = borrowed /\ moved' = moved
      /\ IF i >= vec.size
         THEN vec_out' = <<"out_of_range", i>> /\ vec' = vec
         ELSE vec' = [vec EXCEPT !.ptr = p] /\ vec_out' = <<"set", i, el>>
  BY DEF vector_set
<1>2. /\ vec \in Vecs /\ vec.ptr \in Seq(Elems)
      /\ vec.size = Len(vec.ptr) /\ Len(vec.ptr) \in Nat
      /\ ArrayNow = vec.ptr /\ ArrayNow # VOID
  BY <1>1, VecNow
<1>3. LentNow' = LentNow
  BY <1>1, Zenon DEF LentNow
<1>4. IF i < Len(ArrayNow)
      THEN ArrayNow' = [ArrayNow EXCEPT ![i + 1] = el] /\ vec_out' = <<"set", i, el>>
      ELSE ArrayNow' = ArrayNow /\ vec_out' = <<"out_of_range", i>>
  <2>1. CASE i < Len(ArrayNow)
    <3>1. vec' = [vec EXCEPT !.ptr = p] /\ vec_out' = <<"set", i, el>>
      BY <1>1, <1>2, <2>1
    <3>2. i + 1 \in 1..Len(vec.ptr)
      BY <1>2, <2>1
    <3>3. p \in Seq(Elems)
      BY <1>2, <3>2, ExceptSeq
    <3>4. p = [ArrayNow EXCEPT ![i + 1] = el]
      BY <1>2
    <3> HIDE DEF p
    <3>5. vec' \in Vecs /\ vec'.ptr = p
      BY <1>2, <3>1, <3>3 DEF Vecs
    <3>6. ArrayNow' = p
      BY <3>5, VecIsNot DEF ArrayNow
    <3> QED
      BY <2>1, <3>1, <3>4, <3>6
  <2>2. CASE ~(i < Len(ArrayNow))
    <3>1. vec' = vec /\ vec_out' = <<"out_of_range", i>>
      BY <1>1, <1>2, <2>2
    <3>2. ArrayNow' = ArrayNow
      BY <3>1 DEF ArrayNow
    <3> QED
      BY <2>2, <3>1, <3>2
  <2> QED
    BY <2>1, <2>2
<1>5. /\ LinesNow' = LinesNow /\ Dict' = Dict
      /\ AnswerNow' = [AnswerNow EXCEPT !["array"] = vec_out']
  BY OnlyVecIs
<1> QED
  BY <1>2, <1>3, <1>4, <1>5
     DEF LinesNow, ArrayNow, LentNow, AnswerNow,
         Promised!ArraySet, Promised!OnArray, Promised!Answer

LEMMA RefineVecUse ==
    ASSUME VecInv, OnlyVec, Use
    PROVE  \E el \in Elems : Promised!ArrayUse(el)
<1>1. /\ vec # NOVEC /\ borrowed # NOVEC
      /\ vec' = vec /\ borrowed' = borrowed /\ moved' = moved
  BY DEF Use
<1>2. PICK el \in Elems : (moved \/ el = vec.ptr[borrowed + 1]) /\ vec_out' = <<"use", el>>
  BY DEF Use
<1>3. /\ ArrayNow = vec.ptr /\ ArrayNow # VOID
      /\ LentNow = VOID <=> borrowed = NOVEC
  BY <1>1, VecNow
<1>4. LentNow = 0 \/ ArrayNow[LentNow] = el
  <2>1. CASE moved
    BY <1>1, <2>1 DEF LentNow
  <2>2. CASE ~moved
    <3>1. LentNow = borrowed + 1
      BY <1>1, <2>2 DEF LentNow
    <3> QED
      BY <1>2, <1>3, <2>2, <3>1
  <2> QED
    BY <2>1, <2>2
<1>5. LentNow' = LentNow
  BY <1>1, Zenon DEF LentNow
<1>6. ArrayNow' = ArrayNow
  BY <1>1 DEF ArrayNow
<1>7. /\ LinesNow' = LinesNow /\ Dict' = Dict
      /\ AnswerNow' = [AnswerNow EXCEPT !["array"] = <<"use", el>>]
  BY <1>2, OnlyVecIs
<1>8. LentNow # VOID
  BY <1>1, <1>3
<1>9. Promised!ArrayUse(el)
  BY <1>3, <1>4, <1>5, <1>6, <1>7, <1>8
     DEF LinesNow, ArrayNow, LentNow, AnswerNow,
         Promised!ArrayUse, Promised!OnArray, Promised!Answer
<1> QED
  BY <1>9

LEMMA RefineVecForeach ==
    ASSUME VecInv, OnlyVec, vector_foreach
    PROVE  Promised!ArrayForeach
<1>1. /\ vec # NOVEC /\ vec_out' = <<"foreach", SubSeq(vec.ptr, 1, vec.size)>>
      /\ vec' = vec /\ borrowed' = borrowed /\ moved' = moved
  BY DEF vector_foreach
<1>2. /\ vec.ptr \in Seq(Elems) /\ vec.size = Len(vec.ptr)
      /\ ArrayNow = vec.ptr /\ ArrayNow # VOID
  BY <1>1, VecNow
<1>3. SubSeq(vec.ptr, 1, vec.size) = ArrayNow
  BY <1>2
<1>4. LentNow' = LentNow
  BY <1>1, Zenon DEF LentNow
<1>5. ArrayNow' = ArrayNow
  BY <1>1 DEF ArrayNow
<1>6. /\ LinesNow' = LinesNow /\ Dict' = Dict
      /\ AnswerNow' = [AnswerNow EXCEPT !["array"] = <<"foreach", ArrayNow>>]
  BY <1>1, <1>3, OnlyVecIs
<1> QED
  BY <1>2, <1>4, <1>5, <1>6
     DEF LinesNow, ArrayNow, LentNow, AnswerNow,
         Promised!ArrayForeach, Promised!OnArray, Promised!Answer

LEMMA RefineVecRelease ==
    ASSUME VecInv, OnlyVec, vector_release
    PROVE  Promised!ArrayRelease
<1>1. vec # NOVEC /\ vec' = NOVEC /\ borrowed' = NOVEC /\ vec_out' = <<"release">>
  BY DEF vector_release
<1>2. ArrayNow # VOID
  BY <1>1, VecNow
<1>3. ArrayNow' = VOID /\ LentNow' = VOID
  BY <1>1 DEF ArrayNow, LentNow
<1>4. /\ LinesNow' = LinesNow /\ Dict' = Dict
      /\ AnswerNow' = [AnswerNow EXCEPT !["array"] = <<"release">>]
  BY <1>1, OnlyVecIs
<1> QED
  BY <1>2, <1>3, <1>4
     DEF LinesNow, ArrayNow, LentNow, AnswerNow,
         Promised!ArrayRelease, Promised!OnArray, Promised!Answer

LEMMA RefineVec ==
    ASSUME VecInv, VecInv', OnlyVec, VecNext
    PROVE  Promised!Next
<1>1. CASE vector_init \/ vector_foreach \/ vector_release
  BY <1>1, RefineVecInit, RefineVecForeach, RefineVecRelease DEF Promised!Next
<1>2. CASE Use
  <2>1. PICK el \in Elems : Promised!ArrayUse(el)
    BY <1>2, RefineVecUse
  <2> QED
    BY <2>1 DEF Promised!Next
<1>3. ASSUME NEW el \in Elems, vector_add(el) PROVE Promised!Next
  <2>1. Promised!ArrayAdd(el)
    BY <1>3, RefineVecAdd
  <2> QED
    BY <2>1 DEF Promised!Next
<1>4. ASSUME vec # NOVEC, NEW i \in 0..vec.size,
             vector_get(i) \/ \E el \in Elems : vector_set(i, el)
      PROVE  Promised!Next
  <2>1. vec.size = Len(vec.ptr) /\ Len(vec.ptr) \in Nat /\ ArrayNow = vec.ptr /\ ArrayNow # VOID
    BY <1>4, VecNow
  <2>2. i \in Nat /\ i \in 0..Len(ArrayNow)
    BY <2>1
  <2>3. i \in Promised!Indices
    BY <2>1, <2>2 DEF ArrayNow, Promised!Indices
  <2>4. CASE vector_get(i)
    <3>1. Promised!ArrayGet(i)
      BY <2>2, <2>4, RefineVecGet
    <3> QED
      BY <2>3, <3>1 DEF Promised!Next
  <2>5. ASSUME NEW el \in Elems, vector_set(i, el) PROVE Promised!Next
    <3>1. Promised!ArraySet(i, el)
      BY <2>2, <2>5, RefineVecSet
    <3> QED
      BY <2>3, <3>1 DEF Promised!Next
  <2> QED
    BY <1>4, <2>4, <2>5
<1> QED
  BY <1>1, <1>2, <1>3, <1>4 DEF VecNext
-----------------------------------------------------------------------------
LEMMA RefineAllInit ==
    ASSUME ContainersInit
    PROVE  Promised!Init
<1>1. /\ line = [q \in Kinds |-> VOID] /\ line_out = VOID
      /\ tree = NIL /\ tree_out = NIL
      /\ vec = NOVEC /\ borrowed = NOVEC /\ vec_out = NOVEC
  BY DEF ContainersInit, LinesInit, TreeInit, VecInit
<1>2. LinesNow = [fifo |-> VOID, lifo |-> VOID]
  BY <1>1 DEF LinesNow, Kinds
<1>3. /\ Dict = VOID /\ ArrayNow = VOID /\ LentNow = VOID
      /\ AnswerNow = [lines |-> VOID, dict |-> VOID, array |-> VOID]
  BY <1>1, NullsAssumption DEF Dict, ArrayNow, LentNow, AnswerNow
<1> QED
  BY <1>2, <1>3 DEF LinesNow, ArrayNow, LentNow, AnswerNow, Promised!Init

LEMMA RefineAllNext ==
    ASSUME LinesInv, LinesAre, LinesAre', TreeInv, VecInv, VecInv',
           [ContainersNext]_allVars
    PROVE  [Promised!Next]_(Promised!vars)
<1> DEFINE Same == UNCHANGED <<LinesNow, Dict, ArrayNow, LentNow, AnswerNow>>
<1>1. ASSUME UNCHANGED <<lineVars, treeVars, vecVars>> PROVE Same
  <2>1. OnlyTree /\ OnlyVec
    BY <1>1 DEF OnlyTree, OnlyVec
  <2>2. LinesNow' = LinesNow /\ Dict' = Dict /\ ArrayNow' = ArrayNow /\ LentNow' = LentNow
    BY <2>1, OnlyTreeIs, OnlyVecIs
  <2>3. AnswerNow' = AnswerNow
    BY <1>1 DEF AnswerNow, lineVars, treeVars, vecVars
  <2> QED
    BY <2>2, <2>3
<1>2. CASE UNCHANGED <<lineVars, treeVars, vecVars>>
  BY <1>1, <1>2 DEF LinesNow, ArrayNow, LentNow, AnswerNow, Promised!vars
<1>3. CASE LinesNext /\ Only("line", <<vars, treeVars, vecVars>>)
  <2>1. OnlyLines
    BY <1>3 DEF Only, OnlyLines, treeVars, vecVars
  <2> QED
    BY <1>3, <2>1, RefineLines
<1>4. CASE TreeNext /\ Only("tree", <<vars, lineVars, vecVars>>)
  <2>1. OnlyTree
    BY <1>4 DEF Only, OnlyTree
  <2> QED
    BY <1>4, <2>1, RefineTree
<1>5. CASE VecNext /\ Only("vector", <<vars, lineVars, treeVars>>)
  <2>1. OnlyVec
    BY <1>5 DEF Only, OnlyVec
  <2> QED
    BY <1>5, <2>1, RefineVec
<1>6. \/ UNCHANGED <<lineVars, treeVars, vecVars>>
      \/ LinesNext /\ Only("line", <<vars, treeVars, vecVars>>)
      \/ TreeNext /\ Only("tree", <<vars, lineVars, vecVars>>)
      \/ VecNext /\ Only("vector", <<vars, lineVars, treeVars>>)
  <2>1. CASE Next /\ Only("list", <<lineVars, treeVars, vecVars>>)
    BY <2>1 DEF Only
  <2>2. CASE UNCHANGED allVars
    BY <2>2 DEF allVars
  <2> QED
    BY <2>1, <2>2 DEF ContainersNext
<1> QED
  BY <1>2, <1>3, <1>4, <1>5, <1>6

(* Through any sequence of calls the queue, the stack, the tree and the     *)
(* vector hand out what the collections of the abstract specification do,   *)
(* for any addresses, hashes, pointers and sizes.                           *)
THEOREM ContainersImplementCollections == ContainersSpec => ImplementsCollections
<1> DEFINE IInv == LinesInv /\ TreeInv /\ VecInv
<1>1. ContainersInit => IInv /\ Promised!Init
  BY LinesInvInit, TreeInvInit, VecInvInit, RefineAllInit DEF ContainersInit
<1>2. IInv /\ [ContainersNext]_allVars => IInv'
  <2> SUFFICES ASSUME IInv, [ContainersNext]_allVars PROVE IInv'
    OBVIOUS
  <2>1. [LinesNext]_lineVars /\ [TreeNext]_treeVars /\ [VecNext]_vecVars
    BY StepOfEach
  <2> QED
    BY <2>1, LinesInvNext, TreeInvNext, VecInvNext
<1>3. IInv => LinesAre
  BY LinesAreRead
<1>4. IInv /\ IInv' /\ LinesAre /\ LinesAre' /\ [ContainersNext]_allVars
        => [Promised!Next]_(Promised!vars)
  BY RefineAllNext
<1> HIDE DEF IInv
<1> QED
  BY <1>1, <1>2, <1>3, <1>4, PTL DEF ContainersSpec, ImplementsCollections, Promised!Spec
=============================================================================
