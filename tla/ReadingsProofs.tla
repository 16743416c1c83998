---------------------------- MODULE ReadingsProofs ----------------------------
(***************************************************************************)
(* Proofs about what the samplers of the processor, the memory, the        *)
(* network and the block devices read and hand on, and about the bars that *)
(* the UI draws of it, for counters of any width, files of any length and  *)
(* any devices.                                                            *)
(***************************************************************************)
EXTENDS ReadingsMC, BlockDevices, SequenceTheorems, WellFoundedInduction, TLAPS

-----------------------------------------------------------------------------
(* Arithmetic in a word.                                                    *)

LEMMA Euclid ==
    ASSUME NEW w \in Nat \ {0}, NEW x \in Int
    PROVE  x % w \in 0..w - 1 /\ x \div w \in Int /\ x = w * (x \div w) + (x % w)
OBVIOUS

\* A remainder is the only one.
LEMMA OneRemainder ==
    ASSUME NEW w \in Nat \ {0}, NEW p \in Int, NEW q \in Int,
           NEW r \in 0..w - 1, NEW t \in 0..w - 1, w * p + r = w * q + t
    PROVE  r = t
<1>1. w * (p - q) = t - r
  OBVIOUS
<1>2. p - q >= 1 => w * (p - q) >= w
  OBVIOUS
<1>3. p - q <= -1 => w * (p - q) <= -w
  OBVIOUS
<1>4. p - q = 0 \/ p - q >= 1 \/ p - q <= -1
  OBVIOUS
<1>5. p - q = 0 => w * (p - q) = 0
  OBVIOUS
<1> QED
  BY <1>1, <1>2, <1>3, <1>4, <1>5

\* Whole words do not count.
LEMMA WholeWords ==
    ASSUME NEW w \in Nat \ {0}, NEW x \in Int, NEW q \in Int
    PROVE  (x + w * q) % w = x % w
<1> DEFINE y == x + w * q
<1>1. x % w \in 0..w - 1 /\ x \div w \in Int /\ x = w * (x \div w) + (x % w)
  BY Euclid
<1>2. y \in Int
  OBVIOUS
<1>3. y % w \in 0..w - 1 /\ y \div w \in Int /\ y = w * (y \div w) + (y % w)
  BY <1>2, Euclid
<1>4. y = w * ((x \div w) + q) + (x % w) /\ (x \div w) + q \in Int
  BY <1>1
<1> QED
  BY <1>1, <1>3, <1>4, OneRemainder

\* A sum may be cut to the word early.
LEMMA CutEarly ==
    ASSUME NEW w \in Nat \ {0}, NEW x \in Int, NEW y \in Int
    PROVE  ((x % w) + y) % w = (x + y) % w
<1>1. x % w \in 0..w - 1 /\ x \div w \in Int /\ x = w * (x \div w) + (x % w)
  BY Euclid
<1>2. x + y = ((x % w) + y) + w * (x \div w) /\ (x % w) + y \in Int
  BY <1>1
<1> QED
  BY <1>1, <1>2, WholeWords

\* A number below the word is its own remainder.
LEMMA SmallMod ==
    ASSUME NEW w \in Nat \ {0}, NEW x \in 0..w - 1
    PROVE  x % w = x
OBVIOUS

WordPositive == Word \in Nat \ {0}

LEMMA WordIsPositive == WordPositive
BY WordAssumption DEF WordPositive

\* The difference of two sums in the word is what one has more.
LEMMA DifferenceIsMore ==
    ASSUME NEW x \in Nat, NEW y \in Nat, NEW d \in 0..Word - 1,
           x % Word = (y + d) % Word
    PROVE  Minus(x % Word, y % Word) = d
<1> DEFINE r == y % Word
           q == y \div Word
<1>1. Word \in Nat \ {0} /\ d \in Nat /\ d \in Int /\ x \in Int /\ y \in Int
  BY WordIsPositive DEF WordPositive
<1>2. r \in 0..Word - 1 /\ q \in Int /\ y = Word * q + r
  BY <1>1, Euclid
<1> HIDE DEF r, q
<1>3. Minus(x % Word, r) = (((y + d) % Word) + (Word - r)) % Word
  <2>1. \A z \in Int : z + Word - r = z + (Word - r)
    BY <1>1, <1>2
  <2>2. (y + d) % Word \in Int
    BY <1>1
  <2> QED
    BY <2>1, <2>2 DEF Minus
<1>A. Word \in Nat \ {0} /\ y + d \in Int /\ Word - r \in Int
  BY <1>1, <1>2
<1>4. (((y + d) % Word) + (Word - r)) % Word = ((y + d) + (Word - r)) % Word
  BY <1>A, CutEarly, Zenon
<1>5. (y + d) + (Word - r) = d + Word * (q + 1) /\ q + 1 \in Int
  BY <1>1, <1>2
<1>6. (d + Word * (q + 1)) % Word = d % Word
  BY <1>1, <1>5, WholeWords, Zenon
<1>7. d % Word = d
  BY <1>1, SmallMod
<1> QED
  BY <1>3, <1>4, <1>5, <1>6, <1>7 DEF r

-----------------------------------------------------------------------------
(* The processor.                                                           *)

\* The sums before they are cut to the word.
Idles(r)    == Field(r, "idle") + Field(r, "iowait")
NonIdles(r) == Field(r, "user") + Field(r, "nice") + Field(r, "system") + Field(r, "irc")
               + Field(r, "softirc") + Field(r, "steal")

\* From reading a to reading b as many ticks passed as the history h says.
Passed_(a, b, h) ==
    /\ Idles(b) % Word = (Idles(a) + h.idle) % Word
    /\ NonIdles(b) % Word = (NonIdles(a) + h.busy) % Word

Excused == (seven /\ "steal" \in Fields) \/ since.fell

\* Between the readings the history is what the counters gained.
CpuInv ==
    /\ CpuTypeOK
    /\ since.busy + since.idle <= MaxTicks
    /\ cpu_pc = "sleep" => /\ cpu_a \in [Fields -> Counter]
                           /\ Excused \/ Passed_(cpu_a, ticks, since)
    /\ UsageIsBusyShare

LEMMA FieldTypes ==
    ASSUME NEW r \in [Fields -> Counter]
    PROVE  /\ \A f : Field(r, f) \in Nat
           /\ Idles(r) \in Nat /\ NonIdles(r) \in Nat
           /\ IdleSum(r) = Idles(r) % Word /\ NonIdle(r) = NonIdles(r) % Word
           /\ Total(r) = (Idles(r) + NonIdles(r)) % Word
<1>1. \A f : Field(r, f) \in Nat
  BY WordAssumption DEF Field, Counter
<1>2. Idles(r) \in Nat /\ NonIdles(r) \in Nat
  BY <1>1 DEF Idles, NonIdles
<1>3. IdleSum(r) = Idles(r) % Word /\ NonIdle(r) = NonIdles(r) % Word
  BY DEF IdleSum, NonIdle, Idles, NonIdles
<1>4. (Idles(r) + NonIdles(r)) % Word = ((Idles(r) % Word) + (NonIdles(r) % Word)) % Word
  <2> DEFINE x == Idles(r)
             y == NonIdles(r)
  <2>1. Word \in Nat \ {0} /\ x \in Int /\ y \in Int /\ x % Word \in Int /\ y % Word \in Int
    BY <1>2, WordIsPositive DEF WordPositive
  <2> HIDE DEF x, y
  <2>2. ((x % Word) + y) % Word = (x + y) % Word
    BY <2>1, CutEarly
  <2>3. ((y % Word) + (x % Word)) % Word = (y + (x % Word)) % Word
    BY <2>1, CutEarly
  <2>4. (y % Word) + (x % Word) = (x % Word) + (y % Word) /\ y + (x % Word) = (x % Word) + y
    BY <2>1
  <2> QED
    BY <2>2, <2>3, <2>4 DEF x, y
<1>5. Total(r) = ((Idles(r) % Word) + (NonIdles(r) % Word)) % Word
  BY <1>3 DEF Total
<1> QED
  BY <1>1, <1>2, <1>3, <1>4, <1>5

\* The usage computed from two readings is the busy share of the ticks.
LEMMA UsageOfReadings ==
    ASSUME NEW a \in [Fields -> Counter], NEW b \in [Fields -> Counter],
           NEW h \in History, h.busy + h.idle <= MaxTicks, Passed_(a, b, h)
    PROVE  Usage(a, b) = IF Ticked(h) = 0 THEN {0, Huge}
                         ELSE {(100 * h.busy) \div Ticked(h)}
<1> DEFINE ia == Idles(a)   na == NonIdles(a)
           ib == Idles(b)   nb == NonIdles(b)
           di == h.idle     dn == h.busy
<1>1. /\ ia \in Nat /\ na \in Nat /\ ib \in Nat /\ nb \in Nat
      /\ IdleSum(a) = ia % Word /\ IdleSum(b) = ib % Word
      /\ Total(a) = (ia + na) % Word /\ Total(b) = (ib + nb) % Word
  BY FieldTypes
<1>2. /\ di \in Nat /\ dn \in Nat /\ di \in 0..Word - 1 /\ dn \in 0..Word - 1
      /\ dn + di \in 0..Word - 1 /\ Ticked(h) = dn + di /\ Word \in Nat \ {0}
  BY WordAssumption DEF History, Ticked
<1>3. ib % Word = (ia + di) % Word /\ nb % Word = (na + dn) % Word
  BY DEF Passed_
<1> HIDE DEF ia, na, ib, nb, di, dn
<1>4. Minus(IdleSum(b), IdleSum(a)) = di
  <2>1. ia \in Nat /\ ib \in Nat /\ di \in 0..Word - 1 /\ ib % Word = (ia + di) % Word
    BY <1>1, <1>2, <1>3
  <2>2. Minus(ib % Word, ia % Word) = di
    BY <2>1, DifferenceIsMore, Zenon
  <2> QED
    BY <1>1, <2>2
<1>5. (ib + nb) % Word = ((ia + na) + (dn + di)) % Word
  <2>1. /\ ib \in Int /\ nb \in Int /\ ia + di \in Int /\ na + dn \in Int
    BY <1>1, <1>2
  <2>2. (ib + nb) % Word = ((ib % Word) + nb) % Word
    BY <1>2, <2>1, CutEarly
  <2>3. (((ia + di) % Word) + nb) % Word = ((ia + di) + nb) % Word
    BY <1>2, <2>1, CutEarly
  <2>4. (nb + (ia + di)) % Word = ((nb % Word) + (ia + di)) % Word
    BY <1>2, <2>1, CutEarly
  <2>5. (((na + dn) % Word) + (ia + di)) % Word = ((na + dn) + (ia + di)) % Word
    BY <1>2, <2>1, CutEarly
  <2>6. (ia + di) + nb = nb + (ia + di) /\ (na + dn) + (ia + di) = (ia + na) + (dn + di)
    BY <1>1, <1>2
  <2> QED
    BY <1>3, <2>2, <2>3, <2>4, <2>5, <2>6
<1>6. Minus(Total(b), Total(a)) = dn + di
  <2>1. ib + nb \in Nat /\ ia + na \in Nat
    BY <1>1
  <2>2. Minus((ib + nb) % Word, (ia + na) % Word) = dn + di
    BY <1>2, <1>5, <2>1, DifferenceIsMore, Zenon
  <2> QED
    BY <1>1, <2>2
<1>7. Minus(dn + di, di) = dn
  <2>0. dn \in Int /\ 1 \in Int
    BY <1>2
  <2>1. (dn + di) + Word - di = dn + Word * 1
    BY <1>2
  <2>2. (dn + Word * 1) % Word = dn % Word
    BY <1>2, <2>0, WholeWords, Zenon
  <2>3. dn % Word = dn
    BY <1>2, SmallMod
  <2> QED
    BY <2>1, <2>2, <2>3 DEF Minus
<1>8. Usage(a, b) = IF dn + di = 0 THEN {0, Huge} ELSE {(100 * dn) \div (dn + di)}
  BY <1>4, <1>6, <1>7 DEF Usage, Share
<1> QED
  BY <1>2, <1>8 DEF dn

\* Equal remainders stay equal when both numbers grow by one.
LEMMA OneMore ==
    ASSUME NEW x \in Int, NEW y \in Int, x % Word = y % Word
    PROVE  (x + 1) % Word = (y + 1) % Word
<1>1. Word \in Nat \ {0} /\ 1 \in Int
  BY WordIsPositive DEF WordPositive
<1>2. ((x % Word) + 1) % Word = (x + 1) % Word
  BY <1>1, CutEarly, Zenon
<1>3. ((y % Word) + 1) % Word = (y + 1) % Word
  BY <1>1, CutEarly, Zenon
<1> QED
  BY <1>2, <1>3

\* One of the terms of a sum grows by one, in the word.
LEMMA TermGrows ==
    ASSUME NEW t \in Int, NEW rest \in Int
    PROVE  (((t + 1) % Word) + rest) % Word = ((t + rest) + 1) % Word
<1>1. Word \in Nat \ {0} /\ t + 1 \in Int
  BY WordIsPositive DEF WordPositive
<1>2. (((t + 1) % Word) + rest) % Word = ((t + 1) + rest) % Word
  BY <1>1, CutEarly, Zenon
<1>3. (t + 1) + rest = (t + rest) + 1
  OBVIOUS
<1> QED
  BY <1>2, <1>3

IdleNames == {"idle", "iowait"}
BusyNames == {"user", "nice", "system", "irc", "softirc", "steal"}

\* Reading b is reading a with one more tick in field f.
OneTick(a, b, f, names) ==
    \A g \in names : Field(b, g) = IF g = f THEN (Field(a, g) + 1) % Word ELSE Field(a, g)

LEMMA IdleTick ==
    ASSUME NEW a \in [Fields -> Counter], NEW b \in [Fields -> Counter],
           NEW f \in IdleNames, OneTick(a, b, f, IdleNames)
    PROVE  Idles(b) % Word = (Idles(a) + 1) % Word
<1> DEFINE u == Field(a, "idle")   v == Field(a, "iowait")
<1>1. u \in Int /\ v \in Int /\ Idles(a) = u + v
  BY FieldTypes DEF Idles
<1>2. Idles(b) = (IF f = "idle" THEN (u + 1) % Word ELSE u)
                 + (IF f = "iowait" THEN (v + 1) % Word ELSE v)
  BY DEF OneTick, IdleNames, Idles
<1> HIDE DEF u, v
<1>3. ((u + 1) % Word) \in Int /\ ((v + 1) % Word) \in Int
  BY <1>1, WordIsPositive DEF WordPositive
<1>4. CASE f = "idle"
  <2>1. Idles(b) = ((u + 1) % Word) + v
    BY <1>2, <1>4
  <2> QED
    BY <1>1, <2>1, TermGrows
<1>5. CASE f = "iowait"
  <2>1. Idles(b) = ((v + 1) % Word) + u /\ Idles(a) = v + u
    BY <1>1, <1>2, <1>3, <1>5
  <2> QED
    BY <1>1, <2>1, TermGrows
<1> QED
  BY <1>4, <1>5 DEF IdleNames

LEMMA BusyTick ==
    ASSUME NEW a \in [Fields -> Counter], NEW b \in [Fields -> Counter],
           NEW f \in BusyNames, OneTick(a, b, f, BusyNames)
    PROVE  NonIdles(b) % Word = (NonIdles(a) + 1) % Word
<1> DEFINE A(g) == Field(a, g)
           B(g) == Field(b, g)
<1>1. \A g \in BusyNames : A(g) \in Int /\ B(g) \in Int
  BY FieldTypes
<1>2. /\ NonIdles(a) = A("user") + A("nice") + A("system") + A("irc") + A("softirc") + A("steal")
      /\ NonIdles(b) = B("user") + B("nice") + B("system") + B("irc") + B("softirc") + B("steal")
  BY DEF NonIdles
<1>3. \A g \in BusyNames : B(g) = IF g = f THEN (A(g) + 1) % Word ELSE A(g)
  BY DEF OneTick
<1> HIDE DEF A, B
<1>4. /\ A("user") \in Int /\ A("nice") \in Int /\ A("system") \in Int /\ A("irc") \in Int
      /\ A("softirc") \in Int /\ A("steal") \in Int
      /\ \A g \in BusyNames : g # f => B(g) = A(g)
      /\ B(f) = (A(f) + 1) % Word /\ B(f) \in Int /\ A(f) \in Int
  BY <1>1, <1>3 DEF BusyNames
<1> DEFINE rest == NonIdles(a) - A(f)
<1>5. rest \in Int /\ NonIdles(a) = A(f) + rest
  BY <1>2, <1>4
<1>6. NonIdles(b) = B(f) + rest
  <2>1. CASE f = "user"
    BY <2>1, <1>2, <1>4 DEF BusyNames
  <2>2. CASE f = "nice"
    BY <2>2, <1>2, <1>4 DEF BusyNames
  <2>3. CASE f = "system"
    BY <2>3, <1>2, <1>4 DEF BusyNames
  <2>4. CASE f = "irc"
    BY <2>4, <1>2, <1>4 DEF BusyNames
  <2>5. CASE f = "softirc"
    BY <2>5, <1>2, <1>4 DEF BusyNames
  <2>6. CASE f = "steal"
    BY <2>6, <1>2, <1>4 DEF BusyNames
  <2> QED
    BY <2>1, <2>2, <2>3, <2>4, <2>5, <2>6 DEF BusyNames
<1> HIDE DEF rest
<1> QED
  BY <1>4, <1>5, <1>6, TermGrows

\* Fields without a tick leave the sums as they are.
LEMMA SameFields ==
    ASSUME NEW a \in [Fields -> Counter], NEW b \in [Fields -> Counter]
    PROVE  /\ (\A g \in IdleNames : Field(b, g) = Field(a, g)) => Idles(b) = Idles(a)
           /\ (\A g \in BusyNames : Field(b, g) = Field(a, g)) => NonIdles(b) = NonIdles(a)
BY DEF IdleNames, BusyNames, Idles, NonIdles

-----------------------------------------------------------------------------
LEMMA CpuInitInv == CpuInit => CpuInv
BY WordAssumption DEF CpuInit, CpuInv, CpuTypeOK, UsageIsBusyShare, History, Nothing, Counter

\* A tick counts one in the history, and one in the sum that it belongs to.
LEMMA TickStep ==
    ASSUME CpuInv, NEW f \in Fields, Tick(f)
    PROVE  CpuInv'
<1>1. /\ cpu_pc = "sleep" /\ since.busy + since.idle < MaxTicks
      /\ since' = IF f \in Idle THEN [since EXCEPT !.idle = @ + 1]
                  ELSE [since EXCEPT !.busy = @ + 1]
      /\ UNCHANGED <<seven, cpu_pc, cpu_a, cpu_usage, measured>>
  BY DEF Tick
<1> DEFINE counted == {f} \cup (IF f \in Guest THEN {"user"} ELSE {})
<1>2. ticks' = [g \in Fields |-> IF g \in counted THEN (ticks[g] + 1) % Word ELSE ticks[g]]
  BY DEF Tick
<1>3. /\ ticks \in [Fields -> Counter] /\ cpu_a \in [Fields -> Counter]
      /\ since \in History /\ CpuTypeOK /\ Word \in Nat \ {0}
  BY <1>1, WordAssumption DEF CpuInv, CpuTypeOK
<1>4. ticks' \in [Fields -> Counter]
  BY <1>2, <1>3 DEF Counter
<1>5. since' \in History /\ since'.busy + since'.idle <= MaxTicks /\ since'.fell = since.fell
  BY <1>1, <1>3, WordAssumption DEF History
<1>6. CpuTypeOK'
  BY <1>1, <1>3, <1>4, <1>5 DEF CpuTypeOK
<1>7. UsageIsBusyShare'
  BY <1>1 DEF CpuInv, UsageIsBusyShare, Ticked
<1>8. Excused' <=> Excused
  BY <1>1, <1>5 DEF Excused
<1>9. ASSUME ~Excused PROVE Passed_(cpu_a, ticks', since')
  <2>1. /\ Idles(ticks) % Word = (Idles(cpu_a) + since.idle) % Word
        /\ NonIdles(ticks) % Word = (NonIdles(cpu_a) + since.busy) % Word
    BY <1>1, <1>9 DEF CpuInv, Passed_
  <2>2. /\ Idles(ticks) \in Int /\ NonIdles(ticks) \in Int
        /\ Idles(cpu_a) \in Int /\ NonIdles(cpu_a) \in Int
        /\ since.idle \in Int /\ since.busy \in Int
    BY <1>3, FieldTypes DEF History
  <2>3. PICK now : now = ticks'
    OBVIOUS
  <2>4. \A g : Field(now, g) = IF g \in counted /\ g \in Fields THEN (Field(ticks, g) + 1) % Word
                               ELSE Field(ticks, g)
    BY <1>2, <2>3 DEF Field
  <2> HIDE DEF counted
  <2>5. now \in [Fields -> Counter]
    BY <1>4, <2>3
  <2>6. CASE f \in Idle
    <3>1. f \in IdleNames /\ counted = {f}
      BY <2>6 DEF Idle, Guest, IdleNames, counted
    <3>2. OneTick(ticks, now, f, IdleNames)
      BY <2>4, <3>1 DEF OneTick
    <3>3. \A g \in BusyNames : Field(now, g) = Field(ticks, g)
      BY <2>4, <3>1 DEF IdleNames, BusyNames
    <3>4. Idles(now) % Word = (Idles(ticks) + 1) % Word /\ NonIdles(now) = NonIdles(ticks)
      BY <1>3, <2>5, <3>1, <3>2, <3>3, IdleTick, SameFields
    <3>5. (Idles(ticks) + 1) % Word = ((Idles(cpu_a) + since.idle) + 1) % Word
      BY <2>1, <2>2, OneMore
    <3>6. since'.idle = since.idle + 1 /\ since'.busy = since.busy
      BY <1>1, <1>3, <2>6 DEF History
    <3>7. (Idles(cpu_a) + since.idle) + 1 = Idles(cpu_a) + (since.idle + 1)
      BY <2>2
    <3> QED
      BY <2>1, <2>3, <3>4, <3>5, <3>6, <3>7 DEF Passed_
  <2>7. CASE f \notin Idle
    <3>1. PICK b \in BusyNames : b \in Fields /\ counted \cap BusyNames = {b}
                                 /\ counted \cap IdleNames = {}
      <4>1. CASE f \in Guest
        <5>1. counted = {f, "user"} /\ f \notin BusyNames /\ f \notin IdleNames
          BY <4>1 DEF counted, Guest, BusyNames, IdleNames
        <5>2. "user" \in BusyNames /\ "user" \in Fields /\ "user" \notin IdleNames
          BY FieldsAssumption DEF BusyNames, IdleNames, Busy
        <5> QED
          BY <5>1, <5>2
      <4>2. CASE f \in Busy
        <5>1. counted = {f} /\ f \in BusyNames /\ f \notin IdleNames
          BY <4>2 DEF counted, Guest, Busy, BusyNames, IdleNames
        <5> QED
          BY <5>1
      <4> QED
        BY <2>7, <4>1, <4>2, FieldsAssumption
    <3>2. OneTick(ticks, now, b, BusyNames)
      BY <2>4, <3>1 DEF OneTick
    <3>3. \A g \in IdleNames : Field(now, g) = Field(ticks, g)
      BY <2>4, <3>1
    <3>4. NonIdles(now) % Word = (NonIdles(ticks) + 1) % Word /\ Idles(now) = Idles(ticks)
      BY <1>3, <2>5, <3>1, <3>2, <3>3, BusyTick, SameFields
    <3>5. (NonIdles(ticks) + 1) % Word = ((NonIdles(cpu_a) + since.busy) + 1) % Word
      BY <2>1, <2>2, OneMore
    <3>6. since'.busy = since.busy + 1 /\ since'.idle = since.idle
      BY <1>1, <1>3, <2>7 DEF History
    <3>7. (NonIdles(cpu_a) + since.busy) + 1 = NonIdles(cpu_a) + (since.busy + 1)
      BY <2>2
    <3> QED
      BY <2>1, <2>3, <3>4, <3>5, <3>6, <3>7 DEF Passed_
  <2> QED
    BY <2>6, <2>7
<1>10. (Excused \/ Passed_(cpu_a, ticks, since))'
  BY <1>1, <1>8, <1>9 DEF Passed_
<1> QED
  BY <1>1, <1>3, <1>5, <1>6, <1>7, <1>10 DEF CpuInv

LEMMA CorrectStep ==
    ASSUME CpuInv, Correct
    PROVE  CpuInv'
<1>1. /\ cpu_pc = "sleep" /\ "iowait" \in Fields /\ ticks["iowait"] > 0
      /\ ticks' = [ticks EXCEPT !["iowait"] = @ - 1]
      /\ since' = [since EXCEPT !.fell = TRUE]
      /\ UNCHANGED <<seven, cpu_pc, cpu_a, cpu_usage, measured>>
  BY DEF Correct
<1>2. /\ ticks \in [Fields -> Counter] /\ since \in History /\ CpuTypeOK
  BY DEF CpuInv, CpuTypeOK
<1>3. /\ ticks' \in [Fields -> Counter] /\ since' \in History /\ since'.fell
      /\ since'.busy = since.busy /\ since'.idle = since.idle
  <2>1. ticks["iowait"] \in Counter /\ ticks["iowait"] - 1 \in Counter
    BY <1>1, <1>2, WordAssumption DEF Counter
  <2>2. ticks' \in [Fields -> Counter]
    BY <1>1, <1>2, <2>1
  <2>3. /\ since' \in History /\ since'.fell
        /\ since'.busy = since.busy /\ since'.idle = since.idle
    BY <1>1, <1>2 DEF History
  <2> QED
    BY <2>2, <2>3
<1>4. CpuTypeOK'
  BY <1>1, <1>2, <1>3 DEF CpuTypeOK
<1> QED
  BY <1>1, <1>3, <1>4 DEF CpuInv, UsageIsBusyShare, Ticked, Excused

\* A reading is the counters, except for what the kernel does not print.
LEMMA ReadingSums ==
    ASSUME ticks \in [Fields -> Counter], seven \in BOOLEAN, NEW r \in Readings
    PROVE  /\ r \in [Fields -> Counter]
           /\ \/ seven /\ "steal" \in Fields
              \/ Idles(r) = Idles(ticks) /\ NonIdles(r) = NonIdles(ticks)
<1>1. CASE ~seven
  BY <1>1 DEF Readings
<1>2. CASE seven
  <2>1. PICK q \in [Late -> Counter] :
           r = [f \in Fields |-> IF f \in Late THEN q[f] ELSE ticks[f]]
    BY <1>2 DEF Readings
  <2>2. r \in [Fields -> Counter]
    BY <2>1
  <2>3. ASSUME "steal" \notin Fields
        PROVE  Idles(r) = Idles(ticks) /\ NonIdles(r) = NonIdles(ticks)
    <3>1. \A g \in IdleNames \cup BusyNames : g \notin Late
      BY <2>3 DEF IdleNames, BusyNames, Late
    <3>2. \A g \in IdleNames \cup BusyNames : Field(r, g) = Field(ticks, g)
      BY <2>1, <3>1 DEF Field
    <3> QED
      BY <2>2, <3>2, SameFields
  <2> QED
    BY <1>2, <2>2, <2>3
<1> QED
  BY <1>1, <1>2

LEMMA ReadFirstStep ==
    ASSUME CpuInv, ReadFirst
    PROVE  CpuInv'
<1>1. /\ cpu_pc' = "sleep" /\ cpu_a' \in Readings
      /\ since' = Nothing /\ measured' = NONE
      /\ UNCHANGED <<seven, ticks, cpu_usage>>
  BY DEF ReadFirst, kernelVars
<1>2. CpuTypeOK /\ ticks \in [Fields -> Counter] /\ seven \in BOOLEAN
  BY DEF CpuInv, CpuTypeOK
<1>3. PICK a \in Readings : a = cpu_a'
  BY <1>1
<1>4. /\ a \in [Fields -> Counter]
      /\ \/ seven /\ "steal" \in Fields
         \/ Idles(a) = Idles(ticks) /\ NonIdles(a) = NonIdles(ticks)
  BY <1>2, ReadingSums
<1>5. /\ since' \in History /\ since'.busy = 0 /\ since'.idle = 0
      /\ 0 + 0 <= MaxTicks
  BY <1>1, WordAssumption DEF History, Nothing
<1>6. CpuTypeOK'
  BY <1>1, <1>2, <1>3, <1>4, <1>5 DEF CpuTypeOK
<1>7. Idles(a) + 0 = Idles(a) /\ NonIdles(a) + 0 = NonIdles(a)
  BY <1>4, FieldTypes
<1>8. (seven /\ "steal" \in Fields) \/ Passed_(a, ticks, since')
  BY <1>4, <1>5, <1>7 DEF Passed_
<1>9. (Excused \/ Passed_(cpu_a, ticks, since))'
  BY <1>1, <1>3, <1>8 DEF Excused, Passed_
<1> QED
  BY <1>1, <1>3, <1>4, <1>5, <1>6, <1>9 DEF CpuInv, UsageIsBusyShare

LEMMA ReadSecondStep ==
    ASSUME CpuInv, ReadSecond
    PROVE  CpuInv'
<1>1. /\ cpu_pc = "sleep" /\ cpu_pc' = "check" /\ cpu_a' = NONE
      /\ since' = Nothing /\ measured' = since /\ UNCHANGED <<seven, ticks>>
  BY DEF ReadSecond, kernelVars
<1>2. PICK b \in Readings : cpu_usage' \in Usage(cpu_a, b)
  BY DEF ReadSecond
<1>3. /\ CpuTypeOK /\ ticks \in [Fields -> Counter] /\ seven \in BOOLEAN
      /\ cpu_a \in [Fields -> Counter] /\ since \in History
      /\ since.busy + since.idle <= MaxTicks
      /\ Excused \/ Passed_(cpu_a, ticks, since)
  BY <1>1 DEF CpuInv, CpuTypeOK
<1>4. /\ b \in [Fields -> Counter]
      /\ \/ seven /\ "steal" \in Fields
         \/ Idles(b) = Idles(ticks) /\ NonIdles(b) = NonIdles(ticks)
  BY <1>3, ReadingSums
<1>5. cpu_usage' \in Nat
  <2> DEFINE T == Minus(Total(b), Total(cpu_a))
             I == Minus(IdleSum(b), IdleSum(cpu_a))
  <2>1. /\ Total(b) \in 0..Word - 1 /\ Total(cpu_a) \in 0..Word - 1
        /\ IdleSum(b) \in 0..Word - 1 /\ IdleSum(cpu_a) \in 0..Word - 1
        /\ Word \in Nat \ {0}
    BY <1>3, <1>4, FieldTypes, WordAssumption
  <2>2. \A x, y \in 0..Word - 1 : Minus(x, y) \in 0..Word - 1
    BY <2>1 DEF Minus
  <2>3. T \in 0..Word - 1 /\ I \in 0..Word - 1
    BY <2>1, <2>2
  <2>4. cpu_usage' \in IF T = 0 THEN {0, Huge} ELSE {(100 * Minus(T, I)) \div T}
    BY <1>2 DEF Usage, Share
  <2> HIDE DEF T, I
  <2>5. Minus(T, I) \in Nat /\ T \in Nat /\ Huge \in Nat
    <3>1. Minus(T, I) \in 0..Word - 1
      BY <2>2, <2>3, Zenon
    <3> QED
      BY <2>1, <2>3, <3>1, WordAssumption
  <2>6. \A x \in Nat : T # 0 => (100 * x) \div T \in Nat
    BY <2>5
  <2> QED
    BY <2>4, <2>5, <2>6
<1>6. \/ Excused
      \/ cpu_usage' \in IF Ticked(since) = 0 THEN {0, Huge}
                        ELSE {(100 * since.busy) \div Ticked(since)}
  <2>1. SUFFICES ASSUME ~Excused
                 PROVE  cpu_usage' \in IF Ticked(since) = 0 THEN {0, Huge}
                                       ELSE {(100 * since.busy) \div Ticked(since)}
    OBVIOUS
  <2>2. Passed_(cpu_a, b, since)
    BY <1>3, <1>4, <2>1 DEF Excused, Passed_
  <2>3. Usage(cpu_a, b) = IF Ticked(since) = 0 THEN {0, Huge}
                          ELSE {(100 * since.busy) \div Ticked(since)}
    BY <1>3, <1>4, <2>2, UsageOfReadings
  <2> QED
    BY <1>2, <2>3
<1>7. UsageIsBusyShare'
  <2>1. \/ seven' /\ "steal" \in Fields
        \/ measured'.fell \/ Ticked(measured)' = 0
        \/ cpu_usage' = (100 * measured'.busy) \div Ticked(measured)'
    BY <1>1, <1>6 DEF Excused, Ticked
  <2> QED
    BY <2>1 DEF UsageIsBusyShare
<1>8. since' \in History /\ since'.busy + since'.idle <= MaxTicks
  BY <1>1, WordAssumption DEF History, Nothing
<1>9. CpuTypeOK'
  BY <1>1, <1>3, <1>5, <1>8 DEF CpuTypeOK
<1> QED
  BY <1>1, <1>7, <1>8, <1>9 DEF CpuInv

LEMMA CpuStep ==
    CpuInv /\ [CpuNext]_cpuVars => CpuInv'
<1> SUFFICES ASSUME CpuInv, [CpuNext]_cpuVars
             PROVE  CpuInv'
  OBVIOUS
<1>1. CASE UNCHANGED cpuVars
  BY <1>1 DEF CpuInv, CpuTypeOK, UsageIsBusyShare, Ticked, Excused, Passed_, Idles, NonIdles,
              Field, cpuVars, kernelVars
<1>2. CASE CpuNext
  BY <1>2, TickStep, CorrectStep, ReadFirstStep, ReadSecondStep DEF CpuNext
<1> QED
  BY <1>1, <1>2

-----------------------------------------------------------------------------
(* One sampler at a time: a step of the whole is a step of each part.       *)

LEMMA NextParts ==
    [Next]_vars => /\ [CpuNext]_cpuVars /\ [CpuInfoNext]_infoVars
                   /\ [MemInfoNext]_memVars /\ [NetNext]_netVars
<1> SUFFICES ASSUME [Next]_vars
             PROVE  /\ [CpuNext]_cpuVars /\ [CpuInfoNext]_infoVars
                    /\ [MemInfoNext]_memVars /\ [NetNext]_netVars
  OBVIOUS
<1>1. CASE UNCHANGED vars
  BY <1>1 DEF vars, fileVars
<1>2. CASE sampler = "cpu" /\ CpuNext /\ UNCHANGED <<fileVars, netVars>>
  BY <1>2 DEF fileVars
<1>3. CASE sampler = "info" /\ CpuInfoNext /\ UNCHANGED <<cpuVars, netVars>>
  <2>1. UNCHANGED memVars
    BY <1>3 DEF CpuInfoNext, InfoGone, OpenCpuInfo, ModelName, CpuMHz, OtherLine,
                CloseCpuInfo, fileVars
  <2> QED
    BY <1>3, <2>1
<1>4. CASE sampler = "mem" /\ MemInfoNext /\ UNCHANGED <<cpuVars, netVars>>
  <2>1. UNCHANGED infoVars
    BY <1>4 DEF MemInfoNext, OpenMemInfo, Pair, CloseMemInfo
  <2> QED
    BY <1>4, <2>1
<1>5. CASE sampler = "net" /\ NetNext /\ UNCHANGED <<cpuVars, fileVars>>
  BY <1>5 DEF fileVars
<1> QED
  BY <1>1, <1>2, <1>3, <1>4, <1>5 DEF Next

(* The percentage that cpu_dev_sample stores is the share of the ticks      *)
(* between the two readings of /proc/stat that were work, rounded down, for *)
(* counters of any width, any number of ticks and any start of the          *)
(* counters: u64 sums that wrap cancel in the differences.                  *)
THEOREM UsageCorrect == Spec => []UsageIsBusyShare
<1>1. Init => CpuInv
  BY CpuInitInv DEF Init
<1>2. CpuInv /\ [Next]_vars => CpuInv'
  BY NextParts, CpuStep
<1>3. CpuInv => UsageIsBusyShare
  BY DEF CpuInv
<1> QED
  BY <1>1, <1>2, <1>3, PTL DEF Spec

-----------------------------------------------------------------------------
(* cpu_info_get.                                                            *)

\* What the lines in front of the one at hand leave in the global.
Scanned(S) == {k \in S : k < line}

SeenClocks == Scanned(Clocks)
SeenNames  == Scanned(Unclocked)

CpuTexts == Seq({"model name", "cpu MHz", "other"})

InfoInv ==
    /\ info_pc \in {"idle", "line", "crashed"}
    /\ cpuinfo \in CpuTexts
    /\ line \in 0..Len(cpuinfo) + 1
    /\ g_cpu_info = [name  |-> g_cpu_info.name, clock |-> g_cpu_info.clock,
                     cores |-> g_cpu_info.cores]
    /\ g_cpu_info.cores \in Nat
    /\ info_pc = "line" => line > 0
    /\ info_pc = "idle" => \A k \in DOMAIN cpuinfo : k < line
    /\ IF g_cpu_info.cores = 0 THEN g_cpu_info.clock = 0 /\ SeenClocks = {}
       ELSE /\ g_cpu_info.clock \in SeenClocks /\ g_cpu_info.cores < line
            /\ \A c \in Clocks : g_cpu_info.clock <= c
    /\ IF SeenNames = {} THEN g_cpu_info.name = 0
       ELSE /\ g_cpu_info.name \in SeenNames
            /\ \A k \in SeenNames : k <= g_cpu_info.name
    /\ dubbed = SeenNames \cup ({g_cpu_info.clock} \ {0})

LEMMA InfoInitInv == FileInit => InfoInv
BY DEF FileInit, InfoInv, CpuTexts, NoInfo, Scanned, SeenClocks, SeenNames, Clocks, Unclocked, Clocked, Named

LEMMA InfoInvFacts ==
    ASSUME InfoInv
    PROVE  /\ DOMAIN cpuinfo = 1..Len(cpuinfo) /\ Len(cpuinfo) \in Nat
           /\ Clocks \subseteq DOMAIN cpuinfo /\ Unclocked \subseteq DOMAIN cpuinfo
           /\ Unclocked \cap Clocks = {}
<1>1. DOMAIN cpuinfo = 1..Len(cpuinfo) /\ Len(cpuinfo) \in Nat
  BY LenProperties DEF InfoInv, CpuTexts
<1> QED
  BY <1>1 DEF Clocks, Unclocked, Clocked, Named

LEMMA InfoHolds == InfoInv => InfoOfFirstProcessor
<1> SUFFICES ASSUME InfoInv, info_pc = "idle"
             PROVE  InfoOfFirstProcessor
  BY DEF InfoOfFirstProcessor
<1>1. /\ DOMAIN cpuinfo = 1..Len(cpuinfo) /\ Len(cpuinfo) \in Nat
      /\ Clocks \subseteq DOMAIN cpuinfo /\ Unclocked \subseteq DOMAIN cpuinfo
      /\ Unclocked \cap Clocks = {}
  BY InfoInvFacts
<1>2. SeenClocks = Clocks /\ SeenNames = Unclocked
  BY <1>1 DEF InfoInv, Scanned, SeenClocks, SeenNames
<1>3. \A c \in Clocks : g_cpu_info.clock \in Clocks /\ g_cpu_info.clock <= c
  BY <1>2 DEF InfoInv
<1>4. \A k \in Unclocked : g_cpu_info.name \in Unclocked /\ k <= g_cpu_info.name
  BY <1>2 DEF InfoInv
<1>5. g_cpu_info.clock \in Clocks \cup {0}
  BY <1>2 DEF InfoInv
<1>6. IF Unclocked = {} THEN g_cpu_info.name = 0 ELSE g_cpu_info.name \in Unclocked
  BY <1>2 DEF InfoInv
<1>7. dubbed = Unclocked \cup ({g_cpu_info.clock} \ {0})
  BY <1>2 DEF InfoInv
<1>8. dubbed \ {g_cpu_info.name, g_cpu_info.clock} = {k \in Unclocked : k < g_cpu_info.name}
  <2>1. \A k \in Unclocked : k \in Nat /\ k # g_cpu_info.clock /\ k # 0
    BY <1>1, <1>5
  <2>2. dubbed \ {g_cpu_info.name, g_cpu_info.clock} = Unclocked \ {g_cpu_info.name}
    BY <1>7, <2>1
  <2>3. \A k \in Unclocked : k < g_cpu_info.name <=> k # g_cpu_info.name
    BY <1>4, <2>1
  <2> QED
    BY <2>2, <2>3
<1>9. {g_cpu_info.name, g_cpu_info.clock} \ {0} \subseteq dubbed
  BY <1>6, <1>7
<1> QED
  BY <1>3, <1>4, <1>8, <1>9 DEF InfoOfFirstProcessor

\* The line at hand joins those that were scanned.
LEMMA OneLineOn ==
    ASSUME InfoInv, info_pc = "line", line <= Len(cpuinfo), NEW S, S \subseteq DOMAIN cpuinfo
    PROVE  {k \in S : k < line + 1} = Scanned(S) \cup (S \cap {line})
<1>1. DOMAIN cpuinfo = 1..Len(cpuinfo) /\ Len(cpuinfo) \in Nat
  BY InfoInvFacts
<1>A. line \in 0..Len(cpuinfo) + 1
  BY DEF InfoInv
<1>2. line \in Nat
  BY <1>1, <1>A
<1>3. \A k \in S : k \in Nat
  BY <1>1
<1>4. \A k \in S : k < line + 1 <=> (k < line \/ k = line)
  BY <1>2, <1>3
<1> QED
  BY <1>2, <1>4 DEF Scanned, SeenClocks, SeenNames

LEMMA OpenCpuInfoStep ==
    ASSUME InfoInv, OpenCpuInfo
    PROVE  InfoInv'
<1>1. /\ cpuinfo' \in CpuFiles /\ line' = 1 /\ g_cpu_info' = NoInfo /\ dubbed' = {}
      /\ info_pc' = IF cpuinfo' = <<>> THEN "crashed" ELSE "line"
  BY DEF OpenCpuInfo
<1>2. PICK file : file = cpuinfo'
  OBVIOUS
<1>3. file \in CpuTexts
  BY <1>1, <1>2, CpuFilesAssumption DEF CpuTexts
<1>4. DOMAIN file = 1..Len(file) /\ Len(file) \in Nat
  BY <1>3, LenProperties DEF CpuTexts
<1>5. \A S : S \subseteq DOMAIN file => {k \in S : k < 1} = {}
  BY <1>4
<1>6. /\ Clocks' = {k \in DOMAIN file : file[k] = "cpu MHz"}
      /\ Unclocked' \subseteq DOMAIN file
  BY <1>2 DEF Clocks, Unclocked, Clocked
<1>7. SeenClocks' = {} /\ SeenNames' = {}
  BY <1>1, <1>5, <1>6 DEF Scanned, SeenClocks, SeenNames
<1>8. /\ g_cpu_info'.name = 0 /\ g_cpu_info'.clock = 0 /\ g_cpu_info'.cores = 0
      /\ g_cpu_info' = [name |-> 0, clock |-> 0, cores |-> 0]
  BY <1>1 DEF NoInfo
<1>9. /\ info_pc' \in {"line", "crashed"} /\ line' \in 0..Len(cpuinfo)' + 1 /\ line' > 0
  BY <1>1, <1>2, <1>4
<1>10. cpuinfo' \in CpuTexts
  BY <1>2, <1>3
<1>11. (IF g_cpu_info.cores = 0 THEN g_cpu_info.clock = 0 /\ SeenClocks = {}
        ELSE /\ g_cpu_info.clock \in SeenClocks /\ g_cpu_info.cores < line
             /\ \A c \in Clocks : g_cpu_info.clock <= c)'
  BY <1>7, <1>8
<1>12. (IF SeenNames = {} THEN g_cpu_info.name = 0
        ELSE /\ g_cpu_info.name \in SeenNames
             /\ \A k \in SeenNames : k <= g_cpu_info.name)'
  BY <1>7, <1>8
<1>13. (dubbed = SeenNames \cup ({g_cpu_info.clock} \ {0}))'
  BY <1>1, <1>7, <1>8
<1>14. g_cpu_info' = [name  |-> g_cpu_info'.name, clock |-> g_cpu_info'.clock,
                      cores |-> g_cpu_info'.cores] /\ g_cpu_info'.cores \in Nat
  BY <1>8
<1> QED
  BY <1>9, <1>10, <1>11, <1>12, <1>13, <1>14 DEF InfoInv

\* The next line of the text, of one of the three kinds.
LEMMA LineAtHand ==
    ASSUME InfoInv, NEW kind, Current(kind)
    PROVE  /\ info_pc = "line" /\ line \in DOMAIN cpuinfo /\ cpuinfo[line] = kind
           /\ line \in Nat /\ line > 0 /\ line <= Len(cpuinfo) /\ line' = line + 1
           /\ cpuinfo' = cpuinfo => /\ Clocks' = Clocks /\ Unclocked' = Unclocked
                                    /\ line' \in 0..Len(cpuinfo) + 1 /\ line' > 0
                                    /\ \A S : S \subseteq DOMAIN cpuinfo =>
                                         {k \in S : k < line'} = Scanned(S) \cup (S \cap {line})
<1>1. /\ info_pc = "line" /\ line <= Len(cpuinfo) /\ cpuinfo[line] = kind /\ line' = line + 1
  BY DEF Current
<1>2. /\ DOMAIN cpuinfo = 1..Len(cpuinfo) /\ Len(cpuinfo) \in Nat
  BY InfoInvFacts
<1>3. line \in 0..Len(cpuinfo) + 1 /\ line > 0
  BY <1>1 DEF InfoInv
<1>4. line \in DOMAIN cpuinfo /\ line \in Nat /\ line' \in 0..Len(cpuinfo) + 1 /\ line' > 0
  BY <1>1, <1>2, <1>3
<1>5. cpuinfo' = cpuinfo => Clocks' = Clocks /\ Unclocked' = Unclocked
  BY DEF Clocks, Unclocked, Clocked, Named
<1>6. \A S : S \subseteq DOMAIN cpuinfo =>
         {k \in S : k < line'} = Scanned(S) \cup (S \cap {line})
  BY <1>1, OneLineOn
<1> QED
  BY <1>1, <1>4, <1>5, <1>6

\* The part of the invariant that a line without a copy keeps.
LEMMA ScanOn ==
    ASSUME InfoInv, NEW kind, Current(kind), UNCHANGED <<info_pc, cpuinfo>>
    PROVE  /\ line \in DOMAIN cpuinfo /\ cpuinfo[line] = kind /\ line \in Nat
           /\ line > 0 /\ line' = line + 1
           /\ info_pc' = "line" /\ cpuinfo' \in CpuTexts
           /\ line' \in 0..Len(cpuinfo') + 1 /\ line' > 0
           /\ Clocks' = Clocks /\ Unclocked' = Unclocked
           /\ SeenClocks' = SeenClocks \cup (Clocks \cap {line})
           /\ SeenNames' = SeenNames \cup (Unclocked \cap {line})
<1>1. Clocks \subseteq DOMAIN cpuinfo /\ Unclocked \subseteq DOMAIN cpuinfo
  BY InfoInvFacts
<1>2. cpuinfo \in CpuTexts
  BY DEF InfoInv
<1>3. cpuinfo' = cpuinfo /\ info_pc' = info_pc
  OBVIOUS
<1>4. Clocks' = Clocks /\ Unclocked' = Unclocked
  BY <1>3, LineAtHand
<1>5. /\ {k \in Clocks : k < line'} = SeenClocks \cup (Clocks \cap {line})
      /\ {k \in Unclocked : k < line'} = SeenNames \cup (Unclocked \cap {line})
  BY <1>1, <1>3, LineAtHand DEF SeenClocks, SeenNames
<1>6. /\ SeenClocks' = {k \in Clocks : k < line'}
      /\ SeenNames' = {k \in Unclocked : k < line'}
  BY <1>4 DEF Scanned, SeenClocks, SeenNames
<1>7. /\ line \in DOMAIN cpuinfo /\ cpuinfo[line] = kind /\ line \in Nat /\ line > 0
      /\ line' = line + 1
      /\ info_pc = "line" /\ line' \in 0..Len(cpuinfo) + 1 /\ line' > 0
  BY <1>3, LineAtHand
<1> QED
  BY <1>2, <1>3, <1>4, <1>5, <1>6, <1>7

LEMMA ModelNameStep ==
    ASSUME InfoInv, ModelName
    PROVE  InfoInv'
<1>A. Current("model name") /\ UNCHANGED <<info_pc, cpuinfo>>
  BY DEF ModelName
<1>B. line \in Nat /\ line > 0 /\ line' = line + 1
  BY <1>A, ScanOn
<1>1. /\ IF g_cpu_info.cores > 0 THEN UNCHANGED <<g_cpu_info, dubbed>>
         ELSE /\ g_cpu_info' = [g_cpu_info EXCEPT !.name = line]
              /\ dubbed' = dubbed \cup {line}
  BY DEF ModelName
<1>2. /\ line \in DOMAIN cpuinfo /\ cpuinfo[line] = "model name" /\ line \in Nat
      /\ line' = line + 1
      /\ info_pc' = "line" /\ cpuinfo' \in CpuTexts
      /\ line' \in 0..Len(cpuinfo') + 1 /\ line' > 0
      /\ Clocks' = Clocks /\ Unclocked' = Unclocked
      /\ SeenClocks' = SeenClocks \cup (Clocks \cap {line})
      /\ SeenNames' = SeenNames \cup (Unclocked \cap {line})
  BY <1>A, ScanOn
<1>3. line \notin Clocks /\ SeenClocks' = SeenClocks
  BY <1>2 DEF Clocks, Clocked
<1>4. PICK info : info = g_cpu_info
  OBVIOUS
<1>5. /\ info = [name |-> info.name, clock |-> info.clock, cores |-> info.cores]
      /\ info.cores \in Nat
      /\ IF info.cores = 0 THEN info.clock = 0 /\ SeenClocks = {}
         ELSE /\ info.clock \in SeenClocks /\ info.cores < line
              /\ \A c \in Clocks : info.clock <= c
      /\ IF SeenNames = {} THEN info.name = 0
         ELSE /\ info.name \in SeenNames
              /\ \A k \in SeenNames : k <= info.name
      /\ dubbed = SeenNames \cup ({info.clock} \ {0})
  BY <1>4 DEF InfoInv
<1>6. /\ DOMAIN cpuinfo = 1..Len(cpuinfo) /\ Len(cpuinfo) \in Nat
      /\ Clocks \subseteq DOMAIN cpuinfo /\ Unclocked \subseteq DOMAIN cpuinfo
  BY InfoInvFacts
<1>7. /\ SeenClocks \subseteq Clocks /\ SeenNames \subseteq Unclocked
      /\ \A k \in SeenClocks \cup SeenNames : k < line
  BY DEF Scanned, SeenClocks, SeenNames
<1>8. CASE info.cores = 0
  <2>1. g_cpu_info' = [name |-> line, clock |-> info.clock, cores |-> info.cores]
    BY <1>1, <1>4, <1>5, <1>8
  <2>2. dubbed' = dubbed \cup {line}
    BY <1>1, <1>4, <1>8
  <2>3. line \in Unclocked
    <3>1. \A c \in Clocks : c \notin SeenClocks /\ c # line /\ c \in Nat
      BY <1>3, <1>5, <1>6, <1>8
    <3>2. \A c \in Clocks : line < c
      BY <1>B, <3>1 DEF Scanned, SeenClocks, SeenNames
    <3> QED
      BY <1>2, <3>2 DEF Unclocked, Named
  <2>4. SeenNames' = SeenNames \cup {line}
    BY <1>2, <2>3
  <2>5. \A k \in SeenNames \cup {line} : k <= line
    <3>1. \A k \in SeenNames : k \in Nat /\ k < line
      BY <1>6, <1>7
    <3> QED
      BY <1>B, <3>1
  <2>6. dubbed' = (SeenNames \cup {line}) \cup ({info.clock} \ {0})
    BY <1>5, <2>2
  <2> QED
    BY <1>2, <1>3, <1>5, <1>8, <2>1, <2>4, <2>5, <2>6 DEF InfoInv
<1>9. CASE info.cores # 0
  <2>1. g_cpu_info' = info /\ dubbed' = dubbed
    BY <1>1, <1>4, <1>5, <1>9
  <2>2. line \notin Unclocked
    <3>1. info.clock \in Clocks /\ info.clock < line /\ info.clock \in Nat
      BY <1>5, <1>6, <1>7, <1>9
    <3>2. ~(line < info.clock)
      BY <1>B, <3>1
    <3> QED
      BY <3>1, <3>2 DEF Unclocked
  <2>3. SeenNames' = SeenNames
    BY <1>2, <2>2
  <2>4. info.cores < line'
    BY <1>B, <1>5, <1>9
  <2> QED
    BY <1>2, <1>3, <1>5, <1>9, <2>1, <2>3, <2>4 DEF InfoInv
<1> QED
  BY <1>8, <1>9

LEMMA CpuMHzStep ==
    ASSUME InfoInv, CpuMHz
    PROVE  InfoInv'
<1>A. Current("cpu MHz") /\ UNCHANGED <<info_pc, cpuinfo>>
  BY DEF CpuMHz
<1>B. line \in Nat /\ line > 0 /\ line' = line + 1
  BY <1>A, ScanOn
<1>1. /\ IF g_cpu_info.cores > 0
         THEN g_cpu_info' = [g_cpu_info EXCEPT !.cores = @ + 1] /\ UNCHANGED dubbed
         ELSE /\ g_cpu_info' = [g_cpu_info EXCEPT !.cores = 1, !.clock = line]
              /\ dubbed' = dubbed \cup {line}
  BY DEF CpuMHz
<1>2. /\ line \in DOMAIN cpuinfo /\ cpuinfo[line] = "cpu MHz" /\ line \in Nat
      /\ line' = line + 1
      /\ info_pc' = "line" /\ cpuinfo' \in CpuTexts
      /\ line' \in 0..Len(cpuinfo') + 1 /\ line' > 0
      /\ Clocks' = Clocks /\ Unclocked' = Unclocked
      /\ SeenClocks' = SeenClocks \cup (Clocks \cap {line})
      /\ SeenNames' = SeenNames \cup (Unclocked \cap {line})
  BY <1>A, ScanOn
<1>3. line \in Clocks /\ SeenClocks' = SeenClocks \cup {line}
  BY <1>2 DEF Clocks, Clocked
<1>4. line \notin Unclocked /\ SeenNames' = SeenNames
  BY <1>2 DEF Unclocked, Named
<1>5. PICK info : info = g_cpu_info
  OBVIOUS
<1>6. /\ info = [name |-> info.name, clock |-> info.clock, cores |-> info.cores]
      /\ info.cores \in Nat
      /\ IF info.cores = 0 THEN info.clock = 0 /\ SeenClocks = {}
         ELSE /\ info.clock \in SeenClocks /\ info.cores < line
              /\ \A c \in Clocks : info.clock <= c
      /\ IF SeenNames = {} THEN info.name = 0
         ELSE /\ info.name \in SeenNames
              /\ \A k \in SeenNames : k <= info.name
      /\ dubbed = SeenNames \cup ({info.clock} \ {0})
  BY <1>5 DEF InfoInv
<1>7. /\ DOMAIN cpuinfo = 1..Len(cpuinfo) /\ Len(cpuinfo) \in Nat
      /\ Clocks \subseteq DOMAIN cpuinfo
  BY InfoInvFacts
<1>8. CASE info.cores = 0
  <2>1. g_cpu_info' = [name |-> info.name, clock |-> line, cores |-> 1]
    <3>1. g_cpu_info' = [info EXCEPT !.cores = 1, !.clock = line]
      BY <1>1, <1>5, <1>8
    <3>2. info = [name |-> info.name, clock |-> info.clock, cores |-> info.cores]
      BY <1>6
    <3> QED
      BY <3>1, <3>2
  <2>2. dubbed' = dubbed \cup {line}
    BY <1>1, <1>5, <1>8
  <2>3. \A c \in Clocks : line <= c
    <3>1. \A c \in Clocks : c \in Nat /\ ~(c < line)
      BY <1>6, <1>7, <1>8 DEF Scanned, SeenClocks, SeenNames
    <3> QED
      BY <1>B, <3>1
  <2>4. dubbed' = SeenNames \cup ({line} \ {0}) /\ 1 < line' /\ 1 \in Nat /\ 1 # 0
    <3>1. line # 0 /\ 1 < line'
      BY <1>B
    <3>2. dubbed = SeenNames \cup ({0} \ {0})
      BY <1>6, <1>8
    <3> QED
      BY <2>2, <3>1, <3>2
  <2> QED
    BY <1>2, <1>3, <1>4, <1>6, <2>1, <2>3, <2>4 DEF InfoInv
<1>9. CASE info.cores # 0
  <2>1. /\ g_cpu_info' = [name |-> info.name, clock |-> info.clock, cores |-> info.cores + 1]
        /\ dubbed' = dubbed
    BY <1>1, <1>5, <1>6, <1>9
  <2>2. info.cores + 1 \in Nat /\ info.cores + 1 # 0 /\ info.cores + 1 < line'
    BY <1>B, <1>6, <1>9
  <2> QED
    BY <1>2, <1>3, <1>4, <1>6, <1>9, <2>1, <2>2 DEF InfoInv
<1> QED
  BY <1>8, <1>9

LEMMA OtherLineStep ==
    ASSUME InfoInv, OtherLine
    PROVE  InfoInv'
<1>A. Current("other") /\ UNCHANGED <<info_pc, cpuinfo>>
  BY DEF OtherLine
<1>1. UNCHANGED <<g_cpu_info, dubbed>>
  BY DEF OtherLine
<1>2. /\ cpuinfo[line] = "other" /\ line \in Nat /\ line' = line + 1
      /\ info_pc' = "line" /\ cpuinfo' \in CpuTexts
      /\ line' \in 0..Len(cpuinfo') + 1 /\ line' > 0
      /\ Clocks' = Clocks /\ Unclocked' = Unclocked
      /\ SeenClocks' = SeenClocks \cup (Clocks \cap {line})
      /\ SeenNames' = SeenNames \cup (Unclocked \cap {line})
  BY <1>A, ScanOn
<1>3. /\ SeenClocks' = SeenClocks /\ SeenNames' = SeenNames
  BY <1>2 DEF Clocks, Clocked, Unclocked, Named
<1>4. g_cpu_info.cores \in Nat /\ (g_cpu_info.cores < line => g_cpu_info.cores < line')
  BY <1>2 DEF InfoInv
<1> QED
  BY <1>1, <1>2, <1>3, <1>4 DEF InfoInv

LEMMA CloseCpuInfoStep ==
    ASSUME InfoInv, CloseCpuInfo
    PROVE  InfoInv'
<1>1. /\ info_pc = "line" /\ line > Len(cpuinfo) /\ info_pc' = "idle"
      /\ UNCHANGED <<line, cpuinfo, g_cpu_info, dubbed>>
  BY DEF CloseCpuInfo
<1>2. DOMAIN cpuinfo = 1..Len(cpuinfo) /\ Len(cpuinfo) \in Nat
  BY InfoInvFacts
<1>3. line \in 0..Len(cpuinfo) + 1
  BY DEF InfoInv
<1>4. \A k \in DOMAIN cpuinfo : k < line
  BY <1>1, <1>2, <1>3
<1> QED
  <2>1. UNCHANGED <<SeenClocks, SeenNames, Clocks, Unclocked>>
    BY <1>1 DEF Scanned, SeenClocks, SeenNames, Clocks, Unclocked, Clocked, Named
  <2> QED
    BY <1>1, <1>4, <2>1 DEF InfoInv

LEMMA InfoFrame ==
    ASSUME InfoInv, UNCHANGED <<info_pc, line, cpuinfo, g_cpu_info, dubbed>>
    PROVE  InfoInv'
<1>1. UNCHANGED <<SeenClocks, SeenNames, Clocks, Unclocked>>
  BY DEF Scanned, SeenClocks, SeenNames, Clocks, Unclocked, Clocked, Named
<1> QED
  BY <1>1 DEF InfoInv

LEMMA InfoStep ==
    InfoInv /\ [CpuInfoNext]_infoVars => InfoInv'
<1> SUFFICES ASSUME InfoInv, [CpuInfoNext]_infoVars
             PROVE  InfoInv'
  OBVIOUS
<1>1. CASE UNCHANGED infoVars
  <2>1. UNCHANGED <<info_pc, line, cpuinfo, g_cpu_info, dubbed>>
    BY <1>1 DEF infoVars
  <2> QED
    BY <2>1, InfoFrame
<1>2. CASE InfoGone
  <2>1. UNCHANGED <<info_pc, line, cpuinfo, g_cpu_info, dubbed>>
    BY <1>2 DEF InfoGone, fileVars, infoVars
  <2> QED
    BY <2>1, InfoFrame
<1> QED
  BY <1>1, <1>2, OpenCpuInfoStep, ModelNameStep, CpuMHzStep, OtherLineStep, CloseCpuInfoStep
     DEF CpuInfoNext

(* What cpu_info_get leaves in cpu_info belongs to the first processor,     *)
(* whatever lines the kernel prints and in whatever order: the first clock, *)
(* the last name in front of it, and a copy that was lost for each name     *)
(* that another one replaced.                                               *)
THEOREM InfoCorrect == Spec => []InfoOfFirstProcessor
<1>1. Init => InfoInv
  BY InfoInitInv DEF Init
<1>2. InfoInv /\ [Next]_vars => InfoInv'
  BY NextParts, InfoStep
<1>3. InfoInv => InfoOfFirstProcessor
  BY InfoHolds
<1> QED
  BY <1>1, <1>2, <1>3, PTL DEF Spec

-----------------------------------------------------------------------------
(* mem_info_get.                                                            *)

MemTexts == Seq([key : STRING, val : Nat])

\* The lines looked at so far that have this key.
Looked(key) == {k \in DOMAIN meminfo : meminfo[k].key = key /\ k <= popped}

\* The field of this key has the number of such a line, if there is one.
FieldOfLines(key) ==
    IF Looked(key) = {} THEN g_mem_info[key] = 0
    ELSE \E k \in Looked(key) : g_mem_info[key] = meminfo[k].val

\* The loop ends behind two thirds of the pairs, or at SwapFree.
Done ==
    \/ popped = Reached
    \/ popped \in DOMAIN meminfo /\ meminfo[popped].key = "SwapFree"

MemInv ==
    /\ mem_pc \in {"idle", "pair", "close"}
    /\ meminfo \in MemFiles \cup {<<>>}
    /\ popped \in 0..Len(meminfo) /\ i = popped /\ popped <= Reached
    /\ \A k \in DOMAIN meminfo : k < popped => meminfo[k].key # "SwapFree"
    /\ mem_pc = "pair" => \A k \in DOMAIN meminfo : k <= popped => meminfo[k].key # "SwapFree"
    /\ mem_pc # "pair" => Done
    /\ matched = IF mem_pc = "idle" THEN {} ELSE popped + 1..Len(meminfo)
    /\ g_mem_info = [key \in Keys |-> g_mem_info[key]]
    /\ \A key \in Keys : FieldOfLines(key)

\* Less than two thirds is less than what they are rounded up to.
LEMMA TwoThirds ==
    ASSUME NEW n \in Nat, NEW p \in Nat
    PROVE  /\ p < 2 * (n - p) <=> p < (2 * n + 2) \div 3
           /\ (2 * n + 2) \div 3 \in Nat /\ (2 * n + 2) \div 3 <= n
OBVIOUS

LEMMA MemTextTypes ==
    ASSUME NEW file \in MemFiles \cup {<<>>}
    PROVE  /\ Len(file) \in Nat /\ DOMAIN file = 1..Len(file)
           /\ \A k \in DOMAIN file : file[k].val \in Nat
<1>1. file \in MemTexts
  <2>1. CASE file \in MemFiles
    BY <2>1, MemFilesAssumption DEF MemTexts
  <2>2. CASE file = <<>>
    BY <2>2, EmptySeq DEF MemTexts
  <2> QED
    BY <2>1, <2>2
<1>2. /\ Len(file) \in Nat /\ DOMAIN file = 1..Len(file)
      /\ file \in [1..Len(file) -> [key : STRING, val : Nat]]
  BY <1>1, LenProperties DEF MemTexts
<1> QED
  BY <1>2

LEMMA MemFacts ==
    ASSUME MemInv
    PROVE  /\ Len(meminfo) \in Nat /\ DOMAIN meminfo = 1..Len(meminfo)
           /\ \A k \in DOMAIN meminfo : meminfo[k].val \in Nat
           /\ popped \in Nat /\ popped <= Len(meminfo)
           /\ Reached \in Nat /\ Reached <= Len(meminfo)
           /\ popped < Size <=> popped < Reached
<1>1. /\ Len(meminfo) \in Nat /\ DOMAIN meminfo = 1..Len(meminfo)
      /\ \A k \in DOMAIN meminfo : meminfo[k].val \in Nat
  BY MemTextTypes DEF MemInv
<1>2. popped \in 0..Len(meminfo)
  BY DEF MemInv
<1>3. popped \in Nat /\ popped <= Len(meminfo)
  BY <1>1, <1>2
<1>4. /\ Reached \in Nat /\ Reached <= Len(meminfo)
      /\ popped < Size <=> popped < Reached
  BY <1>1, <1>3, TwoThirds DEF Reached, Size
<1> QED
  BY <1>1, <1>3, <1>4

LEMMA MemInitInv == FileInit => MemInv
<1> SUFFICES ASSUME FileInit
             PROVE  MemInv
  OBVIOUS
<1>1. /\ mem_pc = "idle" /\ meminfo = <<>> /\ i = 0 /\ popped = 0
      /\ g_mem_info = [k \in Keys |-> 0] /\ matched = {}
  BY DEF FileInit, NoMem
<1>2. Len(meminfo) = 0 /\ DOMAIN meminfo = {} /\ Reached = 0
  BY <1>1 DEF Reached
<1>3. \A key \in Keys : FieldOfLines(key)
  BY <1>1, <1>2 DEF FieldOfLines, Looked
<1> QED
  BY <1>1, <1>2, <1>3 DEF MemInv, Done

LEMMA MemHolds == MemInv => MemInfoOfTwoThirds
<1> SUFFICES ASSUME MemInv, mem_pc = "idle", NEW key \in Keys
             PROVE  LET lines == {k \in DOMAIN meminfo : /\ meminfo[k].key = key
                                                         /\ k <= Reached /\ ~Ended(k)}
                    IN  IF lines = {} THEN g_mem_info[key] = 0
                        ELSE \E k \in lines : g_mem_info[key] = meminfo[k].val
  BY DEF MemInfoOfTwoThirds, MemInv
<1>1. /\ Len(meminfo) \in Nat /\ DOMAIN meminfo = 1..Len(meminfo)
      /\ popped \in Nat /\ popped <= Len(meminfo) /\ Reached \in Nat
  BY MemFacts
<1>2. /\ popped <= Reached /\ Done /\ FieldOfLines(key)
      /\ \A k \in DOMAIN meminfo : k < popped => meminfo[k].key # "SwapFree"
  BY DEF MemInv
<1>3. \A k \in DOMAIN meminfo : k <= popped <=> (k <= Reached /\ ~Ended(k))
  <2> SUFFICES ASSUME NEW k \in DOMAIN meminfo
               PROVE  k <= popped <=> (k <= Reached /\ ~Ended(k))
    OBVIOUS
  <2>1. ASSUME k <= popped PROVE k <= Reached /\ ~Ended(k)
    <3>1. \A e \in 1..k - 1 : e \in DOMAIN meminfo /\ e < popped
      BY <1>1, <2>1
    <3> QED
      BY <1>1, <1>2, <2>1, <3>1 DEF Ended
  <2>2. ASSUME popped < k PROVE ~(k <= Reached) \/ Ended(k)
    <3>1. CASE popped = Reached
      BY <1>1, <2>2, <3>1
    <3>2. CASE popped \in DOMAIN meminfo /\ meminfo[popped].key = "SwapFree"
      <4>1. popped \in 1..k - 1
        BY <1>1, <2>2, <3>2
      <4> QED
        BY <3>2, <4>1 DEF Ended
    <3> QED
      BY <1>2, <3>1, <3>2 DEF Done
  <2>3. k <= popped \/ popped < k
    BY <1>1
  <2> QED
    BY <2>1, <2>2, <2>3
<1>4. Looked(key) = {k \in DOMAIN meminfo : /\ meminfo[k].key = key
                                            /\ k <= Reached /\ ~Ended(k)}
  BY <1>3 DEF Looked
<1> QED
  BY <1>2, <1>4 DEF FieldOfLines

LEMMA OpenMemInfoStep ==
    ASSUME OpenMemInfo
    PROVE  MemInv'
<1>1. /\ mem_pc' = "pair" /\ meminfo' \in MemFiles /\ i' = 0 /\ popped' = 0
      /\ g_mem_info' = [k \in Keys |-> 0] /\ matched' = DOMAIN meminfo'
  BY DEF OpenMemInfo, NoMem
<1>2. PICK file : file = meminfo'
  OBVIOUS
<1>3. file \in MemFiles \cup {<<>>}
  BY <1>1, <1>2
<1>4. Len(file) \in Nat /\ DOMAIN file = 1..Len(file)
  BY <1>3, MemTextTypes
<1>5. Reached' \in Nat
  BY <1>2, <1>4, TwoThirds DEF Reached
<1>6. \A k \in DOMAIN file : ~(k <= 0)
  BY <1>4
<1>7. \A key \in Keys : FieldOfLines(key)'
  BY <1>1, <1>2, <1>6 DEF FieldOfLines, Looked
<1>8. /\ popped' \in 0..Len(meminfo') /\ popped' <= Reached'
      /\ \A k \in DOMAIN meminfo' : ~(k <= popped') /\ ~(k < popped')
  BY <1>1, <1>2, <1>4, <1>5, <1>6
<1>9. matched' = popped' + 1..Len(meminfo')
  BY <1>1, <1>2, <1>4
<1> QED
  BY <1>1, <1>2, <1>3, <1>7, <1>8, <1>9 DEF MemInv

LEMMA PairStep ==
    ASSUME MemInv, Pair
    PROVE  MemInv'
<1> DEFINE p == meminfo[popped + 1]
<1>1. /\ mem_pc = "pair" /\ i < Size
      /\ g_mem_info' = IF p.key \in Keys THEN [g_mem_info EXCEPT ![p.key] = p.val]
                       ELSE g_mem_info
      /\ mem_pc' = IF p.key = "SwapFree" THEN "close" ELSE "pair"
      /\ matched' = matched \ {popped + 1}
      /\ i' = i + 1 /\ popped' = popped + 1 /\ meminfo' = meminfo
  BY DEF Pair
<1>2. /\ Len(meminfo) \in Nat /\ DOMAIN meminfo = 1..Len(meminfo)
      /\ popped \in Nat /\ popped <= Len(meminfo)
      /\ Reached \in Nat /\ Reached <= Len(meminfo)
      /\ popped < Size <=> popped < Reached
  BY MemFacts
<1>3. /\ meminfo \in MemFiles \cup {<<>>} /\ i = popped
      /\ g_mem_info = [key \in Keys |-> g_mem_info[key]]
      /\ \A k \in DOMAIN meminfo : k <= popped => meminfo[k].key # "SwapFree"
      /\ matched = popped + 1..Len(meminfo)
      /\ \A key \in Keys : FieldOfLines(key)
  BY <1>1 DEF MemInv
<1>4. popped < Reached
  BY <1>1, <1>2, <1>3
<1>5. /\ popped + 1 \in DOMAIN meminfo /\ popped + 1 <= Reached /\ Reached' = Reached
      /\ popped + 1 \in 0..Len(meminfo)
  BY <1>1, <1>2, <1>4 DEF Reached
<1>6. \A k \in DOMAIN meminfo : k <= popped + 1 <=> (k <= popped \/ k = popped + 1)
  BY <1>2
<1>7. \A k \in DOMAIN meminfo : k < popped + 1 <=> k <= popped
  BY <1>2
<1>8. matched' = popped + 2..Len(meminfo)
  BY <1>1, <1>2, <1>3
<1>9. ASSUME NEW key \in Keys PROVE FieldOfLines(key)'
  <2>1. Looked(key)' = Looked(key) \cup {k \in {popped + 1} : p.key = key}
    BY <1>1, <1>5, <1>6 DEF Looked
  <2>2. CASE p.key = key
    <3>1. g_mem_info'[key] = p.val
      BY <1>1, <1>3, <2>2
    <3>2. popped + 1 \in Looked(key)'
      BY <2>1, <2>2
    <3> QED
      BY <1>1, <3>1, <3>2 DEF FieldOfLines
  <2>3. CASE p.key # key
    <3>1. g_mem_info'[key] = g_mem_info[key]
      BY <1>1, <1>3, <2>3
    <3>2. Looked(key)' = Looked(key)
      BY <2>1, <2>3
    <3> QED
      BY <1>1, <1>3, <3>1, <3>2 DEF FieldOfLines
  <2> QED
    BY <2>2, <2>3
<1>10. g_mem_info' = [key \in Keys |-> g_mem_info'[key]]
  BY <1>1, <1>3
<1>11. Done' \/ mem_pc' = "pair"
  BY <1>1, <1>5 DEF Done
<1>12. mem_pc' = "pair" => \A k \in DOMAIN meminfo : k <= popped + 1 => meminfo[k].key # "SwapFree"
  BY <1>1, <1>3, <1>6
<1>13. /\ mem_pc' \in {"pair", "close"} /\ mem_pc' # "idle"
       /\ popped + 2 = popped' + 1 /\ i' = popped'
  BY <1>1, <1>2, <1>3
<1>14. \A k \in DOMAIN meminfo : k < popped + 1 => meminfo[k].key # "SwapFree"
  BY <1>3, <1>7
<1> QED
  BY <1>1, <1>3, <1>5, <1>8, <1>9, <1>10, <1>11, <1>12, <1>13, <1>14 DEF MemInv

LEMMA CloseMemInfoStep ==
    ASSUME MemInv, CloseMemInfo
    PROVE  MemInv'
<1>1. /\ mem_pc = "close" \/ (mem_pc = "pair" /\ i >= Size)
      /\ mem_pc' = "idle"
      /\ matched' = matched \ (popped + 1..Len(meminfo))
      /\ UNCHANGED <<meminfo, i, popped, g_mem_info>>
  BY DEF CloseMemInfo
<1>2. /\ Len(meminfo) \in Nat /\ popped \in Nat /\ popped <= Len(meminfo)
      /\ Reached \in Nat /\ (popped < Size <=> popped < Reached)
  BY MemFacts
<1>3. i = popped /\ popped <= Reached /\ (mem_pc # "pair" => Done)
  BY DEF MemInv
<1>4. Size \in Int
  BY <1>2 DEF Size
<1>5. Done
  <2>1. CASE mem_pc = "close"
    BY <1>3, <2>1
  <2>2. CASE i >= Size
    BY <1>2, <1>3, <1>4, <2>2 DEF Done
  <2> QED
    BY <1>1, <2>1, <2>2
<1>6. matched' = {}
  BY <1>1 DEF MemInv
<1>7. Done' /\ Reached' = Reached
  BY <1>1, <1>5 DEF Done, Reached
<1>8. \A key \in Keys : FieldOfLines(key)'
  BY <1>1 DEF MemInv, FieldOfLines, Looked
<1> QED
  BY <1>1, <1>6, <1>7, <1>8 DEF MemInv

LEMMA MemStep ==
    MemInv /\ [MemInfoNext]_memVars => MemInv'
<1> SUFFICES ASSUME MemInv, [MemInfoNext]_memVars
             PROVE  MemInv'
  OBVIOUS
<1>1. CASE UNCHANGED memVars
  <2>1. /\ UNCHANGED <<mem_pc, meminfo, i, popped, g_mem_info, matched>>
        /\ Reached' = Reached
    BY <1>1 DEF memVars, Reached
  <2>2. \A key \in Keys : FieldOfLines(key)'
    BY <2>1 DEF MemInv, FieldOfLines, Looked
  <2> QED
    BY <2>1, <2>2 DEF MemInv, Done
<1> QED
  BY <1>1, OpenMemInfoStep, PairStep, CloseMemInfoStep DEF MemInfoNext

(* mem_info_get gives each field the number of its own line, for a file of  *)
(* any length, as far as the loop whose bound shrinks while it pops gets:   *)
(* to two thirds of the pairs, or to SwapFree; and it releases every string *)
(* on both ways out.                                                        *)
THEOREM MemInfoCorrect == Spec => []MemInfoOfTwoThirds
<1>1. Init => MemInv
  BY MemInitInv DEF Init
<1>2. MemInv /\ [Next]_vars => MemInv'
  BY NextParts, MemStep
<1>3. MemInv => MemInfoOfTwoThirds
  BY MemHolds
<1> QED
  BY <1>1, <1>2, <1>3, PTL DEF Spec

-----------------------------------------------------------------------------
(* The bars.                                                                *)

\* Less than the lowest number: the three loops light a bar from the left.
LEMMA LitInOrder ==
    ASSUME NEW n \in Int, n # Lowest
    PROVE  \A bar \in Lit(n) : InOrder(bar)
<1> SUFFICES ASSUME NEW bar \in Lit(n)
             PROVE  InOrder(bar)
  OBVIOUS
<1>1. /\ bar.green  = Iterations(AtMost(n, 30))
      /\ bar.yellow = Iterations(AtMost(n - 30, 15))
      /\ bar.red    = Iterations(AtMost(n - 45, 5))
  BY DEF Lit, Less
<1> QED
  BY <1>1 DEF InOrder, Iterations, AtMost

\* A load in percent is no overflow for any number of kB.
LEMMA LoadInRange ==
    ASSUME NEW free \in Nat, NEW total \in Nat \ {0}, 50 * free < -Lowest
    PROVE  LoadProgress(free, total) \in Int /\ LoadProgress(free, total) # Lowest
<1> DEFINE x == 50 * (total - free)
           q == x \div total
<1>1. LoadProgress(free, total) = q
  BY DEF LoadProgress
<1>2. x \in Int /\ x > Lowest /\ x >= -50 * free /\ Lowest \in Int /\ Lowest < 0
  BY LowestAssumption
<1>3. q \in Int /\ x % total \in 0..total - 1 /\ x = total * q + (x % total)
  BY <1>2, Euclid
<1> HIDE DEF x, q
<1>4. ASSUME q <= Lowest PROVE FALSE
  <2>1. total * q <= total * Lowest
    BY <1>2, <1>3, <1>4
  <2>2. total * Lowest + total - 1 >= x
    BY <1>2, <1>3, <2>1
  <2>3. total * (Lowest + 1) <= Lowest + 1
    BY <1>2
  <2>4. total * Lowest + total = total * (Lowest + 1)
    BY <1>2
  <2> QED
    BY <1>2, <2>2, <2>3, <2>4
<1> QED
  BY <1>1, <1>2, <1>3, <1>4

(* A bar of ncurses_bar_render has no gap: the processor's for any number   *)
(* in cpu_usage, those of memory and swap for any numbers of kB whose       *)
(* fiftyfold an int64 can hold, the free ones above the total included.     *)
THEOREM BarsCorrect == Spec => []BarsWithoutGap
<1>1. CpuInv /\ MemInv => BarsWithoutGap
  <2> SUFFICES ASSUME CpuInv, MemInv
               PROVE  BarsWithoutGap
    OBVIOUS
  <2>1. \A bar \in Lit(CpuProgress) : InOrder(bar)
    <3>1. cpu_usage \in Nat
      BY DEF CpuInv, CpuTypeOK
    <3>2. Lowest \in Int /\ Lowest < 0
      BY LowestAssumption
    <3>3. CpuProgress \in Int
      BY <3>1, <3>2 DEF CpuProgress
    <3>4. CASE CpuProgress # Lowest
      BY <3>3, <3>4, LitInOrder
    <3>5. CASE CpuProgress = Lowest
      <4>1. Lowest = -1
        BY <3>1, <3>2, <3>5 DEF CpuProgress
      <4> QED
        BY <3>5, <4>1 DEF Lit, Less, InOrder, Iterations, AtMost
    <3> QED
      BY <3>4, <3>5
  <2>2. ASSUME NEW key \in Keys
        PROVE  g_mem_info[key] \in Nat /\ 50 * g_mem_info[key] < -Lowest
    <3>1. FieldOfLines(key) /\ meminfo \in MemFiles \cup {<<>>}
      BY DEF MemInv
    <3>2. CASE g_mem_info[key] = 0
      BY <3>2, LowestAssumption
    <3>3. CASE g_mem_info[key] # 0
      <4>1. PICK k \in DOMAIN meminfo : g_mem_info[key] = meminfo[k].val
        BY <3>1, <3>3 DEF FieldOfLines, Looked
      <4>2. meminfo \in MemFiles
        BY <3>1, <4>1
      <4>3. meminfo[k].val \in Nat
        BY MemFacts
      <4> QED
        BY <4>1, <4>2, <4>3, LowestAssumption
    <3> QED
      BY <3>2, <3>3
  <2>3. \A k \in {"MemTotal", "MemFree", "SwapTotal", "SwapFree"} :
           g_mem_info[k] \in Nat /\ 50 * g_mem_info[k] < -Lowest
    BY <2>2, KeysAssumption
  <2>4. g_mem_info["MemTotal"] # 0 => \A bar \in Lit(MemProgress) : InOrder(bar)
    BY <2>3, LoadInRange, LitInOrder DEF MemProgress
  <2>5. g_mem_info["SwapTotal"] # 0 => \A bar \in Lit(SwapProgress) : InOrder(bar)
    BY <2>3, LoadInRange, LitInOrder DEF SwapProgress
  <2> QED
    BY <2>1, <2>4, <2>5 DEF BarsWithoutGap
<1>2. Init => CpuInv /\ MemInv
  BY CpuInitInv, MemInitInv DEF Init
<1>3. CpuInv /\ MemInv /\ [Next]_vars => (CpuInv /\ MemInv)'
  BY NextParts, CpuStep, MemStep
<1> QED
  BY <1>1, <1>2, <1>3, PTL DEF Spec

-----------------------------------------------------------------------------
(* The number that a text says.                                             *)

LEMMA LeastNumber ==
    ASSUME NEW T, T \subseteq Nat, T # {}
    PROVE  \E x \in T : \A y \in T : x <= y
<1> DEFINE R == OpToRel(<, Nat)
<1>1. IsWellFoundedOn(R, Nat)
  BY NatLessThanWellFounded
<1>2. \A x, y \in Nat : x < y => <<x, y>> \in R
  BY DEF OpToRel
<1> HIDE DEF R
<1>3. \E x \in T : \A y \in T : ~(<<y, x>> \in R)
  BY <1>1, WFMin
<1>4. PICK x \in T : \A y \in T : ~(<<y, x>> \in R)
  BY <1>3
<1>5. \A y \in T : ~(y < x)
  BY <1>2, <1>4
<1>6. \A y \in T : x <= y
  BY <1>5
<1> QED
  BY <1>6

\* Induction over the numbers, stated about a set of them.
LEMMA Induction ==
    ASSUME NEW S, 0 \in S, \A n \in Nat : n \in S => n + 1 \in S
    PROVE  Nat \subseteq S
<1> DEFINE T == Nat \ S
<1>1. CASE T = {}
  BY <1>1
<1>2. CASE T # {}
  <2>1. PICK x \in T : \A y \in T : x <= y
    BY <1>2, LeastNumber
  <2>2. x # 0 /\ x - 1 \in Nat
    BY <2>1
  <2>3. x - 1 \in S
    BY <2>1, <2>2
  <2> QED
    BY <2>2, <2>3
<1> QED
  BY <1>1, <1>2

\* The two recursive functions are there, and are what their equations say.
SaidOf(text, f) ==
    f = [k \in 0..Len(text) |-> IF k = 0 THEN 0 ELSE 10 * f[k - 1] + text[k]]
ResOf(text, f) ==
    f = [k \in 0..Len(text) |-> IF k = 0 THEN 0 ELSE (10 * f[k - 1] + text[k]) % Range64]

LEMMA RangePositive == Range64 \in Nat \ {0}
BY NetAssumption

LEMMA SaidExists ==
    ASSUME NEW text \in Seq(Int)
    PROVE  \E f \in [0..Len(text) -> Int] : SaidOf(text, f)
<1> DEFINE L == Len(text)
           To(n, f) == \A k \in 0..n : f[k] = IF k = 0 THEN 0 ELSE 10 * f[k - 1] + text[k]
           Built(n) == \E f \in [0..n -> Int] : To(n, f)
           S == {n \in Nat : n <= L => Built(n)}
<1>1. L \in Nat /\ \A k \in 1..L : text[k] \in Int
  BY LenProperties
<1> HIDE DEF L
<1>2. 0 \in S
  <2>1. [k \in 0..0 |-> 0] \in [0..0 -> Int] /\ To(0, [k \in 0..0 |-> 0])
    OBVIOUS
  <2> QED
    BY <2>1
<1>3. ASSUME NEW n \in Nat, n \in S PROVE n + 1 \in S
  <2> SUFFICES ASSUME n + 1 <= L
               PROVE  Built(n + 1)
    <3>1. n + 1 \in Nat
      OBVIOUS
    <3> HIDE DEF Built
    <3> QED
      BY <3>1
  <2>0. n <= L
    BY <1>1
  <2>1. PICK f \in [0..n -> Int] : To(n, f)
    BY <1>3, <2>0 DEF S
  <2> DEFINE g == [k \in 0..n + 1 |-> IF k = n + 1 THEN 10 * f[n] + text[n + 1] ELSE f[k]]
  <2>2. text[n + 1] \in Int /\ f[n] \in Int
    BY <1>1
  <2>3. g \in [0..n + 1 -> Int]
    BY <2>2
  <2>4. ASSUME NEW k \in 0..n + 1
        PROVE  g[k] = IF k = 0 THEN 0 ELSE 10 * g[k - 1] + text[k]
    <3>1. CASE k = n + 1
      BY <3>1
    <3>2. CASE k # n + 1
      <4>1. k \in 0..n /\ g[k] = f[k] /\ (k # 0 => g[k - 1] = f[k - 1])
        BY <3>2
      <4>2. f[k] = IF k = 0 THEN 0 ELSE 10 * f[k - 1] + text[k]
        BY <2>1, <4>1
      <4> QED
        BY <4>1, <4>2
    <3> QED
      BY <3>1, <3>2
  <2> HIDE DEF g
  <2> QED
    BY <2>3, <2>4
<1>4. L \in S
  <2> HIDE DEF S
  <2> QED
    BY <1>1, <1>2, <1>3, Induction
<1>5. PICK f \in [0..L -> Int] : To(L, f)
  BY <1>1, <1>4
<1> QED
  BY <1>5 DEF SaidOf, L

\* A digit more is the same whether the number was cut to the word or not.
LEMMA OneDigitMore ==
    ASSUME NEW x \in Int, NEW c \in Int
    PROVE  (10 * (x % Range64) + c) % Range64 = (10 * x + c) % Range64
<1>1. /\ x % Range64 \in Int /\ x \div Range64 \in Int
      /\ x = Range64 * (x \div Range64) + (x % Range64)
  BY RangePositive, Euclid
<1>2. /\ 10 * x + c = (10 * (x % Range64) + c) + Range64 * (10 * (x \div Range64))
      /\ 10 * (x % Range64) + c \in Int /\ 10 * (x \div Range64) \in Int
  BY <1>1, RangePositive
<1> QED
  BY <1>2, RangePositive, WholeWords, Zenon

\* string_to_u64 of any characters is the number that they say, in a word.
LEMMA ToU64IsSaid ==
    ASSUME NEW text \in Seq(Int)
    PROVE  Said(text) \in Int /\ ToU64(text) = Said(text) % Range64
<1> DEFINE L == Len(text)
           said == CHOOSE f : SaidOf(text, f)
           res  == CHOOSE f : ResOf(text, f)
<1>1. L \in Nat /\ \A k \in 1..L : text[k] \in Int
  BY LenProperties
<1>2. Said(text) = said[L] /\ ToU64(text) = res[L]
  BY DEF Said, ToU64, SaidOf, ResOf
<1>3. PICK g \in [0..L -> Int] : SaidOf(text, g)
  BY SaidExists
<1>4. SaidOf(text, said)
  BY <1>3
<1>5. ResOf(text, [k \in 0..L |-> g[k] % Range64])
  <2> DEFINE h == [k \in 0..L |-> g[k] % Range64]
             Step(k) == IF k = 0 THEN 0 ELSE (10 * h[k - 1] + text[k]) % Range64
  <2>1. ASSUME NEW k \in 0..L PROVE h[k] = Step(k)
    <3>1. CASE k = 0
      <4>1. h[k] = 0 % Range64
        BY <1>1, <1>3, <3>1 DEF SaidOf
      <4> QED
        BY <3>1, <4>1, RangePositive
    <3>2. CASE k # 0
      <4>1. k - 1 \in 0..L /\ k \in 1..L
        BY <1>1, <3>2
      <4>2. g[k - 1] \in Int /\ text[k] \in Int
        BY <1>1, <1>3, <4>1
      <4>3. /\ g[k] = 10 * g[k - 1] + text[k]
            /\ h[k - 1] = g[k - 1] % Range64 /\ h[k] = g[k] % Range64
        BY <1>3, <3>2, <4>1 DEF SaidOf
      <4> HIDE DEF h
      <4>4. (10 * h[k - 1] + text[k]) % Range64 = h[k]
        BY <4>2, <4>3, OneDigitMore
      <4> QED
        BY <3>2, <4>4
    <3> QED
      BY <3>1, <3>2
  <2>2. h = [k \in 0..L |-> Step(k)]
    BY <2>1
  <2> QED
    BY <2>2 DEF ResOf
<1>6. ResOf(text, res)
  BY <1>5
<1> HIDE DEF said, res, L
<1>7. \A k \in 0..L : said[k] = IF k = 0 THEN 0 ELSE 10 * said[k - 1] + text[k]
  BY <1>4 DEF SaidOf, L
<1>8. \A k \in 0..L : res[k] = IF k = 0 THEN 0 ELSE (10 * res[k - 1] + text[k]) % Range64
  BY <1>6 DEF ResOf, L
<1> DEFINE Same(n) == said[n] \in Int /\ res[n] = said[n] % Range64
           S == {n \in Nat : n <= L => Same(n)}
<1>9. 0 \in S
  BY <1>1, <1>7, <1>8, RangePositive
<1>10. ASSUME NEW n \in Nat, n \in S PROVE n + 1 \in S
  <2>1. ASSUME n + 1 <= L PROVE Same(n + 1)
    <3>1. said[n] \in Int /\ res[n] = said[n] % Range64
      BY <1>1, <1>10, <2>1
    <3>2. n + 1 \in 0..L /\ n + 1 # 0 /\ n + 1 - 1 = n /\ text[n + 1] \in Int
      BY <1>1, <2>1
    <3>3. said[n + 1] = 10 * said[n] + text[n + 1]
      BY <1>7, <3>2
    <3>4. res[n + 1] = (10 * res[n] + text[n + 1]) % Range64
      BY <1>8, <3>2
    <3>5. (10 * (said[n] % Range64) + text[n + 1]) % Range64
             = (10 * said[n] + text[n + 1]) % Range64
      BY <3>1, <3>2, OneDigitMore
    <3> QED
      BY <3>1, <3>2, <3>3, <3>4, <3>5
  <2>2. n + 1 \in Nat
    OBVIOUS
  <2> HIDE DEF Same
  <2> QED
    BY <2>1, <2>2
<1>11. L \in S
  <2> HIDE DEF S
  <2> QED
    BY <1>1, <1>9, <1>10, Induction
<1> QED
  BY <1>1, <1>2, <1>11

LEMMA SaidDigits ==
    ASSUME NEW text \in Seq(Int)
    PROVE  \E said \in [0..Len(text) -> Int] :
              /\ Said(text) = said[Len(text)] /\ said[0] = 0
              /\ \A k \in 1..Len(text) : said[k] = 10 * said[k - 1] + text[k]
<1> DEFINE L == Len(text)
           said == CHOOSE f : SaidOf(text, f)
<1>1. L \in Nat
  BY LenProperties
<1>2. PICK g \in [0..L -> Int] : SaidOf(text, g)
  BY SaidExists
<1>3. SaidOf(text, said) /\ Said(text) = said[L]
  BY <1>2 DEF Said, SaidOf
<1> HIDE DEF said
<1>4. \A k \in 0..L : said[k] = IF k = 0 THEN 0 ELSE 10 * said[k - 1] + text[k]
  BY <1>3 DEF SaidOf
<1>5. \A k \in 0..L : g[k] = IF k = 0 THEN 0 ELSE 10 * g[k - 1] + text[k]
  BY <1>2 DEF SaidOf
<1> DEFINE S == {n \in Nat : n <= L => said[n] = g[n]}
<1>6. 0 \in S
  BY <1>1, <1>4, <1>5
<1>7. ASSUME NEW n \in Nat, n \in S PROVE n + 1 \in S
  <2>1. ASSUME n + 1 <= L PROVE said[n + 1] = g[n + 1]
    <3>1. said[n] = g[n]
      BY <1>1, <1>7, <2>1
    <3>2. n + 1 \in 0..L /\ n + 1 # 0 /\ n + 1 - 1 = n
      BY <1>1, <2>1
    <3>3. said[n + 1] = 10 * said[n] + text[n + 1]
      <4> DEFINE k == n + 1
      <4>1. k \in 0..L /\ k # 0 /\ k - 1 = n
        BY <3>2
      <4> HIDE DEF k
      <4>2. said[k] = 10 * said[k - 1] + text[k]
        BY <1>4, <4>1, Zenon
      <4> QED
        BY <4>1, <4>2 DEF k
    <3>4. g[n + 1] = 10 * g[n] + text[n + 1]
      <4> DEFINE k == n + 1
      <4>1. k \in 0..L /\ k # 0 /\ k - 1 = n
        BY <3>2
      <4> HIDE DEF k
      <4>2. g[k] = 10 * g[k - 1] + text[k]
        BY <1>5, <4>1, Zenon
      <4> QED
        BY <4>1, <4>2 DEF k
    <3> QED
      BY <3>1, <3>3, <3>4
  <2> QED
    BY <2>1
<1>8. Nat \subseteq S
  <2> HIDE DEF S
  <2> QED
    BY <1>6, <1>7, Induction
<1>9. \A k \in 0..L : said[k] = g[k]
  BY <1>1, <1>8
<1>10. said[L] = g[L] /\ g[0] = 0 /\ \A k \in 1..L : g[k] = 10 * g[k - 1] + text[k]
  <2>1. \A k \in 1..L : k \in 0..L /\ k # 0
    BY <1>1
  <2>2. L \in 0..L /\ 0 \in 0..L
    BY <1>1
  <2> QED
    BY <1>5, <1>9, <2>1, <2>2
<1> QED
  BY <1>2, <1>3, <1>10

\* Digits say no negative number.
LEMMA SaidOfDigits ==
    ASSUME NEW text \in Seq(0..9)
    PROVE  Said(text) \in Nat
<1> DEFINE L == Len(text)
<1>1. L \in Nat /\ text \in Seq(Int) /\ \A k \in 1..L : text[k] \in 0..9
  BY LenProperties, SeqMonotonic, 0..9 \subseteq Int
<1>2. PICK said \in [0..L -> Int] :
         /\ Said(text) = said[L] /\ said[0] = 0
         /\ \A k \in 1..L : said[k] = 10 * said[k - 1] + text[k]
  BY <1>1, SaidDigits
<1> HIDE DEF L
<1> DEFINE S == {n \in Nat : n <= L => said[n] \in Nat}
<1>3. 0 \in S
  BY <1>2
<1>4. ASSUME NEW n \in Nat, n \in S PROVE n + 1 \in S
  <2>1. ASSUME n + 1 <= L PROVE said[n + 1] \in Nat
    <3>1. said[n] \in Nat
      BY <1>1, <1>4, <2>1
    <3>2. n + 1 \in 1..L /\ n + 1 - 1 = n
      BY <1>1, <2>1
    <3>3. said[n + 1] = 10 * said[n] + text[n + 1]
      BY <1>2, <3>2
    <3>4. text[n + 1] \in 0..9
      BY <1>1, <3>2
    <3>5. \A x \in Nat, c \in 0..9 : 10 * x + c \in Nat
      OBVIOUS
    <3> QED
      BY <3>1, <3>3, <3>4, <3>5
  <2>2. n + 1 \in Nat
    OBVIOUS
  <2> QED
    BY <2>1, <2>2
<1>5. Nat \subseteq S
  <2> HIDE DEF S
  <2> QED
    BY <1>3, <1>4, Induction
<1> QED
  BY <1>1, <1>2, <1>5

\* What net_dev_diff makes of the text of a speed.
LEMMA SpeedOfText ==
    ASSUME NEW text \in (UNION {LinkTexts[d] : d \in Nets}) \cup {<<>>}
    PROVE  /\ ISpeed(text) \in 0..Range64 - 1
           /\ IF Fast(text) THEN ISpeed(text) = (Said(text) \div 8) * MB /\ ISpeed(text) > 0
              ELSE IF text # <<>> /\ text[1] < 0 THEN ISpeed(text) > 0
              ELSE ISpeed(text) = 0
<1>1. Range64 \in Nat /\ Range64 >= 32 /\ Range64 % 8 = 0 /\ MB \in Nat \ {0} /\ MB % 8 = 0
      /\ 4 * MB < Range64
  BY NetAssumption, LinkAssumption
<1>2. \A x \in Int : x % Range64 \in 0..Range64 - 1
  BY <1>1
<1>3. CASE text \in Seq(0..9) /\ Said(text) * MB < Range64
  <2> DEFINE n == Said(text)
             b == n \div 8
  <2>1. text \in Seq(Int) /\ n \in Nat
    BY <1>3, SaidOfDigits, SeqMonotonic, 0..9 \subseteq Int
  <2>2. ToU64(text) = n % Range64
    BY <2>1, ToU64IsSaid
  <2> HIDE DEF n
  <2>3. n * MB < Range64
    BY <1>3 DEF n
  <2>4. n <= n * MB
    BY <1>1, <2>1
  <2>5. n % Range64 = n
    BY <1>1, <2>1, <2>3, <2>4
  <2>6. b \in Nat /\ b <= n /\ (n >= 8 => b > 0) /\ (n < 8 => b = 0)
    BY <2>1
  <2>7. ISpeed(text) = (b * MB) % Range64
    BY <2>2, <2>5 DEF ISpeed
  <2> HIDE DEF b
  <2>8. b * MB <= n * MB /\ b * MB \in Nat /\ (b > 0 => b * MB > 0)
    BY <1>1, <2>1, <2>6
  <2>9. (b * MB) % Range64 = b * MB /\ b * MB \in 0..Range64 - 1
    <3>1. n * MB \in Nat
      BY <1>1, <2>1
    <3>2. b * MB \in 0..Range64 - 1
      BY <1>1, <2>3, <2>8, <3>1
    <3> QED
      BY <1>1, <3>2, SmallMod
  <2>10. \A k \in DOMAIN text : text[k] >= 0
    BY <1>3
  <2>11. text # <<>> => 1 \in DOMAIN text
    BY <1>3
  <2>12. Fast(text) <=> n >= 8
    BY <2>10 DEF Fast, n
  <2>13. ~(text # <<>> /\ text[1] < 0)
    BY <2>10, <2>11, <1>3
  <2>14. ISpeed(text) = (Said(text) \div 8) * MB
    BY <2>7, <2>9 DEF n, b
  <2>15. n >= 8 => ISpeed(text) > 0
    BY <2>6, <2>7, <2>8, <2>9
  <2>16. ~(n >= 8) => ISpeed(text) = 0
    BY <1>1, <2>1, <2>6, <2>7, <2>9
  <2>17. ISpeed(text) \in 0..Range64 - 1
    BY <2>7, <2>9
  <2> QED
    BY <2>12, <2>13, <2>14, <2>15, <2>16, <2>17
<1>4. CASE text = <<-3, 1>>
  <2>1. text \in Seq(Int) /\ Len(text) = 2 /\ text[1] = -3 /\ text[2] = 1 /\ text # <<>>
    BY <1>4
  <2>2. Said(text) = -29
    <3>1. PICK said \in [0..2 -> Int] :
             /\ Said(text) = said[2] /\ said[0] = 0
             /\ \A k \in 1..2 : said[k] = 10 * said[k - 1] + text[k]
      <4>1. text \in Seq(Int) /\ Len(text) = 2
        BY <2>1
      <4>2. \E said \in [0..Len(text) -> Int] :
               /\ Said(text) = said[Len(text)] /\ said[0] = 0
               /\ \A k \in 1..Len(text) : said[k] = 10 * said[k - 1] + text[k]
        BY <4>1, SaidDigits, Zenon
      <4> QED
        BY <4>1, <4>2, Zenon
    <3>2. said[1] = 10 * said[0] + text[1] /\ said[2] = 10 * said[1] + text[2]
      BY <3>1
    <3> QED
      BY <2>1, <3>1, <3>2
  <2>3. ToU64(text) = (-29) % Range64
    BY <2>1, <2>2, ToU64IsSaid
  <2>4. PICK m \in Nat : Range64 = 8 * m
    BY <1>1
  <2>5. PICK q \in Nat : MB = 8 * q
    BY <1>1
  <2>6. (-29) % Range64 = Range64 - 29
    BY <1>1
  <2>7. (8 * m - 29) \div 8 = m - 4
    BY <1>1, <2>4
  <2>8. ISpeed(text) = ((m - 4) * MB) % Range64
    BY <2>3, <2>4, <2>6, <2>7 DEF ISpeed
  <2>9. (m - 4) * MB = (Range64 - 4 * MB) + Range64 * (q - 1)
    <3>1. (m - 4) * MB = m * (8 * q) - 4 * MB
      BY <1>1, <2>5
    <3>2. m * (8 * q) = (8 * m) * q
      OBVIOUS
    <3>3. (8 * m) * q = Range64 * (q - 1) + Range64
      BY <1>1, <2>4
    <3> QED
      BY <1>1, <3>1, <3>2, <3>3
  <2>10. Range64 - 4 * MB \in 1..Range64 - 1 /\ q - 1 \in Int
    BY <1>1
  <2>11. ((Range64 - 4 * MB) + Range64 * (q - 1)) % Range64 = (Range64 - 4 * MB) % Range64
    <3>1. Range64 - 4 * MB \in Int /\ Range64 \in Nat \ {0}
      BY <1>1
    <3> QED
      BY <2>10, <3>1, WholeWords, Zenon
  <2>12. ISpeed(text) = Range64 - 4 * MB
    BY <1>1, <2>8, <2>9, <2>10, <2>11
  <2>13. ~Fast(text)
    BY <2>1 DEF Fast
  <2> QED
    BY <1>1, <2>1, <2>10, <2>12, <2>13
<1>5. CASE text = <<>>
  <2>1. text \in Seq(Int) /\ Len(text) = 0 /\ text \in Seq(0..9)
    BY <1>5
  <2>2. Said(text) = 0
    BY <2>1, SaidDigits
  <2>3. Said(text) * MB < Range64
    BY <1>1, <2>2
  <2> QED
    BY <1>3, <2>1, <2>3
<1>6. \/ text = <<>> \/ text = <<-3, 1>>
      \/ text \in Seq(0..9) /\ Said(text) * MB < Range64
  <2>1. CASE text \in UNION {LinkTexts[d] : d \in Nets}
    <3>1. PICK d \in Nets : text \in LinkTexts[d]
      BY <2>1
    <3> QED
      BY <3>1, LinkAssumption
  <2>2. CASE text = <<>>
    BY <2>2
  <2> QED
    BY <2>1, <2>2
<1> QED
  BY <1>3, <1>4, <1>5, <1>6

-----------------------------------------------------------------------------
(* The network.                                                             *)

Count == 0..Wrap - 1
Texts == (UNION {LinkTexts[d] : d \in Nets}) \cup {<<>>}

\* A record as net_dev_scan makes it, before net_dev_diff.
Scans == [name : Nets, rx : Count, tx : Count, speed : Texts, unit : {""},
          rx_speed : {0}, tx_speed : {0}, use : {<<0, 1>>}]

\* The first reading of this counter was taken, and what it gave.
First(d, w) ==
    \/ d \in DOMAIN nets.a
    \/ net_turn = "a" /\ net_cur.name = d /\ net_pc = "tx" /\ w = "rx"
FirstCount(d, w) == IF d \in DOMAIN nets.a THEN nets.a[d][w] ELSE net_cur.rx

\* What the second reading gave, or would give now.
SecondCount(d, w) ==
    IF d \in DOMAIN nets.b THEN nets.b[d][w]
    ELSE IF Waiting(d, w) THEN bytes[d][w] ELSE net_cur.rx

\* The history of a counter is the difference of its readings.
Tracked(d, w) ==
    IF First(d, w)
    THEN \/ passed[d][w] = CHANGED
         \/ /\ passed[d][w] \in Nat
            /\ SecondCount(d, w) = (FirstCount(d, w) + passed[d][w]) % Wrap
    ELSE passed[d][w] = UNSEEN

Going == net_pc \notin {"show", "crashed"}

NetShape ==
    /\ nets = [a |-> nets.a, b |-> nets.b]
    /\ net_turn = "a" => nets.b = NoNets
    /\ net_pc = "sleep" => net_turn = "a"
    /\ net_pc \in {"diff", "show"} => net_turn = "b"
    /\ net_pc \in {"speed", "rx", "tx"} =>
          net_cur \in Scans /\ net_cur.name \notin DOMAIN nets[net_turn]
    /\ net_pc \in {"scan", "sleep", "diff", "show"} => net_cur = Blank
    /\ Going => \A r \in {"a", "b"} : \A d \in DOMAIN nets[r] : nets[r][d] \in Scans

\* Fewer bytes than a counter can tell.
NetLimit == \A d \in Nets : Counted(d, "rx") + Counted(d, "tx") < Wrap

NetTracked == Going => \A d \in Nets, w \in Ways : Tracked(d, w)

NetInv == NetTypeOK /\ NetShape /\ NetLimit /\ NetTracked /\ NetShowsTraffic

\* NetShowsTraffic of one interface.
ShownAs(dev, rx, tx) ==
    \/ CHANGED \in {rx, tx}
    \/ /\ UNSEEN \in {rx, tx}
       /\ dev.rx_speed = 0 /\ dev.tx_speed = 0
       /\ dev.use = <<0, 1>> /\ dev.unit = ""
    \/ /\ dev.rx_speed = rx /\ dev.tx_speed = tx
       /\ dev.use[1] = rx + tx
       /\ IF Fast(dev.speed) THEN dev.use[2] = (Said(dev.speed) \div 8) * MB
          ELSE IF dev.speed # <<>> /\ dev.speed[1] < 0 THEN dev.use[2] > 0
          ELSE dev.use[2] = IF dev.use[1] > 0 THEN 0 ELSE 1
       /\ dev.unit # "" /\ dev.use # <<0, 0>>

\* What is shown does not change with what is not shown.
LEMMA ShownFrame ==
    ASSUME NetShowsTraffic, UNCHANGED <<net_pc, nets>>,
           \A d \in DOMAIN nets.b : /\ passed'[d]["rx"] = passed[d]["rx"]
                                     /\ passed'[d]["tx"] = passed[d]["tx"]
    PROVE  NetShowsTraffic'
<1>1. net_pc = "show" =>
        \A d \in DOMAIN nets.b : ShownAs(nets.b[d], passed[d]["rx"], passed[d]["tx"])
  BY Zenon DEF NetShowsTraffic, ShownAs
<1>2. net_pc = "show" =>
        \A d \in DOMAIN nets.b : ShownAs(nets.b[d], passed'[d]["rx"], passed'[d]["tx"])
  BY <1>1
<1>3. net_pc' = "show" =>
        \A d \in DOMAIN nets'.b : ShownAs(nets'.b[d], passed'[d]["rx"], passed'[d]["tx"])
  BY <1>2
<1> QED
  BY <1>3, Zenon DEF NetShowsTraffic, ShownAs

LEMMA NetConstants ==
    /\ Wrap \in Nat \ {0} /\ Range64 \in Nat \ {0} /\ UNSEEN # CHANGED
    /\ UNSEEN \notin Nat /\ CHANGED \notin Nat /\ UNSEEN \notin Nets
    /\ 0 \in Count
BY NetAssumption DEF Count

LEMMA ScansAreNets == Scans \subseteq Net /\ Blank.name \notin Nets
<1>1. ASSUME NEW r \in Scans PROVE r \in Net
  <2>1. <<0, 1>> \in (0..Wrap - 1) \X (0..Range64)
    BY NetConstants
  <2> QED
    BY <2>1, NetConstants DEF Scans, Net, Count, Texts
<1> QED
  BY <1>1, NetConstants DEF Blank

LEMMA NetTypes ==
    ASSUME NetTypeOK
    PROVE  /\ up \subseteq Nets /\ net_stayed \subseteq up
           /\ \A d \in Nets, w \in Ways : /\ bytes[d][w] \in Count
                                          /\ passed[d][w] \in Count \cup {UNSEEN, CHANGED}
           /\ bytes \in [Nets -> [Ways -> Count]]
           /\ passed \in [Nets -> [Ways -> Count \cup {UNSEEN, CHANGED}]]
           /\ DOMAIN nets.a \subseteq Nets /\ DOMAIN nets.b \subseteq Nets
           /\ \A d \in DOMAIN nets.a : nets.a[d] \in Net
           /\ \A d \in DOMAIN nets.b : nets.b[d] \in Net
           /\ net_turn \in {"a", "b"} /\ net_cur \in {Blank} \cup Net
BY DEF NetTypeOK, Count

LEMMA NetInitInv == NetInit => NetInv
<1> SUFFICES ASSUME NetInit
             PROVE  NetInv
  OBVIOUS
<1>1. /\ up = Nets /\ bytes = [d \in Nets |-> [w \in Ways |-> 0]]
      /\ net_pc = "scan" /\ net_turn = "a" /\ net_cur = Blank
      /\ nets = [a |-> NoNets, b |-> NoNets] /\ net_stayed = Nets
      /\ passed = [d \in Nets |-> [w \in Ways |-> UNSEEN]]
  BY DEF NetInit, NoneSeen
<1>2. DOMAIN nets.a = {} /\ DOMAIN nets.b = {} /\ nets.b = NoNets
      /\ \A r \in {"a", "b"} : DOMAIN nets[r] = {}
  BY <1>1 DEF NoNets
<1>3. \A d \in Nets, w \in Ways : passed[d][w] = UNSEEN
  BY <1>1
<1>4. NetTypeOK
  BY <1>1, <1>2, NetConstants DEF NetTypeOK, Count
<1>5. NetShape
  BY <1>1, <1>2 DEF NetShape
<1>6. NetLimit
  BY <1>3, NetConstants DEF NetLimit, Counted, Ways
<1>7. NetTracked
  BY <1>1, <1>2, <1>3 DEF NetTracked, Tracked, First
<1>8. NetShowsTraffic
  BY <1>1 DEF NetShowsTraffic
<1> QED
  BY <1>4, <1>5, <1>6, <1>7, <1>8 DEF NetInv

\* A counter whose readings and history a step leaves alone.
LEMMA TrackedSame ==
    ASSUME NEW d \in Nets, NEW w \in Ways, Tracked(d, w),
           First(d, w)' <=> First(d, w), passed'[d][w] = passed[d][w],
           First(d, w) => /\ FirstCount(d, w)' = FirstCount(d, w)
                          /\ SecondCount(d, w)' = SecondCount(d, w)
    PROVE  Tracked(d, w)'
BY DEF Tracked

LEMMA CountsOfRecords ==
    ASSUME NEW r \in Net
    PROVE  \A w \in Ways : r[w] \in Count
BY DEF Net, Ways, Count

LEMMA FirstCountType ==
    ASSUME NetInv, NEW d \in Nets, NEW w \in Ways, First(d, w)
    PROVE  FirstCount(d, w) \in Count
<1>1. CASE d \in DOMAIN nets.a
  <2>1. nets.a[d] \in Net
    BY <1>1, NetTypes DEF NetInv
  <2> QED
    BY <1>1, <2>1, CountsOfRecords DEF FirstCount
<1>2. CASE d \notin DOMAIN nets.a
  <2>1. net_cur \in Scans
    BY <1>2 DEF First, NetInv, NetShape
  <2>2. net_cur.rx \in Count
    BY <2>1 DEF Scans
  <2> QED
    BY <1>2, <2>2 DEF FirstCount
<1> QED
  BY <1>1, <1>2

-----------------------------------------------------------------------------
(* The steps of the kernel.                                                 *)

LEMMA PassStep ==
    ASSUME NetInv, NEW d \in Nets, NEW w \in Ways, Pass(d, w)
    PROVE  NetInv'
<1>1. /\ Window(d, w) /\ Counted(d, "rx") + Counted(d, "tx") + 1 < Wrap
      /\ bytes' = [bytes EXCEPT ![d][w] = (@ + 1) % Wrap]
      /\ passed' = [passed EXCEPT ![d][w] = @ + 1]
      /\ UNCHANGED <<up, net_pc, net_turn, net_cur, nets, net_stayed>>
  BY DEF Pass
<1>2. /\ \A e \in Nets, v \in Ways : /\ bytes[e][v] \in Count
                                     /\ passed[e][v] \in Count \cup {UNSEEN, CHANGED}
      /\ bytes \in [Nets -> [Ways -> Count]]
      /\ passed \in [Nets -> [Ways -> Count \cup {UNSEEN, CHANGED}]]
  BY NetTypes DEF NetInv
<1>3. passed[d][w] \in Count /\ passed[d][w] \in Nat /\ Waiting(d, w) /\ d \notin DOMAIN nets.b
  BY <1>1, <1>2, NetConstants DEF Window, Waiting, Count
<1>4. /\ passed'[d][w] = passed[d][w] + 1 /\ bytes'[d][w] = (bytes[d][w] + 1) % Wrap
      /\ \A e \in Nets, v \in Ways : ~(e = d /\ v = w) => /\ passed'[e][v] = passed[e][v]
                                                          /\ bytes'[e][v] = bytes[e][v]
  BY <1>1, <1>2
<1>5. \A e \in Nets, v \in Ways : Counted(e, v) \in Nat
  BY <1>2 DEF Counted
<1>6. passed[d][w] + 1 \in Count
  <2>1. "rx" \in Ways /\ "tx" \in Ways /\ w \in {"rx", "tx"}
    BY DEF Ways
  <2>2. Counted(d, w) = passed[d][w]
    BY <1>3 DEF Counted
  <2>3. Counted(d, "rx") \in Nat /\ Counted(d, "tx") \in Nat
    BY <1>5, <2>1
  <2>4. passed[d][w] + 1 < Wrap
    BY <1>1, <1>3, <2>1, <2>2, <2>3, NetConstants
  <2> QED
    BY <1>3, <2>4, NetConstants DEF Count
<1>7. (bytes[d][w] + 1) % Wrap \in Count
  BY <1>2, NetConstants DEF Count
<1>8. bytes' \in [Nets -> [Ways -> Count]]
  BY <1>1, <1>2, <1>7
<1>9. passed' \in [Nets -> [Ways -> Count \cup {UNSEEN, CHANGED}]]
  BY <1>1, <1>2, <1>6
<1>10. NetTypeOK'
  BY <1>1, <1>8, <1>9 DEF NetInv, NetTypeOK, Count
<1>11. NetShape'
  BY <1>1 DEF NetInv, NetShape, Going
<1>12. NetLimit'
  <2> SUFFICES ASSUME NEW e \in Nets
               PROVE  Counted(e, "rx")' + Counted(e, "tx")' < Wrap
    BY DEF NetLimit
  <2>1. CASE e # d
    <3>1. Counted(e, "rx")' = Counted(e, "rx") /\ Counted(e, "tx")' = Counted(e, "tx")
      BY <1>4, <2>1 DEF Counted, Ways
    <3> QED
      BY <3>1 DEF NetInv, NetLimit
  <2>2. CASE e = d
    <3>1. \A v \in Ways : Counted(d, v)' = IF v = w THEN Counted(d, v) + 1 ELSE Counted(d, v)
      BY <1>3, <1>4 DEF Counted
    <3>2. "rx" \in Ways /\ "tx" \in Ways /\ (w = "rx" \/ w = "tx")
      BY DEF Ways
    <3>3. Counted(d, "rx") \in Nat /\ Counted(d, "tx") \in Nat
      BY <1>5, <3>2
    <3>4. \/ Counted(d, "rx")' = Counted(d, "rx") + 1 /\ Counted(d, "tx")' = Counted(d, "tx")
          \/ Counted(d, "rx")' = Counted(d, "rx") /\ Counted(d, "tx")' = Counted(d, "tx") + 1
      BY <3>1, <3>2
    <3> QED
      BY <1>1, <2>2, <3>3, <3>4, NetConstants
  <2> QED
    BY <2>1, <2>2
<1>13. NetTracked'
  <2> SUFFICES ASSUME Going, NEW e \in Nets, NEW v \in Ways
               PROVE  Tracked(e, v)'
    BY <1>1 DEF NetTracked, Going
  <2>1. Tracked(e, v)
    BY DEF NetInv, NetTracked
  <2>2. First(e, v)' <=> First(e, v)
    BY <1>1 DEF First
  <2>3. FirstCount(e, v)' = FirstCount(e, v)
    BY <1>1 DEF FirstCount
  <2>4. CASE ~(e = d /\ v = w)
    <3>1. SecondCount(e, v)' = SecondCount(e, v)
      BY <1>1, <1>4, <2>4 DEF SecondCount, Waiting
    <3> QED
      BY <1>4, <2>1, <2>2, <2>3, <2>4, <3>1, TrackedSame
  <2>5. CASE e = d /\ v = w
    <3>1. First(d, w) /\ bytes[d][w] = (FirstCount(d, w) + passed[d][w]) % Wrap
      BY <1>3, <2>1, <2>5, NetConstants DEF Tracked, SecondCount
    <3>2. SecondCount(d, w)' = (bytes[d][w] + 1) % Wrap
      BY <1>1, <1>3, <1>4 DEF SecondCount, Waiting
    <3>3. FirstCount(d, w) \in Nat
      BY <3>1, FirstCountType DEF Count
    <3> DEFINE x == FirstCount(d, w)
               y == passed[d][w]
    <3>4. x + y \in Int /\ 1 \in Int /\ Wrap \in Nat \ {0}
      BY <1>3, <3>3, NetConstants
    <3>5. (((x + y) % Wrap) + 1) % Wrap = ((x + y) + 1) % Wrap
      <4> HIDE DEF x, y
      <4> QED
        BY <3>4, CutEarly, Zenon
    <3>6. (x + y) + 1 = x + (y + 1)
      BY <1>3, <3>3
    <3>7. SecondCount(d, w)' = (FirstCount(d, w)' + passed'[d][w]) % Wrap
      BY <1>4, <2>3, <2>5, <3>1, <3>2, <3>5, <3>6
    <3>8. passed'[d][w] \in Nat
      BY <1>3, <1>4
    <3> QED
      BY <2>2, <2>5, <3>1, <3>7, <3>8 DEF Tracked
  <2> QED
    BY <2>4, <2>5
<1>14. NetShowsTraffic'
  <2>1. \A e \in DOMAIN nets.b : e \in Nets /\ passed'[e]["rx"] = passed[e]["rx"]
                                 /\ passed'[e]["tx"] = passed[e]["tx"]
    BY <1>3, <1>4, NetTypes DEF NetInv, Ways
  <2> QED
    BY <1>1, <2>1, ShownFrame DEF NetInv
<1> QED
  BY <1>10, <1>11, <1>12, <1>13, <1>14 DEF NetInv

LEMMA VanishStep ==
    ASSUME NetInv, NEW d \in Nets, Vanish(d)
    PROVE  NetInv'
<1>1. /\ up' = up \ {d} /\ net_stayed' = net_stayed \ {d}
      /\ bytes' = [bytes EXCEPT ![d] = [w \in Ways |-> 0]]
      /\ passed' = [passed EXCEPT ![d] =
                       [w \in Ways |-> IF Window(d, w) THEN CHANGED ELSE @[w]]]
      /\ UNCHANGED <<net_pc, net_turn, net_cur, nets>>
  BY DEF Vanish
<1>2. /\ \A e \in Nets, v \in Ways : passed[e][v] \in Count \cup {UNSEEN, CHANGED}
      /\ bytes \in [Nets -> [Ways -> Count]]
      /\ passed \in [Nets -> [Ways -> Count \cup {UNSEEN, CHANGED}]]
      /\ up \subseteq Nets /\ net_stayed \subseteq up
  BY NetTypes DEF NetInv
<1>3. /\ \A v \in Ways : passed'[d][v] = IF Window(d, v) THEN CHANGED ELSE passed[d][v]
      /\ \A e \in Nets, v \in Ways : e # d => /\ passed'[e][v] = passed[e][v]
                                              /\ bytes'[e][v] = bytes[e][v]
  BY <1>1, <1>2
<1>4. bytes' \in [Nets -> [Ways -> Count]]
  BY <1>1, <1>2, NetConstants
<1>5. passed' \in [Nets -> [Ways -> Count \cup {UNSEEN, CHANGED}]]
  <2>1. [w \in Ways |-> IF Window(d, w) THEN CHANGED ELSE passed[d][w]]
           \in [Ways -> Count \cup {UNSEEN, CHANGED}]
    BY <1>2
  <2>2. passed' = [passed EXCEPT ![d] =
                     [w \in Ways |-> IF Window(d, w) THEN CHANGED ELSE passed[d][w]]]
    BY <1>1
  <2> HIDE DEF Window
  <2> QED
    BY <1>2, <2>1, <2>2
<1>6. NetTypeOK'
  <2>1. up' \subseteq Nets /\ net_stayed' \subseteq up'
    BY <1>1, <1>2
  <2> QED
    BY <1>1, <1>4, <1>5, <2>1 DEF NetInv, NetTypeOK, Count
<1>7. NetShape'
  BY <1>1 DEF NetInv, NetShape, Going
<1>8. NetLimit'
  <2> SUFFICES ASSUME NEW e \in Nets
               PROVE  Counted(e, "rx")' + Counted(e, "tx")' < Wrap
    BY DEF NetLimit
  <2>1. \A v \in Ways : passed'[e][v] = passed[e][v] \/ passed'[e][v] = CHANGED
    BY <1>3
  <2>2. \A v \in Ways : Counted(e, v)' = Counted(e, v) \/ Counted(e, v)' = 0
    BY <2>1, NetConstants DEF Counted
  <2>3. \A v \in Ways : Counted(e, v) \in Nat
    BY <1>2 DEF Counted
  <2>4. "rx" \in Ways /\ "tx" \in Ways
    BY DEF Ways
  <2>5. Counted(e, "rx") + Counted(e, "tx") < Wrap
    BY DEF NetInv, NetLimit
  <2> QED
    BY <2>2, <2>3, <2>4, <2>5, NetConstants
<1>9. NetTracked'
  <2> SUFFICES ASSUME Going, NEW e \in Nets, NEW v \in Ways
               PROVE  Tracked(e, v)'
    BY <1>1 DEF NetTracked, Going
  <2>1. Tracked(e, v)
    BY DEF NetInv, NetTracked
  <2>2. First(e, v)' <=> First(e, v)
    BY <1>1 DEF First
  <2>3. FirstCount(e, v)' = FirstCount(e, v)
    BY <1>1 DEF FirstCount
  <2>4. CASE e # d
    <3>1. SecondCount(e, v)' = SecondCount(e, v)
      BY <1>1, <1>3, <2>4 DEF SecondCount, Waiting
    <3> QED
      BY <1>3, <2>1, <2>2, <2>3, <2>4, <3>1, TrackedSame
  <2>5. CASE e = d /\ Window(d, v)
    <3>1. First(e, v)
      BY <2>1, <2>5 DEF Tracked, Window
    <3>2. passed'[e][v] = CHANGED
      BY <1>3, <2>5
    <3> QED
      BY <2>2, <3>1, <3>2 DEF Tracked
  <2>6. CASE e = d /\ ~Window(d, v)
    <3>1. passed'[e][v] = passed[e][v]
      BY <1>3, <2>6
    <3>2. CASE Waiting(d, v)
      <4>1. passed[e][v] \in {UNSEEN, CHANGED}
        BY <2>6, <3>2 DEF Window
      <4> QED
        BY <2>1, <2>2, <3>1, <4>1, NetConstants DEF Tracked
    <3>3. CASE ~Waiting(d, v)
      <4>1. SecondCount(e, v)' = SecondCount(e, v)
        BY <1>1, <2>6, <3>3 DEF SecondCount, Waiting
      <4> QED
        BY <2>1, <2>2, <2>3, <3>1, <4>1, TrackedSame
    <3> QED
      BY <3>2, <3>3
  <2> QED
    BY <2>4, <2>5, <2>6
<1>10. NetShowsTraffic'
  <2>1. \A e \in DOMAIN nets.b : \A v \in Ways : passed'[e][v] = passed[e][v]
    <3>1. ASSUME NEW e \in DOMAIN nets.b, NEW v \in Ways
          PROVE  passed'[e][v] = passed[e][v]
      <4>1. e \in Nets
        BY NetTypes DEF NetInv
      <4>2. ~Window(e, v)
        BY DEF Window, Waiting
      <4> QED
        BY <1>3, <4>1, <4>2
    <3> QED
      BY <3>1
  <2>2. \A e \in DOMAIN nets.b : /\ passed'[e]["rx"] = passed[e]["rx"]
                                 /\ passed'[e]["tx"] = passed[e]["tx"]
    BY <2>1 DEF Ways
  <2> QED
    BY <1>1, <2>2, ShownFrame DEF NetInv
<1> QED
  BY <1>6, <1>7, <1>8, <1>9, <1>10 DEF NetInv

LEMMA AppearStep ==
    ASSUME NetInv, NEW d \in Nets, Appear(d)
    PROVE  NetInv'
<1>1. /\ up' = up \cup {d}
      /\ UNCHANGED <<bytes, net_pc, net_turn, net_cur, nets, net_stayed, passed>>
  BY DEF Appear
<1>2. NetTypeOK'
  BY <1>1 DEF NetInv, NetTypeOK
<1>3. NetShape' /\ NetLimit'
  BY <1>1 DEF NetInv, NetShape, Going, NetLimit, Counted
<1>4. NetTracked'
  BY <1>1 DEF NetInv, NetTracked, Going, Tracked, First, FirstCount, SecondCount, Waiting
<1>5. NetShowsTraffic'
  BY <1>1, ShownFrame DEF NetInv
<1> QED
  BY <1>2, <1>3, <1>4, <1>5 DEF NetInv

-----------------------------------------------------------------------------
(* The steps of the sampler.                                                *)

\* A step between two files: no counter is read.
LEMMA BetweenFiles ==
    ASSUME NetInv, Going, UNCHANGED <<bytes, nets, passed>>,
           net_pc # "tx", net_pc' \notin {"tx", "show"}
    PROVE  NetTracked' /\ NetLimit' /\ NetShowsTraffic'
<1>1. ASSUME NEW d \in Nets, NEW w \in Ways
      PROVE  Tracked(d, w)'
  <2>1. Tracked(d, w)
    BY DEF NetInv, NetTracked
  <2>2. /\ First(d, w) <=> d \in DOMAIN nets.a
        /\ First(d, w)' <=> d \in DOMAIN nets.a
    BY DEF First
  <2>3. First(d, w) => FirstCount(d, w)' = FirstCount(d, w)
    BY <2>2 DEF FirstCount
  <2>4. SecondCount(d, w)' = SecondCount(d, w)
    BY DEF SecondCount, Waiting
  <2> QED
    BY <2>1, <2>2, <2>3, <2>4, TrackedSame
<1>2. NetLimit'
  BY DEF NetInv, NetLimit, Counted
<1> QED
  BY <1>1, <1>2 DEF NetTracked, NetShowsTraffic

LEMMA NextEntryStep ==
    ASSUME NetInv, NEW d \in Nets, NextEntry(d)
    PROVE  NetInv'
<1>1. /\ net_pc = "scan" /\ d \in up \ DOMAIN nets[net_turn]
      /\ net_cur' = [Blank EXCEPT !.name = d] /\ net_pc' = "speed"
      /\ UNCHANGED <<up, bytes, net_turn, nets, net_stayed, passed>>
  BY DEF NextEntry, netKernel
<1>2. net_cur' \in Scans /\ net_cur'.name = d
  BY <1>1, NetConstants DEF Blank, Scans, Texts
<1>3. NetTypeOK'
  <2>1. net_cur' \in Net
    BY <1>2, ScansAreNets
  <2> QED
    BY <1>1, <2>1 DEF NetInv, NetTypeOK
<1>4. NetShape'
  BY <1>1, <1>2 DEF NetInv, NetShape, Going
<1>5. NetTracked' /\ NetLimit' /\ NetShowsTraffic'
  BY <1>1, BetweenFiles DEF Going
<1> QED
  BY <1>3, <1>4, <1>5 DEF NetInv

LEMMA LostStep ==
    ASSUME NetInv, NEW file \in {"speed", "rx", "tx"}, Lost(file)
    PROVE  NetInv'
<1>1. /\ net_pc' = "crashed"
      /\ UNCHANGED <<up, bytes, net_turn, net_cur, nets, net_stayed, passed>>
  BY DEF Lost, netKernel
<1>2. NetTypeOK'
  BY <1>1 DEF NetInv, NetTypeOK
<1>3. NetShape' /\ NetLimit' /\ NetTracked' /\ NetShowsTraffic'
  BY <1>1 DEF NetInv, NetShape, Going, NetLimit, Counted, NetTracked, NetShowsTraffic
<1> QED
  BY <1>2, <1>3 DEF NetInv

LEMMA ReadSpeedStep ==
    ASSUME NetInv, ReadSpeed
    PROVE  NetInv'
<1>1. /\ net_pc = "speed" /\ net_pc' = "rx"
      /\ IF net_turn = "a" THEN UNCHANGED net_cur
         ELSE \E text \in LinkTexts[net_cur.name] : net_cur' = [net_cur EXCEPT !.speed = text]
      /\ UNCHANGED <<up, bytes, net_turn, nets, net_stayed, passed>>
  BY DEF ReadSpeed, netKernel
<1>2. net_cur \in Scans /\ net_cur.name \notin DOMAIN nets[net_turn]
  BY <1>1 DEF NetInv, NetShape
<1>3. net_cur' \in Scans /\ net_cur'.name = net_cur.name
  <2>1. CASE net_turn = "a"
    BY <1>1, <1>2, <2>1
  <2>2. CASE net_turn # "a"
    <3>1. PICK text \in LinkTexts[net_cur.name] : net_cur' = [net_cur EXCEPT !.speed = text]
      BY <1>1, <2>2
    <3>2. net_cur.name \in Nets
      BY <1>2 DEF Scans
    <3>3. text \in Texts
      BY <3>2 DEF Texts
    <3> QED
      BY <1>2, <3>1, <3>3 DEF Scans
  <2> QED
    BY <2>1, <2>2
<1>4. NetTypeOK'
  <2>1. net_cur' \in Net
    BY <1>3, ScansAreNets
  <2> QED
    BY <1>1, <2>1 DEF NetInv, NetTypeOK
<1>5. NetShape'
  BY <1>1, <1>2, <1>3 DEF NetInv, NetShape, Going
<1>6. NetTracked' /\ NetLimit' /\ NetShowsTraffic'
  BY <1>1, BetweenFiles DEF Going
<1> QED
  BY <1>4, <1>5, <1>6 DEF NetInv

LEMMA NetEndDirStep ==
    ASSUME NetInv, NetEndDir
    PROVE  NetInv'
<1>1. /\ net_pc = "scan"
      /\ net_pc' = IF net_turn = "a" THEN "sleep" ELSE "diff"
      /\ UNCHANGED <<up, bytes, net_turn, net_cur, nets, net_stayed, passed>>
  BY DEF NetEndDir, netKernel
<1>2. NetTypeOK'
  BY <1>1 DEF NetInv, NetTypeOK
<1>3. net_turn \in {"a", "b"}
  BY DEF NetInv, NetTypeOK
<1>4. NetShape'
  BY <1>1, <1>3 DEF NetInv, NetShape, Going
<1>5. NetTracked' /\ NetLimit' /\ NetShowsTraffic'
  BY <1>1, BetweenFiles DEF Going
<1> QED
  BY <1>2, <1>4, <1>5 DEF NetInv

LEMMA NetSleepStep ==
    ASSUME NetInv, NetSleep
    PROVE  NetInv'
<1>1. /\ net_pc = "sleep" /\ net_pc' = "scan" /\ net_turn' = "b" /\ net_stayed' = up
      /\ UNCHANGED <<up, bytes, net_cur, nets, passed>>
  BY DEF NetSleep, netKernel
<1>2. NetTypeOK'
  BY <1>1 DEF NetInv, NetTypeOK
<1>3. NetShape'
  BY <1>1 DEF NetInv, NetShape, Going
<1>4. NetTracked' /\ NetLimit' /\ NetShowsTraffic'
  BY <1>1, BetweenFiles DEF Going
<1> QED
  BY <1>2, <1>3, <1>4 DEF NetInv

\* The history of a first reading begins at nothing.
LEMMA NothingPassed ==
    ASSUME NEW x \in Count
    PROVE  x = (x + 0) % Wrap
BY NetConstants DEF Count

\* The limit holds when a history begins.
LEMMA LimitOpened ==
    ASSUME NetInv, NEW d \in Nets, NEW w \in Ways,
           passed' = [passed EXCEPT ![d][w] = 0] \/ passed' = passed
    PROVE  /\ NetLimit'
           /\ passed' \in [Nets -> [Ways -> Count \cup {UNSEEN, CHANGED}]]
<1>1. /\ passed \in [Nets -> [Ways -> Count \cup {UNSEEN, CHANGED}]]
      /\ \A e \in Nets, v \in Ways : passed[e][v] \in Count \cup {UNSEEN, CHANGED}
  BY NetTypes DEF NetInv
<1>2. passed' \in [Nets -> [Ways -> Count \cup {UNSEEN, CHANGED}]]
  BY <1>1, NetConstants
<1>3. \A e \in Nets, v \in Ways : passed'[e][v] = passed[e][v] \/ passed'[e][v] = 0
  BY <1>1
<1>4. \A e \in Nets, v \in Ways : /\ Counted(e, v) \in Nat
                                  /\ Counted(e, v)' = Counted(e, v) \/ Counted(e, v)' = 0
  BY <1>1, <1>3 DEF Counted
<1>5. ASSUME NEW e \in Nets PROVE Counted(e, "rx")' + Counted(e, "tx")' < Wrap
  <2>1. "rx" \in Ways /\ "tx" \in Ways
    BY DEF Ways
  <2>2. Counted(e, "rx") + Counted(e, "tx") < Wrap
    BY DEF NetInv, NetLimit
  <2> QED
    BY <1>4, <2>1, <2>2, NetConstants
<1> QED
  BY <1>2, <1>5 DEF NetLimit

LEMMA ReadRxStep ==
    ASSUME NetInv, ReadRx
    PROVE  NetInv'
<1> DEFINE name == net_cur.name
<1>1. /\ net_pc = "rx" /\ net_pc' = "tx"
      /\ net_cur' = [net_cur EXCEPT !.rx = bytes[name]["rx"]]
      /\ passed' = IF net_turn = "a" THEN [passed EXCEPT ![name]["rx"] = 0] ELSE passed
      /\ UNCHANGED <<up, bytes, net_turn, nets, net_stayed>>
  BY DEF ReadRx, Opened, netKernel
<1>2. net_cur \in Scans /\ name \notin DOMAIN nets[net_turn] /\ name \in Nets
  BY <1>1 DEF NetInv, NetShape, Scans
<1>3. /\ \A e \in Nets, v \in Ways : bytes[e][v] \in Count
      /\ passed \in [Nets -> [Ways -> Count \cup {UNSEEN, CHANGED}]]
      /\ "rx" \in Ways /\ net_turn \in {"a", "b"}
  BY NetTypes DEF NetInv, Ways
<1>4. PICK now : now = net_cur'
  OBVIOUS
<1>5. now \in Scans /\ now.name = name /\ now.rx = bytes[name]["rx"]
  BY <1>1, <1>2, <1>3, <1>4 DEF Scans
<1>6. /\ NetLimit'
      /\ passed' \in [Nets -> [Ways -> Count \cup {UNSEEN, CHANGED}]]
  BY <1>1, <1>2, <1>3, LimitOpened
<1>7. NetTypeOK'
  <2>1. net_cur' \in Net
    BY <1>4, <1>5, ScansAreNets
  <2> QED
    BY <1>1, <1>6, <2>1 DEF NetInv, NetTypeOK, Count
<1>8. NetShape'
  BY <1>1, <1>2, <1>4, <1>5 DEF NetInv, NetShape, Going
<1>9. NetTracked'
  <2> SUFFICES ASSUME NEW e \in Nets, NEW v \in Ways
               PROVE  Tracked(e, v)'
    BY DEF NetTracked
  <2>1. Tracked(e, v)
    BY <1>1 DEF NetInv, NetTracked, Going
  <2>2. First(e, v) <=> e \in DOMAIN nets.a
    BY <1>1 DEF First
  <2>3. First(e, v)' <=> e \in DOMAIN nets.a \/ (net_turn = "a" /\ name = e /\ v = "rx")
    BY <1>1, <1>4, <1>5 DEF First
  <2>4. CASE net_turn = "a" /\ name = e /\ v = "rx"
    <3>1. e \notin DOMAIN nets.a /\ e \notin DOMAIN nets.b
      BY <1>2, <2>4 DEF NetInv, NetShape, NoNets
    <3>2. FirstCount(e, v)' = bytes[e][v]
      BY <1>1, <1>4, <1>5, <2>4, <3>1 DEF FirstCount
    <3>3. SecondCount(e, v)' = bytes[e][v]
      BY <1>1, <2>4, <3>1 DEF SecondCount, Waiting
    <3>4. passed'[e][v] = 0
      BY <1>1, <1>2, <1>3, <2>4
    <3>5. bytes[e][v] = (bytes[e][v] + 0) % Wrap
      BY <1>3, NothingPassed
    <3> QED
      BY <2>3, <2>4, <3>2, <3>3, <3>4, <3>5 DEF Tracked
  <2>5. CASE ~(net_turn = "a" /\ name = e /\ v = "rx")
    <3>1. First(e, v)' <=> First(e, v)
      BY <2>2, <2>3, <2>5
    <3>2. passed'[e][v] = passed[e][v]
      BY <1>1, <1>2, <1>3, <2>5
    <3>3. First(e, v) => FirstCount(e, v)' = FirstCount(e, v)
      BY <1>1, <2>2 DEF FirstCount
    <3>4. SecondCount(e, v)' = SecondCount(e, v)
      <4>1. CASE net_turn = "b" /\ name = e /\ v = "rx"
        <5>1. e \notin DOMAIN nets.b
          BY <1>2, <4>1
        <5>2. SecondCount(e, v) = bytes[e][v]
          BY <1>1, <4>1, <5>1 DEF SecondCount, Waiting
        <5>3. SecondCount(e, v)' = bytes[e][v]
          BY <1>1, <1>4, <1>5, <4>1, <5>1 DEF SecondCount, Waiting
        <5> QED
          BY <5>2, <5>3
      <4>2. CASE ~(net_turn = "b" /\ name = e /\ v = "rx")
        BY <1>1, <1>4, <1>5, <4>2 DEF SecondCount, Waiting
      <4> QED
        BY <4>1, <4>2
    <3> QED
      BY <2>1, <3>1, <3>2, <3>3, <3>4, TrackedSame
  <2> QED
    BY <2>4, <2>5
<1>10. NetShowsTraffic'
  BY <1>1 DEF NetShowsTraffic
<1> QED
  BY <1>6, <1>7, <1>8, <1>9, <1>10 DEF NetInv

LEMMA ReadTxStep ==
    ASSUME NetInv, ReadTx
    PROVE  NetInv'
<1> DEFINE name == net_cur.name
           dev  == [net_cur EXCEPT !.tx = bytes[name]["tx"]]
<1>1. /\ net_pc = "tx" /\ net_pc' = "scan" /\ net_cur' = Blank
      /\ nets' = [nets EXCEPT ![net_turn] =
                     [d \in DOMAIN @ \cup {dev.name} |-> IF d = dev.name THEN dev ELSE @[d]]]
      /\ passed' = IF net_turn = "a" THEN [passed EXCEPT ![name]["tx"] = 0] ELSE passed
      /\ UNCHANGED <<up, bytes, net_turn, net_stayed>>
  BY DEF ReadTx, Opened, netKernel
<1>2. net_cur \in Scans /\ name \notin DOMAIN nets[net_turn] /\ name \in Nets
  BY <1>1 DEF NetInv, NetShape, Scans
<1>3. /\ \A e \in Nets, v \in Ways : bytes[e][v] \in Count
      /\ passed \in [Nets -> [Ways -> Count \cup {UNSEEN, CHANGED}]]
      /\ "tx" \in Ways /\ net_turn \in {"a", "b"}
      /\ DOMAIN nets.a \subseteq Nets /\ DOMAIN nets.b \subseteq Nets
  BY NetTypes DEF NetInv, Ways
<1>4. /\ nets = [a |-> nets.a, b |-> nets.b] /\ (net_turn = "a" => nets.b = NoNets)
      /\ \A d \in DOMAIN nets.a : nets.a[d] \in Scans
      /\ \A d \in DOMAIN nets.b : nets.b[d] \in Scans
  BY <1>1 DEF NetInv, NetShape, Going
<1>5. PICK r : r = dev
  OBVIOUS
<1>6. r \in Scans /\ r.name = name /\ r.rx = net_cur.rx /\ r.tx = bytes[name]["tx"]
  BY <1>2, <1>3, <1>5 DEF Scans
<1> DEFINE With(f) == [d \in DOMAIN f \cup {name} |-> IF d = name THEN r ELSE f[d]]
<1>7. nets' = [nets EXCEPT ![net_turn] = With(@)]
  BY <1>1, <1>5, <1>6
<1>8. \A v \in Ways : r[v] = IF v = "rx" THEN net_cur.rx ELSE bytes[name][v]
  BY <1>6 DEF Ways
<1> HIDE DEF dev
<1>9. /\ net_turn = "a" => nets'.a = With(nets.a) /\ nets'.b = nets.b
      /\ net_turn = "b" => nets'.b = With(nets.b) /\ nets'.a = nets.a
      /\ nets' = [a |-> nets'.a, b |-> nets'.b]
  BY <1>3, <1>4, <1>7
<1>10. /\ NetLimit'
       /\ passed' \in [Nets -> [Ways -> Count \cup {UNSEEN, CHANGED}]]
  BY <1>1, <1>2, <1>3, LimitOpened
<1>11. /\ \A d \in DOMAIN nets'.a : d \in Nets /\ nets'.a[d] \in Scans
       /\ \A d \in DOMAIN nets'.b : d \in Nets /\ nets'.b[d] \in Scans
  BY <1>2, <1>3, <1>4, <1>6, <1>9
<1>12. NetTypeOK'
  <2>1. \A s \in {"a", "b"} : /\ DOMAIN nets'[s] \subseteq Nets
                              /\ \A d \in DOMAIN nets'[s] : nets'[s][d] \in Net
    BY <1>11, ScansAreNets
  <2> QED
    BY <1>1, <1>10, <2>1 DEF NetInv, NetTypeOK, Count
<1>13. NetShape'
  <2>1. \A s \in {"a", "b"} : \A d \in DOMAIN nets'[s] : nets'[s][d] \in Scans
    BY <1>11
  <2>2. net_turn' = "a" => nets'.b = NoNets
    BY <1>1, <1>4, <1>9
  <2> QED
    BY <1>1, <1>9, <2>1, <2>2 DEF NetShape
<1>14. NetTracked'
  <2> SUFFICES ASSUME NEW e \in Nets, NEW v \in Ways
               PROVE  Tracked(e, v)'
    BY DEF NetTracked
  <2>1. Tracked(e, v) /\ (v = "rx" \/ v = "tx")
    BY <1>1 DEF NetInv, NetTracked, Going, Ways
  <2>2. First(e, v)' <=> e \in DOMAIN nets'.a
    BY <1>1 DEF First
  <2>3. CASE net_turn = "a" /\ e = name
    <3>1. /\ e \in DOMAIN nets'.a /\ nets'.a[e] = r
          /\ e \notin DOMAIN nets.a /\ e \notin DOMAIN nets.b /\ e \notin DOMAIN nets'.b
      BY <1>2, <1>4, <1>9, <2>3 DEF NoNets
    <3>2. FirstCount(e, v)' = r[v]
      BY <3>1 DEF FirstCount
    <3>3. SecondCount(e, v)' = bytes[e][v]
      BY <1>1, <3>1 DEF SecondCount, Waiting
    <3>4. CASE v = "rx"
      <4>1. First(e, v) /\ FirstCount(e, v) = r[v]
        BY <1>1, <1>8, <2>3, <3>1, <3>4 DEF First, FirstCount
      <4>2. SecondCount(e, v) = bytes[e][v]
        BY <2>3, <3>1 DEF SecondCount, Waiting
      <4>3. passed'[e][v] = passed[e][v]
        BY <1>1, <1>2, <1>3, <2>3, <3>4
      <4> QED
        BY <2>1, <2>2, <3>1, <3>2, <3>3, <4>1, <4>2, <4>3 DEF Tracked
    <3>5. CASE v = "tx"
      <4>1. passed'[e][v] = 0
        BY <1>1, <1>2, <1>3, <2>3, <3>5
      <4>2. r[v] = bytes[e][v] /\ bytes[e][v] \in Count
        BY <1>3, <1>8, <2>3, <3>5
      <4>3. bytes[e][v] = (bytes[e][v] + 0) % Wrap
        BY <4>2, NothingPassed
      <4> QED
        BY <2>2, <3>1, <3>2, <3>3, <4>1, <4>2, <4>3 DEF Tracked
    <3> QED
      BY <2>1, <3>4, <3>5
  <2>4. CASE ~(net_turn = "a" /\ e = name)
    <3>1. passed'[e][v] = passed[e][v]
      BY <1>1, <1>2, <1>3, <2>4
    <3>2. /\ e \in DOMAIN nets'.a <=> e \in DOMAIN nets.a
          /\ e \in DOMAIN nets.a => nets'.a[e] = nets.a[e]
      BY <1>3, <1>9, <2>4
    <3>3. First(e, v)' <=> First(e, v)
      BY <1>1, <2>2, <2>4, <3>2 DEF First
    <3>4. First(e, v) => FirstCount(e, v)' = FirstCount(e, v)
      BY <2>2, <3>2, <3>3 DEF FirstCount
    <3>5. SecondCount(e, v)' = SecondCount(e, v)
      <4>1. CASE net_turn = "b" /\ e = name
        <5>1. e \in DOMAIN nets'.b /\ nets'.b[e] = r /\ e \notin DOMAIN nets.b
          BY <1>2, <1>9, <4>1
        <5>2. SecondCount(e, v)' = r[v]
          BY <5>1 DEF SecondCount
        <5>3. SecondCount(e, v) = r[v]
          BY <1>1, <1>8, <2>1, <4>1, <5>1 DEF SecondCount, Waiting
        <5> QED
          BY <5>2, <5>3
      <4>2. CASE e # name
        <5>1. /\ e \in DOMAIN nets'.b <=> e \in DOMAIN nets.b
              /\ e \in DOMAIN nets.b => nets'.b[e] = nets.b[e]
          BY <1>3, <1>9, <4>2
        <5> QED
          BY <1>1, <4>2, <5>1 DEF SecondCount, Waiting
      <4> QED
        BY <1>3, <2>4, <4>1, <4>2
    <3> QED
      BY <2>1, <3>1, <3>3, <3>4, <3>5, TrackedSame
  <2> QED
    BY <2>3, <2>4
<1>15. NetShowsTraffic'
  BY <1>1 DEF NetShowsTraffic
<1> QED
  BY <1>10, <1>12, <1>13, <1>14, <1>15 DEF NetInv

\* The difference of two readings in the word is what the counter gained.
LEMMA CountGained ==
    ASSUME NEW x \in Count, NEW p \in Count
    PROVE  (((x + p) % Wrap) + Wrap - x) % Wrap = p
<1>1. Wrap \in Nat \ {0} /\ x \in Int /\ p \in Int /\ p \in 0..Wrap - 1 /\ 1 \in Int
      /\ x + p \in Int /\ Wrap - x \in Int
  BY NetConstants DEF Count
<1>2. ((x + p) % Wrap) + Wrap - x = ((x + p) % Wrap) + (Wrap - x)
  BY <1>1
<1>3. (((x + p) % Wrap) + (Wrap - x)) % Wrap = ((x + p) + (Wrap - x)) % Wrap
  BY <1>1, CutEarly, Zenon
<1>4. (x + p) + (Wrap - x) = p + Wrap * 1
  BY <1>1
<1>5. (p + Wrap * 1) % Wrap = p % Wrap
  BY <1>1, WholeWords, Zenon
<1>6. p % Wrap = p
  BY <1>1, SmallMod
<1> QED
  BY <1>2, <1>3, <1>4, <1>5, <1>6

\* net_dev_diff keeps to the types.
LEMMA ComparedTypes ==
    ASSUME NEW a \in Scans, NEW b \in Scans
    PROVE  NetCompared(a, b) \in Net
<1> DEFINE drx    == (b.rx + Wrap - a.rx) % Wrap
           dtx    == (b.tx + Wrap - a.tx) % Wrap
           sum    == (drx + dtx) % Wrap
           ispeed == ISpeed(b.speed)
           unit   == IF ispeed = 0 THEN "0 Mbits" ELSE " Mbits"
           use    == IF sum = 0 /\ ispeed = 0 THEN <<0, 1>> ELSE <<sum, ispeed>>
<1>1. a.rx \in Count /\ a.tx \in Count /\ b.rx \in Count /\ b.tx \in Count /\ b.speed \in Texts
  BY DEF Scans
<1>2. drx \in Count /\ dtx \in Count
  BY <1>1, NetConstants DEF Count
<1>3. ispeed \in 0..Range64 - 1
  BY <1>1, SpeedOfText DEF Texts
<1> HIDE DEF drx, dtx, ispeed
<1>4. sum \in Count
  BY <1>2, NetConstants DEF Count
<1> HIDE DEF sum
<1>5. use \in (0..Wrap - 1) \X (0..Range64)
  BY <1>3, <1>4, NetConstants DEF Count
<1>6. unit \in {"", "0 Mbits", " Mbits"}
  OBVIOUS
<1> HIDE DEF unit, use
<1>7. NetCompared(a, b) = [b EXCEPT !.unit = unit, !.use = use, !.rx_speed = drx, !.tx_speed = dtx]
  BY DEF NetCompared, unit, use, sum, drx, dtx, ispeed
<1>8. b \in Net
  BY ScansAreNets
<1> QED
  BY <1>2, <1>5, <1>6, <1>7, <1>8 DEF Net, Count

\* What net_dev_diff makes of two readings with p and q bytes between them.
LEMMA ComparedShows ==
    ASSUME NEW a \in Scans, NEW b \in Scans, NEW p \in Count, NEW q \in Count,
           p + q < Wrap, b.rx = (a.rx + p) % Wrap, b.tx = (a.tx + q) % Wrap
    PROVE  LET dev == NetCompared(a, b)
           IN  /\ dev.rx_speed = p /\ dev.tx_speed = q
               /\ dev.use[1] = p + q
               /\ IF Fast(dev.speed) THEN dev.use[2] = (Said(dev.speed) \div 8) * MB
                  ELSE IF dev.speed # <<>> /\ dev.speed[1] < 0 THEN dev.use[2] > 0
                  ELSE dev.use[2] = IF dev.use[1] > 0 THEN 0 ELSE 1
               /\ dev.unit # "" /\ dev.use # <<0, 0>>
<1> DEFINE ispeed == ISpeed(b.speed)
           unit   == IF ispeed = 0 THEN "0 Mbits" ELSE " Mbits"
           use    == IF p + q = 0 /\ ispeed = 0 THEN <<0, 1>> ELSE <<p + q, ispeed>>
           dev    == NetCompared(a, b)
<1>1. a.rx \in Count /\ a.tx \in Count /\ b.speed \in Texts
  BY DEF Scans
<1>2. (b.rx + Wrap - a.rx) % Wrap = p /\ (b.tx + Wrap - a.tx) % Wrap = q
  BY <1>1, CountGained
<1>3. (p + q) % Wrap = p + q /\ p + q \in Nat
  BY NetConstants DEF Count
<1>4. NetCompared(a, b) = [b EXCEPT !.unit = unit, !.use = use, !.rx_speed = p, !.tx_speed = q]
  BY <1>2, <1>3 DEF NetCompared
<1>5. /\ ispeed \in 0..Range64 - 1
      /\ IF Fast(b.speed) THEN ispeed = (Said(b.speed) \div 8) * MB /\ ispeed > 0
         ELSE IF b.speed # <<>> /\ b.speed[1] < 0 THEN ispeed > 0
         ELSE ispeed = 0
  BY <1>1, SpeedOfText DEF Texts
<1> HIDE DEF ispeed, unit, use
<1>6. /\ dev.rx_speed = p /\ dev.tx_speed = q /\ dev.use = use /\ dev.unit = unit
      /\ dev.speed = b.speed
  BY <1>4 DEF Scans
<1> HIDE DEF dev
<1>7. ispeed \in Nat
  BY <1>5, NetConstants
<1>8. /\ use[1] = p + q
      /\ use[2] = IF p + q = 0 /\ ispeed = 0 THEN 1 ELSE ispeed
      /\ use # <<0, 0>>
  BY <1>3, <1>7 DEF use
<1>9. unit # ""
  BY DEF unit
<1>10. IF Fast(dev.speed) THEN dev.use[2] = (Said(dev.speed) \div 8) * MB
       ELSE IF dev.speed # <<>> /\ dev.speed[1] < 0 THEN dev.use[2] > 0
       ELSE dev.use[2] = IF dev.use[1] > 0 THEN 0 ELSE 1
  <2>1. CASE Fast(b.speed)
    BY <1>5, <1>6, <1>7, <1>8, <2>1
  <2>2. CASE ~Fast(b.speed) /\ b.speed # <<>> /\ b.speed[1] < 0
    BY <1>5, <1>6, <1>7, <1>8, <2>2
  <2>3. CASE ~Fast(b.speed) /\ ~(b.speed # <<>> /\ b.speed[1] < 0)
    BY <1>3, <1>5, <1>6, <1>8, <2>3
  <2> QED
    BY <2>1, <2>2, <2>3
<1> QED
  BY <1>6, <1>8, <1>9, <1>10 DEF dev

LEMMA NetDiffStep ==
    ASSUME NetInv, NetDiff
    PROVE  NetInv'
<1>1. /\ net_pc = "diff" /\ net_pc' = "show"
      /\ UNCHANGED <<up, bytes, net_turn, net_cur, net_stayed, passed>>
  BY DEF NetDiff, netKernel
<1> DEFINE shown == [d \in DOMAIN nets.b |->
                        IF d \in DOMAIN nets.a THEN NetCompared(nets.a[d], nets.b[d])
                        ELSE nets.b[d]]
<1>2. nets' = [a |-> NoNets, b |-> shown]
  BY DEF NetDiff
<1> HIDE DEF shown
<1>3. /\ nets'.a = NoNets /\ nets'.b = shown /\ nets' = [a |-> nets'.a, b |-> nets'.b]
      /\ DOMAIN nets'.a = {} /\ DOMAIN shown = DOMAIN nets.b
  BY <1>2 DEF NoNets, shown
<1>4. /\ DOMAIN nets.b \subseteq Nets
      /\ \A d \in DOMAIN nets.a : nets.a[d] \in Scans
      /\ \A d \in DOMAIN nets.b : nets.b[d] \in Scans
  BY <1>1, NetTypes DEF NetInv, NetShape, Going
<1>5. \A d \in DOMAIN nets.b : /\ d \in DOMAIN nets.a => shown[d] = NetCompared(nets.a[d], nets.b[d])
                               /\ d \notin DOMAIN nets.a => shown[d] = nets.b[d]
  BY DEF shown
<1>6. NetTypeOK'
  <2>1. \A d \in DOMAIN nets.b : shown[d] \in Net
    BY <1>4, <1>5, ComparedTypes, ScansAreNets
  <2>2. \A r \in {"a", "b"} : /\ DOMAIN nets'[r] \subseteq Nets
                              /\ \A d \in DOMAIN nets'[r] : nets'[r][d] \in Net
    BY <1>3, <1>4, <2>1
  <2> QED
    BY <1>1, <2>2 DEF NetInv, NetTypeOK
<1>7. NetShape'
  <2>1. net_turn = "b" /\ net_cur = Blank
    BY <1>1 DEF NetInv, NetShape
  <2> QED
    BY <1>1, <1>3, <2>1 DEF NetShape, Going
<1>8. NetLimit' /\ NetTracked'
  BY <1>1 DEF NetInv, NetLimit, Counted, NetTracked, Going
<1>9. ASSUME NEW d \in DOMAIN nets.b
      PROVE  LET dev  == shown[d]
                 real == passed[d]
             IN  \/ CHANGED \in {real["rx"], real["tx"]}
                 \/ /\ UNSEEN \in {real["rx"], real["tx"]}
                    /\ dev.rx_speed = 0 /\ dev.tx_speed = 0
                    /\ dev.use = <<0, 1>> /\ dev.unit = ""
                 \/ /\ dev.rx_speed = real["rx"] /\ dev.tx_speed = real["tx"]
                    /\ dev.use[1] = real["rx"] + real["tx"]
                    /\ IF Fast(dev.speed) THEN dev.use[2] = (Said(dev.speed) \div 8) * MB
                       ELSE IF dev.speed # <<>> /\ dev.speed[1] < 0 THEN dev.use[2] > 0
                       ELSE dev.use[2] = IF dev.use[1] > 0 THEN 0 ELSE 1
                    /\ dev.unit # "" /\ dev.use # <<0, 0>>
  <2>1. d \in Nets /\ "rx" \in Ways /\ "tx" \in Ways
    BY <1>4 DEF Ways
  <2>2. \A w \in Ways : Tracked(d, w) /\ (First(d, w) <=> d \in DOMAIN nets.a)
    BY <1>1, <2>1 DEF NetInv, NetTracked, Going, First
  <2>3. CASE d \notin DOMAIN nets.a
    <3>1. passed[d]["rx"] = UNSEEN
      BY <2>1, <2>2, <2>3 DEF Tracked
    <3>2. shown[d] \in Scans
      BY <1>4, <1>5, <2>3
    <3>3. /\ shown[d].rx_speed = 0 /\ shown[d].tx_speed = 0
          /\ shown[d].use = <<0, 1>> /\ shown[d].unit = ""
      BY <3>2 DEF Scans
    <3> QED
      BY <3>1, <3>3
  <2>4. CASE d \in DOMAIN nets.a /\ CHANGED \notin {passed[d]["rx"], passed[d]["tx"]}
    <3> DEFINE a == nets.a[d]
               b == nets.b[d]
               p == passed[d]["rx"]
               q == passed[d]["tx"]
    <3>1. \A w \in Ways : /\ passed[d][w] = CHANGED \/ passed[d][w] \in Nat
                          /\ passed[d][w] \in Nat => b[w] = (a[w] + passed[d][w]) % Wrap
      <4>1. \A w \in Ways : FirstCount(d, w) = a[w] /\ SecondCount(d, w) = b[w]
        BY <2>4 DEF FirstCount, SecondCount
      <4> QED
        BY <2>2, <2>4, <4>1, NetConstants DEF Tracked
    <3>2. /\ p \in Nat /\ q \in Nat
          /\ b["rx"] = (a["rx"] + p) % Wrap /\ b["tx"] = (a["tx"] + q) % Wrap
      BY <2>1, <2>4, <3>1
    <3>3. p + q < Wrap
      <4>1. Counted(d, "rx") = p /\ Counted(d, "tx") = q
        BY <3>2 DEF Counted
      <4> QED
        BY <2>1, <4>1 DEF NetInv, NetLimit
    <3>4. p \in Count /\ q \in Count
      BY <3>2, <3>3, NetConstants DEF Count
    <3>5. a \in Scans /\ b \in Scans /\ shown[d] = NetCompared(a, b)
      BY <1>4, <1>5, <2>4
    <3>6. b.rx = (a.rx + p) % Wrap /\ b.tx = (a.tx + q) % Wrap
      BY <3>2
    <3> HIDE DEF a, b, p, q
    <3>7. LET dev == NetCompared(a, b)
          IN  /\ dev.rx_speed = p /\ dev.tx_speed = q
              /\ dev.use[1] = p + q
              /\ IF Fast(dev.speed) THEN dev.use[2] = (Said(dev.speed) \div 8) * MB
                 ELSE IF dev.speed # <<>> /\ dev.speed[1] < 0 THEN dev.use[2] > 0
                 ELSE dev.use[2] = IF dev.use[1] > 0 THEN 0 ELSE 1
              /\ dev.unit # "" /\ dev.use # <<0, 0>>
      BY <3>3, <3>4, <3>5, <3>6, ComparedShows
    <3> QED
      BY <3>5, <3>7, Zenon DEF p, q
  <2> QED
    BY <2>3, <2>4
<1>10. NetShowsTraffic'
  <2>1. /\ nets'.b = shown /\ DOMAIN shown = DOMAIN nets.b /\ passed' = passed
    BY <1>1, <1>3
  <2> QED
    BY <1>9, <2>1 DEF NetShowsTraffic
<1> QED
  BY <1>6, <1>7, <1>8, <1>10 DEF NetInv

LEMMA NetPublishStep ==
    ASSUME NetInv, NetPublish
    PROVE  NetInv'
<1>1. /\ net_pc' = "scan" /\ net_turn' = "a" /\ net_pc = "show"
      /\ nets' = [a |-> NoNets, b |-> NoNets] /\ net_stayed' = up
      /\ passed' = [d \in Nets |-> [w \in Ways |-> UNSEEN]]
      /\ UNCHANGED <<up, bytes, net_cur>>
  BY DEF NetPublish, NoneSeen, netKernel
<1>2. /\ DOMAIN nets'.a = {} /\ DOMAIN nets'.b = {} /\ nets'.b = NoNets
      /\ \A r \in {"a", "b"} : DOMAIN nets'[r] = {}
  BY <1>1 DEF NoNets
<1>3. \A d \in Nets, w \in Ways : passed'[d][w] = UNSEEN
  BY <1>1
<1>4. NetTypeOK'
  BY <1>1, <1>2 DEF NetInv, NetTypeOK
<1>5. NetShape'
  BY <1>1, <1>2 DEF NetInv, NetShape
<1>6. NetLimit'
  BY <1>3, NetConstants DEF NetLimit, Counted, Ways
<1>7. NetTracked'
  BY <1>1, <1>2, <1>3 DEF NetTracked, Tracked, First
<1>8. NetShowsTraffic'
  BY <1>1 DEF NetShowsTraffic
<1> QED
  BY <1>4, <1>5, <1>6, <1>7, <1>8 DEF NetInv

LEMMA NetStep ==
    NetInv /\ [NetNext]_netVars => NetInv'
<1> SUFFICES ASSUME NetInv, [NetNext]_netVars
             PROVE  NetInv'
  OBVIOUS
<1>1. CASE UNCHANGED netVars
  <2>1. UNCHANGED <<up, bytes, net_pc, net_turn, net_cur, nets, net_stayed, passed>>
    BY <1>1 DEF netVars, netKernel
  <2>2. NetTypeOK' /\ NetShape'
    BY <2>1 DEF NetInv, NetTypeOK, NetShape, Going
  <2>3. NetLimit' /\ NetShowsTraffic'
    BY <2>1, ShownFrame DEF NetInv, NetLimit, Counted
  <2>4. NetTracked'
    BY <2>1 DEF NetInv, NetTracked, Going, Tracked, First, FirstCount, SecondCount, Waiting
  <2> QED
    BY <2>2, <2>3, <2>4 DEF NetInv
<1>2. CASE NetNext /\ net_pc = "crashed"
  BY <1>1, <1>2 DEF NetNext, NetGone
<1>3. CASE NetNext /\ net_pc # "crashed"
  <2>1. NetSampler \/ \E d \in Nets : NetKernel(d)
    BY <1>3 DEF NetNext
  <2>2. CASE NetSampler
    BY <2>2, NextEntryStep, LostStep, ReadSpeedStep, ReadRxStep, ReadTxStep, NetEndDirStep,
       NetSleepStep, NetDiffStep, NetPublishStep DEF NetSampler
  <2>3. CASE \E d \in Nets : NetKernel(d)
    BY <2>3, PassStep, VanishStep, AppearStep DEF NetKernel
  <2> QED
    BY <2>1, <2>2, <2>3
<1> QED
  BY <1>1, <1>2, <1>3

(* The speeds and the use that net_dev_sample hands on for an interface are *)
(* what passed between its two readings, for any number of interfaces that  *)
(* come and go, counters of any width and every link speed: an interface    *)
(* that is new has none, and only one that was replaced meaningless ones.   *)
THEOREM NetCorrect == Spec => []NetShowsTraffic
<1>1. Init => NetInv
  BY NetInitInv DEF Init
<1>2. NetInv /\ [Next]_vars => NetInv'
  BY NextParts, NetStep
<1>3. NetInv => NetShowsTraffic
  BY DEF NetInv
<1> QED
  BY <1>1, <1>2, <1>3, PTL DEF Spec

-----------------------------------------------------------------------------
(* The readings of all four samplers keep to their types.                   *)
THEOREM ReadingsTypeCorrect == Spec => []TypeOK
<1> DEFINE AllInv == CpuInv /\ InfoInv /\ MemInv /\ NetInv
<1>1. Init => AllInv
  BY CpuInitInv, InfoInitInv, MemInitInv, NetInitInv DEF Init
<1>2. AllInv /\ [Next]_vars => AllInv'
  BY NextParts, CpuStep, InfoStep, MemStep, NetStep
<1>3. AllInv => TypeOK
  <2> SUFFICES ASSUME CpuInv, InfoInv, MemInv, NetInv
               PROVE  TypeOK
    OBVIOUS
  <2>1. CpuTypeOK /\ NetTypeOK
    BY DEF CpuInv, NetInv
  <2>2. FileTypeOK
    <3>1. /\ DOMAIN cpuinfo = 1..Len(cpuinfo) /\ Len(cpuinfo) \in Nat
          /\ Clocks \subseteq DOMAIN cpuinfo /\ Unclocked \subseteq DOMAIN cpuinfo
      BY InfoInvFacts
    <3>2. SeenClocks \subseteq Clocks /\ SeenNames \subseteq Unclocked
      BY DEF SeenClocks, SeenNames, Scanned
    <3>3. /\ info_pc \in {"idle", "line", "crashed"} /\ line \in 0..Len(cpuinfo) + 1
          /\ g_cpu_info.clock \in SeenClocks \cup {0}
          /\ g_cpu_info.name \in SeenNames \cup {0}
          /\ g_cpu_info.cores \in Nat /\ (g_cpu_info.cores = 0 \/ g_cpu_info.cores < line)
          /\ dubbed = SeenNames \cup ({g_cpu_info.clock} \ {0})
      BY DEF InfoInv
    <3>4. \A f \in {"name", "clock"} : g_cpu_info[f] \in 0..Len(cpuinfo)
      BY <3>1, <3>2, <3>3
    <3>5. g_cpu_info.cores \in 0..Len(cpuinfo)
      BY <3>1, <3>3
    <3>6. dubbed \subseteq DOMAIN cpuinfo
      BY <3>1, <3>2, <3>3
    <3>7. /\ Len(meminfo) \in Nat /\ DOMAIN meminfo = 1..Len(meminfo)
          /\ \A k \in DOMAIN meminfo : meminfo[k].val \in Nat
          /\ popped \in Nat /\ popped <= Len(meminfo)
      BY MemFacts
    <3>8. /\ mem_pc \in {"idle", "pair", "close"} /\ i = popped
          /\ matched = IF mem_pc = "idle" THEN {} ELSE popped + 1..Len(meminfo)
          /\ g_mem_info = [key \in Keys |-> g_mem_info[key]]
          /\ \A key \in Keys : FieldOfLines(key)
      BY DEF MemInv
    <3>9. i \in 0..Len(meminfo) /\ matched \subseteq DOMAIN meminfo
      BY <3>7, <3>8
    <3>10. \A key \in Keys : g_mem_info[key] \in Nat
      BY <3>7, <3>8 DEF FieldOfLines, Looked
    <3>11. g_mem_info \in [Keys -> Nat]
      BY <3>8, <3>10
    <3> QED
      BY <3>3, <3>4, <3>5, <3>6, <3>8, <3>9, <3>11 DEF FileTypeOK
  <2> QED
    BY <2>1, <2>2 DEF TypeOK
<1> QED
  BY <1>1, <1>2, <1>3, PTL DEF Spec

-----------------------------------------------------------------------------
(* The block devices.  The invariant follows one disk through a round: as   *)
(* long as it is not replaced its counter is the first reading plus what    *)
(* was transferred since, modulo the width, and the second reading freezes  *)
(* that sum; the difference gives the transfer back.                        *)

Lists == {"a", "b"}

\* A reading is a list of disks, each with a device record.
ReadingsInv ==
    /\ DOMAIN devs = Lists
    /\ \A r \in Lists : /\ DOMAIN devs[r] \subseteq Disks
                        /\ \A d \in DOMAIN devs[r] : devs[r][d] \in Device
    /\ used \in [Disks -> Nat \cup {ABSENT}]

\* What the sampler's place says of the two readings.
PlaceInv ==
    /\ pc = "stat" => cur \in Disks \ DOMAIN devs[turn]
    /\ turn = "a" => DOMAIN devs["b"] = {}
    /\ pc = "sleep" => turn = "a"
    /\ pc \in {"diff", "show"} => turn = "b"

Known(d) == traffic[d] \notin {ABSENT, REPLACED}
Later(d) == (devs["a"][d].stat + traffic[d]) % Modulus

\* Until the difference is taken, where the transfers of a round are found.
TrafficInv ==
    pc # "show" =>
        /\ \A d \in Disks :
              /\ d \in DOMAIN devs["a"] <=> traffic[d] # ABSENT
              /\ Known(d) =>
                    IF d \in DOMAIN devs["b"] THEN devs["b"][d].stat = Later(d)
                    ELSE counter[d] = Later(d)
        /\ \A r \in Lists : \A d \in DOMAIN devs[r] : devs[r][d].perf = 0

\* In either reading, at every point of it.
UsageInv ==
    \A r \in Lists : \A d \in DOMAIN devs[r] :
        LET dev == devs[r][d]
        IN  IF dev.perc = ABSENT THEN dev.used = 0
            ELSE dev.perc = <<dev.used, dev.size>> /\ dev.used <= dev.size /\ dev.size # 0

BlkInv == BlkTypeOK /\ ReadingsInv /\ PlaceInv /\ TrafficInv /\ UsageInv /\ SpeedsAreTraffic

-----------------------------------------------------------------------------
(* A counter one step on, and what a difference of counters gives back.    *)

LEMMA ModCases ==
  ASSUME NEW M \in Nat \ {0}, NEW x \in 0..2 * M - 1
  PROVE  x % M = IF x < M THEN x ELSE x - M
  OBVIOUS

LEMMA CountOn ==
  ASSUME NEW M \in Nat \ {0}, NEW s \in 0..M - 1, NEW t \in 0..M - 1, t + 1 < M
  PROVE  (((s + t) % M) + 1) % M = (s + (t + 1)) % M
  <1>1. \A x \in 0..2 * M - 1 : x % M = IF x < M THEN x ELSE x - M
    BY ModCases
  <1>2. (s + t) % M = IF s + t < M THEN s + t ELSE s + t - M
    BY <1>1
  <1>3. (s + (t + 1)) % M = IF s + (t + 1) < M THEN s + (t + 1) ELSE s + (t + 1) - M
    BY <1>1
  <1>4. ((s + t) % M) + 1 \in 0..2 * M - 1
    BY <1>2
  <1> QED
    BY <1>1, <1>2, <1>3, <1>4

LEMMA DifferenceIsTransfer ==
  ASSUME NEW M \in Nat \ {0}, NEW s \in 0..M - 1, NEW t \in 0..M - 1
  PROVE  (((s + t) % M) + M - s) % M = t
  <1>1. \A x \in 0..2 * M - 1 : x % M = IF x < M THEN x ELSE x - M
    BY ModCases
  <1> DEFINE y == (s + t) % M
  <1>2. y \in 0..M - 1 /\ y = IF s + t < M THEN s + t ELSE s + t - M
    BY <1>1
  <1>3. y + M - s \in 0..2 * M - 1
    BY <1>2
  <1>4. (y + M - s) % M = IF y + M - s < M THEN y + M - s ELSE y + M - s - M
    BY <1>1, <1>3
  <1> HIDE DEF y
  <1>5. (y + M - s) % M = t
    BY <1>2, <1>4
  <1> QED
    BY <1>5 DEF y
-----------------------------------------------------------------------------
LEMMA BlkInitInv == BlkInit => BlkInv
  <1> SUFFICES ASSUME BlkInit PROVE BlkInv
    OBVIOUS
  <1>1. BlkTypeOK
    BY ModulusAssumption, SizesAssumption DEF BlkInit, BlkTypeOK, Empty
  <1>2. ReadingsInv
    BY DEF BlkInit, ReadingsInv, Lists, Empty
  <1>3. PlaceInv
    BY DEF BlkInit, PlaceInv, Empty
  <1>4. TrafficInv
    BY DEF BlkInit, TrafficInv, Known, Lists, Empty
  <1>5. UsageInv
    BY DEF BlkInit, UsageInv, Lists, Empty
  <1>6. SpeedsAreTraffic
    BY DEF BlkInit, SpeedsAreTraffic
  <1> QED
    BY <1>1, <1>2, <1>3, <1>4, <1>5, <1>6 DEF BlkInv

(* The kernel never touches the readings; what it does to a counter is     *)
(* told in traffic until the second reading has the disk.                  *)
LEMMA KernelStep ==
  ASSUME BlkInv, NEW d \in Disks, Kernel(d) PROVE BlkInv'
  <1> USE ModulusAssumption, SizesAssumption
  <1> USE DEF BlkInv
  <1>0. UNCHANGED <<pc, turn, cur, devs>>
    BY DEF Kernel, Transfer, Mount, Unmount, Unplug, Plug
  <1>1. CASE Transfer(d)
    <2>1. BlkTypeOK'
      BY <1>1 DEF Transfer, BlkTypeOK, Followed
    <2>2. \A e \in Disks : Known(e)' <=> Known(e)
      <3>1. ABSENT \notin Nat /\ REPLACED \notin Nat
        OBVIOUS
      <3>2. CASE Followed(d)
        <4>1. traffic[d] + 1 \in Nat /\ Known(d)
          BY <3>2 DEF Followed, Known, BlkTypeOK
        <4>2. traffic' = [traffic EXCEPT ![d] = traffic[d] + 1]
          BY <1>1, <3>2 DEF Transfer
        <4> QED
          BY <3>1, <4>1, <4>2 DEF Known, BlkTypeOK
      <3>3. CASE ~Followed(d)
        BY <1>1, <3>3 DEF Transfer, Known
      <3> QED
        BY <3>2, <3>3
    <2>3. ASSUME pc # "show" PROVE TrafficInv'
      <3>1. \A e \in Disks : e \in DOMAIN devs["a"] <=> traffic'[e] # ABSENT
        BY <1>1, <2>3 DEF Transfer, BlkTypeOK, Followed, TrafficInv
      <3>2. ASSUME NEW e \in Disks, Known(e), e \in DOMAIN devs["b"]
            PROVE  devs["b"][e].stat = Later(e)'
        BY <1>0, <1>1, <2>3, <3>2 DEF Transfer, BlkTypeOK, Followed, TrafficInv, Later
      <3>3. ASSUME NEW e \in Disks, Known(e), e \notin DOMAIN devs["b"]
            PROVE  counter'[e] = Later(e)'
        <4>1. CASE e = d
          <5>1. counter[d] = Later(d) /\ traffic[d] + 1 < Modulus
            BY <1>1, <2>3, <3>3, <4>1 DEF Transfer, Followed, Known, TrafficInv
          <5>2. traffic[d] \in 0..Modulus - 1 /\ devs["a"][d].stat \in 0..Modulus - 1
            BY <2>3, <3>3, <4>1 DEF BlkTypeOK, ReadingsInv, TrafficInv, Known, Lists, Device
          <5>3. counter'[d] = (Later(d) + 1) % Modulus /\ traffic'[d] = traffic[d] + 1
            BY <1>1, <3>3, <4>1, <5>1 DEF Transfer, Followed, Known, BlkTypeOK
          <5>4. Later(d)' = (devs["a"][d].stat + (traffic[d] + 1)) % Modulus
            BY <1>0, <5>3 DEF Later
          <5>5. (Later(d) + 1) % Modulus = (devs["a"][d].stat + (traffic[d] + 1)) % Modulus
            BY <5>1, <5>2, CountOn DEF Later
          <5> QED
            BY <4>1, <5>3, <5>4, <5>5
        <4>2. CASE e # d
          BY <1>0, <1>1, <2>3, <3>3, <4>2 DEF Transfer, BlkTypeOK, TrafficInv, Later
        <4> QED
          BY <4>1, <4>2
      <3> QED
        BY <1>0, <2>2, <2>3, <3>1, <3>2, <3>3 DEF TrafficInv
    <2>4. SpeedsAreTraffic'
      BY <1>0, <1>1 DEF Transfer, BlkTypeOK, Followed, SpeedsAreTraffic, ReadingsInv, Lists
    <2> QED
      BY <1>0, <1>1, <2>1, <2>3, <2>4
      DEF Transfer, TrafficInv, ReadingsInv, PlaceInv, UsageInv
  <1>2. CASE Mount(d)
    BY <1>0, <1>2 DEF Mount, BlkTypeOK, ReadingsInv, PlaceInv, TrafficInv, Known, Later,
       UsageInv, SpeedsAreTraffic
  <1>3. CASE Unmount(d)
    BY <1>0, <1>3 DEF Unmount, BlkTypeOK, ReadingsInv, PlaceInv, TrafficInv, Known, Later,
       UsageInv, SpeedsAreTraffic
  <1>4. CASE Unplug(d)
    <2>1. BlkTypeOK'
      BY <1>4 DEF Unplug, BlkTypeOK, Followed
    <2>2. TrafficInv'
      BY <1>0, <1>4 DEF Unplug, BlkTypeOK, Followed, TrafficInv, Known, Later
    <2>3. SpeedsAreTraffic'
      BY <1>0, <1>4 DEF Unplug, BlkTypeOK, Followed, SpeedsAreTraffic, ReadingsInv, Lists
    <2> QED
      BY <1>0, <1>4, <2>1, <2>2, <2>3 DEF Unplug, ReadingsInv, PlaceInv, UsageInv
  <1>5. CASE Plug(d)
    BY <1>0, <1>5 DEF Plug, BlkTypeOK, ReadingsInv, PlaceInv, TrafficInv, Known, Later,
       UsageInv, SpeedsAreTraffic
  <1> QED
    BY <1>1, <1>2, <1>3, <1>4, <1>5 DEF Kernel

\* Taking the directory entries leaves both readings alone.
LEMMA ScanStep ==
  ASSUME BlkInv, (\E d \in Disks : ReadDir(d)) \/ EndDir \/ Sleep PROVE BlkInv'
  <1> USE SizesAssumption DEF BlkInv
  <1>1. ASSUME NEW d \in Disks, ReadDir(d) PROVE BlkInv'
    BY <1>1 DEF ReadDir, kernel, BlkTypeOK, ReadingsInv, PlaceInv, TrafficInv, Known,
       Later, UsageInv, SpeedsAreTraffic
  <1>2. CASE EndDir
    BY <1>2 DEF EndDir, kernel, BlkTypeOK, ReadingsInv, PlaceInv, TrafficInv, Known,
       Later, UsageInv, SpeedsAreTraffic
  <1>3. CASE Sleep
    BY <1>3 DEF Sleep, kernel, BlkTypeOK, ReadingsInv, PlaceInv, TrafficInv, Known,
       Later, UsageInv, SpeedsAreTraffic
  <1> QED
    BY <1>1, <1>2, <1>3

\* A new record holds the counter as it is; the first one starts traffic.
LEMMA ReadStatStep ==
  ASSUME BlkInv, ReadStat PROVE BlkInv'
  <1> USE ModulusAssumption, SizesAssumption DEF BlkInv
  <1>0. /\ pc = "stat" /\ pc' \in {"scan", "crashed"} /\ cur' = ABSENT
        /\ UNCHANGED <<attached, counter, used, turn, constant>>
    BY DEF ReadStat, kernel
  <1>1. CASE cur \in attached
    <2> DEFINE r == [Fresh EXCEPT !.stat = counter[cur]]
               l == [e \in DOMAIN devs[turn] \cup {cur} |->
                        IF e = cur THEN r ELSE devs[turn][e]]
    <2>1. /\ turn \in Lists /\ cur \in Disks /\ cur \notin DOMAIN devs[turn]
          /\ counter[cur] \in 0..Modulus - 1
      BY <1>0, <1>1 DEF PlaceInv, BlkTypeOK, Lists
    <2>2. devs' = [devs EXCEPT ![turn] = l] /\ pc' = "scan"
      BY <1>1 DEF ReadStat, Add
    <2>3. /\ r \in Device /\ r.stat = counter[cur] /\ r.perf = 0
          /\ r.perc = ABSENT /\ r.used = 0
      BY <2>1 DEF Fresh, Device
    <2> HIDE DEF r
    <2>4. /\ DOMAIN l = DOMAIN devs[turn] \cup {cur} /\ l[cur] = r
          /\ \A e \in DOMAIN devs[turn] : l[e] = devs[turn][e]
      BY <2>1
    <2> HIDE DEF l
    <2>5. /\ DOMAIN devs' = Lists /\ devs'[turn] = l
          /\ \A q \in Lists : q # turn => devs'[q] = devs[q]
      BY <2>1, <2>2 DEF ReadingsInv
    <2>6. ReadingsInv'
      BY <1>0, <2>1, <2>3, <2>4, <2>5 DEF ReadingsInv
    <2>7. traffic' = IF turn = "a" THEN [traffic EXCEPT ![cur] = 0] ELSE traffic
      BY <1>1 DEF ReadStat
    <2>8. BlkTypeOK'
      <3>1. traffic' \in [Disks -> 0..Modulus - 1 \cup {ABSENT, REPLACED}]
        <4>1. 0 \in 0..Modulus - 1 /\ traffic \in [Disks -> 0..Modulus - 1 \cup {ABSENT, REPLACED}]
          BY DEF BlkTypeOK
        <4> HIDE ModulusAssumption, SizesAssumption
        <4> QED
          BY <2>7, <4>1, Zenon
      <3> QED
        BY <1>0, <2>2, <2>6, <3>1 DEF BlkTypeOK, ReadingsInv, Lists
    <2>9. PlaceInv'
      BY <1>0, <2>2, <2>5 DEF PlaceInv, Lists
    <2>10. TrafficInv'
      <3>1. \A q \in Lists : \A e \in DOMAIN devs'[q] : devs'[q][e].perf = 0
        BY <1>0, <2>1, <2>3, <2>4, <2>5 DEF TrafficInv
      <3>2. CASE turn = "a"
        <4>1. /\ DOMAIN devs["b"] = {} /\ DOMAIN devs'["b"] = {} /\ devs'["a"] = l
              /\ traffic' = [traffic EXCEPT ![cur] = 0]
          BY <2>5, <2>7, <3>2 DEF PlaceInv, Lists
        <4>2. (r.stat + 0) % Modulus = counter[cur]
          <5>1. \A x \in 0..2 * Modulus - 1 : x % Modulus = IF x < Modulus THEN x ELSE x - Modulus
            BY ModCases
          <5> QED
            BY <2>1, <2>3, <5>1
        <4> QED
          BY <1>0, <2>1, <2>3, <2>4, <3>1, <3>2, <4>1, <4>2, SMTT(30)
          DEF TrafficInv, Known, Later, BlkTypeOK
      <3>3. CASE turn = "b"
        <4>1. devs'["b"] = l /\ devs'["a"] = devs["a"] /\ traffic' = traffic
          BY <2>5, <2>7, <3>3 DEF Lists
        <4> QED
          BY <1>0, <2>1, <2>3, <2>4, <3>1, <3>3, <4>1 DEF TrafficInv, Known, Later
      <3> QED
        BY <2>1, <3>2, <3>3 DEF Lists
    <2>11. UsageInv'
      BY <2>1, <2>3, <2>4, <2>5 DEF UsageInv
    <2> QED
      BY <2>2, <2>6, <2>8, <2>9, <2>10, <2>11 DEF SpeedsAreTraffic
  <1>2. CASE cur \notin attached
    BY <1>0, <1>2 DEF ReadStat, BlkTypeOK, ReadingsInv, PlaceInv, TrafficInv, Known, Later,
       UsageInv, SpeedsAreTraffic
  <1> QED
    BY <1>1, <1>2

\* df and lsblk change sizes, used bytes and percentages, never a counter.
LEMMA SizesStep ==
  ASSUME BlkInv, Df \/ Lsblk PROVE BlkInv'
  <1> USE SizesAssumption DEF BlkInv
  <1>0. /\ pc \in {"df", "lsblk"} /\ pc' \in {"lsblk", "sleep", "diff"}
        /\ UNCHANGED <<attached, counter, used, turn, cur, constant, traffic>>
        /\ pc' = "sleep" => turn = "a"
        /\ pc' = "diff" => turn = "b"
    BY DEF Df, Lsblk, AfterGet, kernel, BlkTypeOK
  <1>1. turn \in Lists
    BY DEF BlkTypeOK, Lists
  <1>2. \E l : /\ devs' = [devs EXCEPT ![turn] = l]
               /\ DOMAIN l = DOMAIN devs[turn]
               /\ \A d \in DOMAIN l :
                     /\ l[d] \in Device
                     /\ l[d].stat = devs[turn][d].stat /\ l[d].perf = devs[turn][d].perf
                     /\ IF l[d].perc = ABSENT THEN l[d].used = 0
                        ELSE /\ l[d].perc = <<l[d].used, l[d].size>>
                             /\ l[d].used <= l[d].size /\ l[d].size # 0
    <2>0. DOMAIN devs[turn] \subseteq Disks
      BY <1>1 DEF ReadingsInv
    <2>1. CASE Df
      <3> DEFINE l == [d \in DOMAIN devs[turn] |->
                         IF used[d] = ABSENT THEN devs[turn][d]
                         ELSE [devs[turn][d] EXCEPT !.size = Space[d], !.used = used[d],
                                                    !.perc = <<used[d], Space[d]>>]]
      <3>1. devs' = [devs EXCEPT ![turn] = l]
        BY <2>1 DEF Df
      <3>2. ASSUME NEW d \in DOMAIN devs[turn]
            PROVE  /\ l[d] \in Device
                   /\ l[d].stat = devs[turn][d].stat /\ l[d].perf = devs[turn][d].perf
                   /\ IF l[d].perc = ABSENT THEN l[d].used = 0
                      ELSE /\ l[d].perc = <<l[d].used, l[d].size>>
                           /\ l[d].used <= l[d].size /\ l[d].size # 0
        <4>1. CASE used[d] = ABSENT
          BY <1>1, <4>1 DEF ReadingsInv, UsageInv
        <4>2. CASE used[d] # ABSENT
          <5>1. /\ used[d] \in Nat /\ Space[d] \in Nat /\ used[d] <= Space[d] /\ Space[d] # 0
                /\ devs[turn][d] \in Device
            BY <1>1, <2>0, <4>2 DEF BlkTypeOK, ReadingsInv
          <5>2. <<used[d], Space[d]>> \in Nat \X Nat
            BY <5>1
          <5> QED
            BY <4>2, <5>1, <5>2 DEF Device
        <4> QED
          BY <4>1, <4>2
      <3> HIDE DEF l
      <3>3. DOMAIN l = DOMAIN devs[turn]
        BY DEF l
      <3> QED
        BY <3>1, <3>2, <3>3
    <2>2. CASE Lsblk
      <3> DEFINE l == [d \in DOMAIN devs[turn] |->
                         IF d \in attached /\ devs[turn][d].size = 0
                         THEN [devs[turn][d] EXCEPT !.size = Capacity[d]]
                         ELSE devs[turn][d]]
      <3>1. devs' = [devs EXCEPT ![turn] = l]
        BY <2>2 DEF Lsblk
      <3>2. ASSUME NEW d \in DOMAIN devs[turn]
            PROVE  /\ l[d] \in Device
                   /\ l[d].stat = devs[turn][d].stat /\ l[d].perf = devs[turn][d].perf
                   /\ IF l[d].perc = ABSENT THEN l[d].used = 0
                      ELSE /\ l[d].perc = <<l[d].used, l[d].size>>
                           /\ l[d].used <= l[d].size /\ l[d].size # 0
        BY <1>1, <2>0 DEF ReadingsInv, UsageInv, Device
      <3> HIDE DEF l
      <3>3. DOMAIN l = DOMAIN devs[turn]
        BY DEF l
      <3> QED
        BY <3>1, <3>2, <3>3
    <2> QED
      BY <2>1, <2>2
  <1>3. PICK l : /\ devs' = [devs EXCEPT ![turn] = l]
                 /\ DOMAIN l = DOMAIN devs[turn]
                 /\ \A d \in DOMAIN l :
                       /\ l[d] \in Device
                       /\ l[d].stat = devs[turn][d].stat /\ l[d].perf = devs[turn][d].perf
                       /\ IF l[d].perc = ABSENT THEN l[d].used = 0
                          ELSE /\ l[d].perc = <<l[d].used, l[d].size>>
                               /\ l[d].used <= l[d].size /\ l[d].size # 0
    BY <1>2
  <1>4. /\ DOMAIN devs' = Lists /\ devs'[turn] = l
        /\ \A q \in Lists : q # turn => devs'[q] = devs[q]
    BY <1>1, <1>3 DEF ReadingsInv
  <1>5. ReadingsInv'
    BY <1>0, <1>1, <1>3, <1>4 DEF ReadingsInv
  <1>6. BlkTypeOK'
    BY <1>0, <1>5 DEF BlkTypeOK, ReadingsInv, Lists
  <1>7. PlaceInv'
    BY <1>0, <1>1, <1>3, <1>4 DEF PlaceInv, Lists
  <1>8. TrafficInv'
    BY <1>0, <1>1, <1>3, <1>4 DEF TrafficInv, Known, Later, Lists
  <1>9. UsageInv'
    BY <1>1, <1>3, <1>4 DEF UsageInv
  <1> QED
    BY <1>0, <1>5, <1>6, <1>7, <1>8, <1>9 DEF SpeedsAreTraffic

\* Where the difference gives the transfer back.
LEMMA DiffStep ==
  ASSUME BlkInv, Diff PROVE BlkInv'
  <1> USE ModulusAssumption, SizesAssumption DEF BlkInv
  <1> DEFINE l == [d \in DOMAIN devs["b"] |->
                     IF d \in DOMAIN devs["a"] THEN Compared(devs["a"][d], devs["b"][d])
                     ELSE devs["b"][d]]
  <1>1. /\ pc = "diff" /\ pc' = "show" /\ turn = "b" /\ turn' = "b"
        /\ UNCHANGED <<attached, counter, used, cur, constant, traffic>>
        /\ devs' = [a |-> Empty, b |-> l]
    BY DEF Diff, PlaceInv, kernel
  <1>2. DOMAIN devs["b"] \subseteq Disks /\ DOMAIN devs["a"] \subseteq Disks
    BY DEF ReadingsInv, Lists
  <1>3. ASSUME NEW d \in DOMAIN devs["b"]
        PROVE  /\ l[d] \in Device
               /\ l[d].size = devs["b"][d].size /\ l[d].used = devs["b"][d].used
               /\ l[d].perc = devs["b"][d].perc
               /\ \/ traffic[d] = REPLACED
                  \/ l[d].perf = IF traffic[d] = ABSENT THEN 0 ELSE traffic[d]
    <2>1. devs["b"][d] \in Device /\ devs["b"][d].perf = 0
      BY <1>1 DEF ReadingsInv, TrafficInv, Lists
    <2>2. CASE d \notin DOMAIN devs["a"]
      BY <1>1, <1>2, <2>1, <2>2 DEF TrafficInv
    <2>3. CASE d \in DOMAIN devs["a"]
      <3> DEFINE a == devs["a"][d].stat
                 b == devs["b"][d].stat
                 sectors == (b + Modulus - a) % Modulus
      <3>1. a \in 0..Modulus - 1 /\ b \in 0..Modulus - 1
        BY <2>1, <2>3 DEF ReadingsInv, Lists, Device
      <3>2. sectors \in 0..Modulus - 1
        BY <3>1
      <3>3. l[d] = [devs["b"][d] EXCEPT !.stat = sectors, !.perf = sectors]
        BY <2>3 DEF Compared
      <3>4. traffic[d] = REPLACED \/ sectors = traffic[d]
        <4>1. SUFFICES ASSUME traffic[d] # REPLACED PROVE sectors = traffic[d]
          OBVIOUS
        <4>2. traffic[d] # ABSENT /\ b = (a + traffic[d]) % Modulus
          BY <1>1, <1>2, <2>3, <4>1 DEF TrafficInv, Known, Later
        <4>3. traffic[d] \in 0..Modulus - 1
          BY <1>2, <4>1, <4>2 DEF BlkTypeOK
        <4> QED
          BY <3>1, <4>2, <4>3, DifferenceIsTransfer
      <3>5. traffic[d] # ABSENT
        BY <1>1, <1>2, <2>3 DEF TrafficInv
      <3> HIDE DEF sectors, l
      <3>6. l[d].perf = sectors /\ l[d] \in Device
        BY <2>1, <3>2, <3>3 DEF Device
      <3>7. /\ l[d].size = devs["b"][d].size /\ l[d].used = devs["b"][d].used
            /\ l[d].perc = devs["b"][d].perc
        BY <2>1, <3>3 DEF Device
      <3> QED
        BY <3>4, <3>5, <3>6, <3>7
    <2> QED
      BY <2>2, <2>3
  <1>4. DOMAIN l = DOMAIN devs["b"]
    OBVIOUS
  <1> HIDE DEF l
  <1>5. /\ DOMAIN devs' = Lists /\ devs'["b"] = l
        /\ devs'["a"] = Empty /\ DOMAIN devs'["a"] = {}
    BY <1>1 DEF Lists, Empty
  <1>6. ReadingsInv'
    BY <1>1, <1>2, <1>3, <1>4, <1>5 DEF ReadingsInv, Lists
  <1>7. BlkTypeOK'
    BY <1>1, <1>6 DEF BlkTypeOK, ReadingsInv, Lists
  <1>8. PlaceInv' /\ TrafficInv'
    BY <1>1 DEF PlaceInv, TrafficInv
  <1>9. UsageInv'
    BY <1>3, <1>4, <1>5 DEF UsageInv, Lists
  <1>10. SpeedsAreTraffic'
    BY <1>1, <1>3, <1>4, <1>5 DEF SpeedsAreTraffic
  <1> QED
    BY <1>6, <1>7, <1>8, <1>9, <1>10

\* A new round begins with nothing read.
LEMMA PublishStep ==
  ASSUME BlkInv, Publish PROVE BlkInv'
  <1> USE SizesAssumption DEF BlkInv
  <1>1. /\ pc' = "scan" /\ turn' = "a"
        /\ DOMAIN devs' = Lists /\ \A r \in Lists : DOMAIN devs'[r] = {}
        /\ traffic' = [d \in Disks |-> ABSENT]
        /\ constant' = attached
        /\ UNCHANGED <<attached, counter, used, cur>>
    BY DEF Publish, Lists, Empty, kernel
  <1>2. BlkTypeOK'
    BY <1>1 DEF BlkTypeOK, Lists
  <1>3. ReadingsInv'
    BY <1>1 DEF ReadingsInv
  <1>4. PlaceInv' /\ UsageInv' /\ SpeedsAreTraffic'
    BY <1>1 DEF PlaceInv, UsageInv, SpeedsAreTraffic, Lists
  <1>5. TrafficInv'
    BY <1>1 DEF TrafficInv, Known, Lists
  <1> QED
    BY <1>2, <1>3, <1>4, <1>5

LEMMA BlkNextInv == BlkInv /\ [BlkNext]_blkVars => BlkInv'
  <1> SUFFICES ASSUME BlkInv, [BlkNext]_blkVars PROVE BlkInv'
    OBVIOUS
  <1>1. CASE UNCHANGED blkVars
    BY <1>1 DEF blkVars, kernel, BlkInv, BlkTypeOK, ReadingsInv, PlaceInv, TrafficInv, Known,
       Later, UsageInv, SpeedsAreTraffic
  <1>2. CASE BlkNext /\ pc = "crashed"
    BY <1>1, <1>2 DEF BlkNext, Gone
  <1>3. CASE BlkNext /\ pc # "crashed"
    <2>1. Sampler \/ \E d \in Disks : Kernel(d)
      BY <1>3 DEF BlkNext
    <2> QED
      BY <2>1, KernelStep, ScanStep, ReadStatStep, SizesStep, DiffStep, PublishStep
      DEF Sampler
  <1> QED
    BY <1>1, <1>2, <1>3

LEMMA InductiveInvariant == BlkSpec => []BlkInv
  BY BlkInitInv, BlkNextInv, PTL DEF BlkSpec

-----------------------------------------------------------------------------
(* The variables keep their types: no difference of counters leaves their  *)
(* range, and no reading holds a disk without a record.                    *)
THEOREM DisksTyped == BlkSpec => []BlkTypeOK
  BY InductiveInvariant, PTL DEF BlkInv

(* The speed blkdev_sample hands on is what the disk transferred, for any  *)
(* width of the counters and any kernel that attaches and detaches disks.  *)
THEOREM DiskSpeedsCorrect == BlkSpec => []SpeedsAreTraffic
  BY InductiveInvariant, PTL DEF BlkInv

(* Percentage, used bytes and size handed on come from one line of df, or  *)
(* there is no percentage, for any sizes df and lsblk report.              *)
THEOREM DiskUsageCorrect == BlkSpec => []UsageMatchesSize
  <1>1. BlkInv => UsageMatchesSize
    BY DEF BlkInv, UsageInv, UsageMatchesSize, Lists
  <1> QED
    BY <1>1, InductiveInvariant, PTL
=============================================================================
