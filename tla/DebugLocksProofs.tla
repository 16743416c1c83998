--------------------------- MODULE DebugLocksProofs ---------------------------
(***************************************************************************)
(* Proofs about the locks of the debug build for any number of threads and *)
(* bins, any number of signals and any nesting of handlers.  The invariant *)
(* speaks of every call on a thread's stack: which lock it has, that only  *)
(* the running one has it without an interruption, save a bin's below a    *)
(* visit to the heap, and, on the threads that outlive the registry, that  *)
(* only handlers need a bin.                                               *)
(***************************************************************************)
EXTENDS DebugLocks, SequenceTheorems, TLAPS

FrameType == [todo : Seq(Locks) \ {<<>>}, held : BOOLEAN, handler : BOOLEAN,
              inside : 0..MaxInside]

StackInv == stack \in [Threads -> Seq(FrameType)]

First(f) == Head(f.todo)
Held(t, i) == i \in 1..Len(stack[t]) /\ stack[t][i].held

\* The calls that have a lock, and the locks that have an owner.
LockInv ==
    /\ \A t \in Threads, i \in Nat : Held(t, i) => owner[First(stack[t][i])] = t
    /\ \A t \in Threads, l \in Locks :
          owner[l] = t => \E i \in Nat : Held(t, i) /\ First(stack[t][i]) = l
    /\ \A t \in Threads, i, j \in Nat :
          Held(t, i) /\ Held(t, j) /\ First(stack[t][i]) = First(stack[t][j]) => i = j

\* A call that is not the running one has a lock only if it was interrupted,
\* or if it is at a bin and called the heap.
WaitInv ==
    \A t \in Threads : \A i \in 2..Len(stack[t]) : stack[t][i].held =>
       \/ t \in interrupted
       \/ i = 2 /\ stack[t][1].todo = <<Heap>> /\ First(stack[t][2]) \in Bins

\* Who may still call when the registry goes, and for what.
Late(t) == t = Keypad \/ (t = Main /\ registry # "up")
LateCalls == {<<Log>>, <<Heap>>}
LifeInv ==
    /\ \A t \in ended : stack[t] = <<>>
    /\ registry # "up" => ended = Joined
    /\ \A t \in Threads : Late(t) =>
          \A i \in 1..Len(stack[t]) : ~stack[t][i].handler => stack[t][i].todo \in LateCalls

IInv == /\ TypeOK /\ StackInv /\ LockInv /\ WaitInv /\ LifeInv
        /\ RegistryOutlivesUse

-----------------------------------------------------------------------------
(* The three things that happen to a stack: a call is pushed, the running  *)
(* one changes, the running one returns.                                   *)

LEMMA Pushed ==
  ASSUME NEW S, NEW s \in Seq(S), NEW f \in S
  PROVE  LET r == <<f>> \o s
         IN  /\ r \in Seq(S) /\ Len(r) = Len(s) + 1 /\ r[1] = f
             /\ \A i \in 1..Len(s) : r[i + 1] = s[i]
             /\ \A i \in 2..Len(s) + 1 : r[i] = s[i - 1]
  <1>1. <<f>> \in Seq(S) /\ Len(<<f>>) = 1 /\ <<f>>[1] = f
    OBVIOUS
  <1>2. /\ <<f>> \o s \in Seq(S) /\ Len(<<f>> \o s) = 1 + Len(s)
        /\ \A i \in 1..1 + Len(s) : (<<f>> \o s)[i] = IF i <= 1 THEN <<f>>[i] ELSE s[i - 1]
    BY <1>1, ConcatProperties
  <1> QED
    BY <1>1, <1>2

LEMMA Changed ==
  ASSUME NEW S, NEW s \in Seq(S), s # <<>>, NEW f \in S
  PROVE  LET r == [s EXCEPT ![1] = f]
         IN  /\ r \in Seq(S) /\ Len(r) = Len(s) /\ r[1] = f
             /\ \A i \in 2..Len(s) : r[i] = s[i]
  OBVIOUS

LEMMA Popped ==
  ASSUME NEW S, NEW s \in Seq(S), s # <<>>
  PROVE  LET r == Tail(s)
         IN  /\ r \in Seq(S) /\ Len(s) = Len(r) + 1
             /\ \A i \in 1..Len(r) : r[i] = s[i + 1]
             /\ \A i \in 2..Len(s) : r[i - 1] = s[i]
  OBVIOUS

LEMMA TailLeft ==
  ASSUME NEW S, NEW s \in Seq(S), Len(s) > 1
  PROVE  Tail(s) \in Seq(S) \ {<<>>}
  <1>1. s # <<>>
    BY EmptySeq
  <1>2. Tail(s) \in Seq(S) /\ Len(Tail(s)) = Len(s) - 1
    BY <1>1, HeadTailProperties
  <1>3. Len(Tail(s)) # Len(<<>>)
    BY <1>2, EmptySeq
  <1> QED
    BY <1>2, <1>3

\* What a call may be: no call is over before it takes a lock.
LEMMA DumpType == Dump \in Seq(Locks) \ {<<>>}
  <1>1. EveryBin \in Seq(Locks) /\ Len(EveryBin) = NBins
    BY BoundsAssumption DEF EveryBin, Locks, Bins
  <1>2. /\ <<Log, Heap>> \in Seq(Locks) /\ Len(<<Log, Heap>>) = 2
        /\ <<Heap>> \in Seq(Locks) /\ Len(<<Heap>>) = 1
    BY DEF Locks
  <1>3. ASSUME NEW s \in Seq(Locks), NEW u \in Seq(Locks)
        PROVE  s \o u \in Seq(Locks) /\ Len(s \o u) = Len(s) + Len(u)
    BY ConcatProperties
  <1> DEFINE front  == EveryBin \o <<Log, Heap>>
             middle == front \o EveryBin
  <1>4. front \in Seq(Locks) /\ Len(front) = NBins + 2
    BY <1>1, <1>2, <1>3, Zenon
  <1> HIDE DEF front
  <1>5. middle \in Seq(Locks) /\ Len(middle) = (NBins + 2) + NBins
    BY <1>1, <1>3, <1>4, Zenon
  <1> HIDE DEF middle
  <1>6. Dump \in Seq(Locks) /\ Len(Dump) = ((NBins + 2) + NBins) + 1
    <2>1. Dump = middle \o <<Heap>>
      BY DEF Dump, middle, front
    <2>2. /\ middle \o <<Heap>> \in Seq(Locks)
          /\ Len(middle \o <<Heap>>) = Len(middle) + Len(<<Heap>>)
      BY <1>2, <1>3, <1>5, Zenon
    <2> QED
      BY <1>2, <1>5, <2>1, <2>2, Zenon
  <1> QED
    BY <1>6, BoundsAssumption, EmptySeq

\* What the type invariant says of stacks.
LEMMA StackType ==
  ASSUME NEW st \in [Threads -> Seq(FrameType)], NEW t \in Threads, NEW i \in 1..Len(st[t])
  PROVE  /\ st[t][i].todo \in Seq(Locks) \ {<<>>}
         /\ st[t][i].held \in BOOLEAN /\ st[t][i].handler \in BOOLEAN
         /\ st[t][i].inside \in 0..MaxInside
  <1>1. st[t][i] \in FrameType
    OBVIOUS
  <1> QED
    BY <1>1 DEF FrameType

-----------------------------------------------------------------------------
LEMMA InitInv == Init => IInv
  <1> SUFFICES ASSUME Init PROVE IInv
    OBVIOUS
  <1> USE BoundsAssumption, NamesAssumption DEF Init
  <1>1. StackInv /\ \A t \in Threads : Len(stack[t]) = 0
    BY DEF StackInv
  <1>2. TypeOK
    BY <1>1 DEF TypeOK
  <1>3. LockInv
    BY <1>1 DEF LockInv, Held, Threads
  <1>4. WaitInv
    BY <1>1 DEF WaitInv
  <1>5. LifeInv
    BY <1>1 DEF LifeInv
  <1>6. RegistryOutlivesUse
    BY DEF RegistryOutlivesUse
  <1> QED
    BY <1>1, <1>2, <1>3, <1>4, <1>5, <1>6 DEF IInv

\* Two stacks that differ at most in how often their calls went to the heap.
Alike(r, s) ==
    /\ Len(r) = Len(s)
    /\ \A i \in 1..Len(s) :
          /\ r[i].todo = s[i].todo /\ r[i].held = s[i].held /\ r[i].handler = s[i].handler

\* A call on top of the others, which has no lock yet.
LEMMA PushStep ==
  ASSUME StackInv, LockInv, WaitInv,
         NEW t \in Threads, NEW f \in FrameType, ~f.held,
         NEW s \in Seq(FrameType), Alike(s, stack[t]),
         stack' = [stack EXCEPT ![t] = <<f>> \o s],
         owner' = owner, interrupted \subseteq interrupted',
         \A i \in 1..Len(stack[t]) : stack[t][i].held =>
            \/ t \in interrupted'
            \/ /\ f.todo = <<Heap>> /\ First(stack[t][1]) \in Bins
               /\ stack[t][1].todo # <<Heap>>
  PROVE  StackInv' /\ LockInv' /\ WaitInv'
  <1> DEFINE r == <<f>> \o s
             n == Len(stack[t])
  <1>1. /\ stack' = [stack EXCEPT ![t] = r]
        /\ r \in Seq(FrameType) /\ Len(r) = n + 1 /\ r[1] = f
        /\ \A i \in 1..n : r[i + 1] = s[i]
        /\ \A i \in 2..n + 1 : r[i] = s[i - 1]
    BY Pushed DEF Alike
  <1>2. n \in Nat
    BY DEF StackInv
  <1> HIDE DEF r
  <1>3. StackInv'
    BY <1>1 DEF StackInv
  <1>4. stack'[t] = r /\ \A u \in Threads : u # t => stack'[u] = stack[u]
    BY <1>1 DEF StackInv
  <1>5. \A i \in Nat : Held(t, i) => /\ Held(t, i + 1)'
                                     /\ First(stack'[t][i + 1]) = First(stack[t][i])
    BY <1>1, <1>2, <1>4 DEF Held, Alike, First
  <1>6. \A i \in 2..n + 1 : /\ i - 1 \in 1..n
                             /\ stack'[t][i].held = stack[t][i - 1].held
                             /\ First(stack'[t][i]) = First(stack[t][i - 1])
    BY <1>1, <1>2, <1>4 DEF Alike, First
  <1>7. ASSUME NEW i \in Nat, Held(t, i)'
        PROVE  \E k \in Nat : /\ i = k + 1 /\ Held(t, k)
                              /\ First(stack'[t][i]) = First(stack[t][k])
    <2>1. i \in 2..n + 1
      BY <1>1, <1>2, <1>4, <1>7 DEF Held
    <2> DEFINE k == i - 1
    <2>2. k \in 1..n /\ i = k + 1 /\ stack'[t][i].held
      BY <1>2, <1>7, <2>1 DEF Held
    <2>3. stack[t][k].held /\ First(stack'[t][i]) = First(stack[t][k])
      BY <1>6, <2>1, <2>2
    <2> HIDE DEF k
    <2>4. k \in Nat /\ Held(t, k)
      BY <1>2, <2>2, <2>3 DEF Held
    <2> QED
      BY <2>2, <2>3, <2>4
  <1>8. \A u \in Threads, i \in Nat :
           u # t => (Held(u, i)' <=> Held(u, i)) /\ stack'[u][i] = stack[u][i]
    BY <1>4 DEF Held
  <1>9. LockInv'
    <2>1. ASSUME NEW u \in Threads, NEW i \in Nat, Held(u, i)'
          PROVE  owner[First(stack'[u][i])] = u
      <3>1. CASE u = t
        <4>1. PICK k \in Nat : Held(t, k) /\ First(stack'[t][i]) = First(stack[t][k])
          BY <1>7, <2>1, <3>1
        <4>2. owner[First(stack[t][k])] = t
          BY <4>1 DEF LockInv
        <4> QED
          BY <3>1, <4>1, <4>2, Zenon
      <3>2. CASE u # t
        BY <1>8, <2>1, <3>2 DEF LockInv
      <3> QED
        BY <3>1, <3>2
    <2>2. ASSUME NEW u \in Threads, NEW l \in Locks, owner[l] = u
          PROVE  \E i \in Nat : Held(u, i)' /\ First(stack'[u][i]) = l
      <3>1. PICK i \in Nat : Held(u, i) /\ First(stack[u][i]) = l
        BY <2>2 DEF LockInv
      <3>2. CASE u = t
        <4>1. Held(t, i) /\ First(stack[t][i]) = l
          BY <3>1, <3>2, Zenon
        <4>2. Held(t, i + 1)' /\ First(stack'[t][i + 1]) = First(stack[t][i])
          BY <1>5, <4>1
        <4> DEFINE k == i + 1
        <4>3. k \in Nat
          OBVIOUS
        <4>4. Held(t, k)' /\ First(stack'[t][k]) = l
          BY <4>1, <4>2, Zenon
        <4> HIDE DEF k
        <4> QED
          BY <3>2, <4>3, <4>4, Zenon
      <3>3. CASE u # t
        BY <1>8, <3>1, <3>3
      <3> QED
        BY <3>2, <3>3
    <2>3. ASSUME NEW u \in Threads, NEW i \in Nat, NEW j \in Nat, Held(u, i)', Held(u, j)',
                 First(stack'[u][i]) = First(stack'[u][j])
          PROVE  i = j
      <3>1. CASE u = t
        <4>1. PICK k \in Nat : /\ i = k + 1 /\ Held(t, k)
                               /\ First(stack'[t][i]) = First(stack[t][k])
          BY <1>7, <2>3, <3>1
        <4>2. PICK m \in Nat : /\ j = m + 1 /\ Held(t, m)
                               /\ First(stack'[t][j]) = First(stack[t][m])
          BY <1>7, <2>3, <3>1
        <4>3. First(stack[t][k]) = First(stack[t][m])
          BY <2>3, <3>1, <4>1, <4>2, Zenon
        <4>4. k = m
          BY <4>1, <4>2, <4>3 DEF LockInv
        <4> QED
          BY <4>1, <4>2, <4>4
      <3>2. CASE u # t
        BY <1>8, <2>3, <3>2 DEF LockInv
      <3> QED
        BY <3>1, <3>2
    <2> QED
      BY <2>1, <2>2, <2>3 DEF LockInv, First
  <1>10. WaitInv'
    <2>1. ASSUME NEW u \in Threads, NEW i \in 2..Len(stack'[u]), stack'[u][i].held
          PROVE  \/ u \in interrupted'
                 \/ i = 2 /\ stack'[u][1].todo = <<Heap>> /\ First(stack'[u][2]) \in Bins
      <3>1. CASE u = t
        <4>1. i \in 2..n + 1 /\ i - 1 \in 1..n /\ stack[t][i - 1].held
          BY <1>1, <1>2, <1>4, <1>6, <2>1, <3>1
        <4>2. CASE t \in interrupted'
          BY <3>1, <4>2
        <4>3. CASE t \notin interrupted'
          <5>1. /\ f.todo = <<Heap>> /\ First(stack[t][1]) \in Bins
                /\ stack[t][1].todo # <<Heap>>
            BY <4>1, <4>3
          <5>2. i = 2
            BY <1>2, <4>1, <4>3, <5>1 DEF WaitInv
          <5>3. First(stack'[t][2]) = First(stack[t][1])
            <6>1. r[2] = s[1] /\ 1 \in 1..n
              BY <1>1, <1>2, <4>1, <5>2
            <6> QED
              BY <1>4, <6>1 DEF Alike, First
          <5> QED
            BY <1>1, <1>4, <3>1, <5>1, <5>2, <5>3
        <4> QED
          BY <4>2, <4>3
      <3>2. CASE u # t
        BY <1>4, <2>1, <3>2 DEF WaitInv
      <3> QED
        BY <3>1, <3>2
    <2> QED
      BY <2>1 DEF WaitInv, First
  <1> QED
    BY <1>3, <1>9, <1>10

\* What such a call leaves of the rest of the invariant.
LEMMA PushLife ==
  ASSUME StackInv, LifeInv, NEW t \in Threads, NEW f \in FrameType,
         NEW s \in Seq(FrameType), Alike(s, stack[t]),
         stack' = [stack EXCEPT ![t] = <<f>> \o s],
         t \notin ended, UNCHANGED <<registry, ended>>,
         Late(t) /\ ~f.handler => f.todo \in LateCalls
  PROVE  LifeInv'
  <1> DEFINE r == <<f>> \o s
             n == Len(stack[t])
  <1>1. /\ stack' = [stack EXCEPT ![t] = r]
        /\ r \in Seq(FrameType) /\ Len(r) = n + 1 /\ r[1] = f
        /\ \A i \in 2..n + 1 : r[i] = s[i - 1]
    BY Pushed DEF Alike
  <1>2. n \in Nat
    BY DEF StackInv
  <1> HIDE DEF r
  <1>3. stack'[t] = r /\ \A u \in Threads : u # t => stack'[u] = stack[u]
    BY <1>1 DEF StackInv
  <1>4. \A u \in Threads : Late(u)' <=> Late(u)
    BY DEF Late
  <1>5. ASSUME NEW u \in Threads, Late(u), NEW i \in 1..Len(stack'[u]),
               ~stack'[u][i].handler
        PROVE  stack'[u][i].todo \in LateCalls
    <2>1. CASE u = t /\ i = 1
      BY <1>1, <1>3, <1>5, <2>1
    <2>2. CASE u = t /\ i # 1
      <3>1. i \in 2..n + 1 /\ i - 1 \in 1..n /\ stack'[t][i] = s[i - 1]
        BY <1>1, <1>2, <1>3, <1>5, <2>2
      <3> QED
        BY <1>5, <2>2, <3>1 DEF LifeInv, Alike
    <2>3. CASE u # t
      BY <1>3, <1>5, <2>3 DEF LifeInv
    <2> QED
      BY <2>1, <2>2, <2>3
  <1>6. \A u \in ended : stack'[u] = <<>>
    BY <1>1 DEF LifeInv, StackInv
  <1> QED
    BY <1>4, <1>5, <1>6 DEF LifeInv, LateCalls

\* The running call takes its next lock.
LEMMA AcquireStep ==
  ASSUME IInv, NEW t \in Threads, Acquire(t) PROVE IInv'
  <1> USE DEF IInv
  <1> DEFINE s == stack[t]
             l == Lock(t)
             f == [s[1] EXCEPT !.held = TRUE]
             r == [s EXCEPT ![1] = f]
  <1>1. /\ s \in Seq(FrameType) /\ s # <<>> /\ Len(s) \in Nat \ {0} /\ s[1] \in FrameType
        /\ Head(s) = s[1]
    BY DEF Acquire, Running, StackInv
  <1>2. /\ ~s[1].held /\ owner[l] = Free /\ owner' = [owner EXCEPT ![l] = t]
        /\ UNCHANGED <<signals, timeFailures, interrupted, registry, ended, victim>>
        /\ victim = Free /\ t \notin ended
        /\ l = First(s[1]) /\ l \in Locks
    BY <1>1 DEF Acquire, Top, Lock, First, Alive, lifeVars, FrameType
  <1>3. f \in FrameType /\ f.held /\ First(f) = l /\ f.todo = s[1].todo
        /\ f.handler = s[1].handler
    BY <1>1, <1>2 DEF FrameType, First
  <1>4. stack' = [stack EXCEPT ![t] = r]
    BY DEF Acquire
  <1>5. /\ r \in Seq(FrameType) /\ Len(r) = Len(s) /\ r[1] = f
        /\ \A i \in 2..Len(s) : r[i] = s[i]
    BY <1>1, <1>3, Changed
  <1> HIDE DEF f, r, l
  <1>6. StackInv' /\ stack'[t] = r /\ \A u \in Threads : u # t => stack'[u] = stack[u]
    BY <1>4, <1>5 DEF StackInv
  <1>7. \A u \in Threads, i \in Nat :
           u # t => (Held(u, i)' <=> Held(u, i)) /\ stack'[u][i] = stack[u][i]
    BY <1>6 DEF Held
  <1>8. \A i \in Nat : i # 1 => /\ Held(t, i)' <=> Held(t, i)
                                /\ Held(t, i) => stack'[t][i] = stack[t][i]
    BY <1>1, <1>5, <1>6 DEF Held
  <1>9. Held(t, 1)' /\ stack'[t][1] = f /\ ~Held(t, 1)
    BY <1>1, <1>2, <1>3, <1>5, <1>6 DEF Held
  <1>10. TypeOK'
    <2>1. owner' \in [Locks -> Threads \cup {Free}]
      BY <1>2 DEF TypeOK
    <2> QED
      BY <1>2, <1>6, <2>1, StackType DEF TypeOK, StackInv
  <1>11. \A u \in Threads, i \in Nat : Held(u, i) => First(stack[u][i]) # l
    BY <1>2, NamesAssumption DEF LockInv, Threads
  <1>12. LockInv'
    <2>1. ASSUME NEW u \in Threads, NEW i \in Nat, Held(u, i)'
          PROVE  owner'[First(stack'[u][i])] = u
      <3>1. CASE u = t /\ i = 1
        BY <1>2, <1>3, <1>9, <3>1 DEF TypeOK
      <3>2. CASE ~(u = t /\ i = 1)
        <4>1. Held(u, i) /\ stack'[u][i] = stack[u][i]
          BY <1>7, <1>8, <2>1, <3>2
        <4> QED
          BY <1>2, <1>11, <4>1 DEF LockInv, TypeOK
      <3> QED
        BY <3>1, <3>2
    <2>2. ASSUME NEW u \in Threads, NEW k \in Locks, owner'[k] = u
          PROVE  \E i \in Nat : Held(u, i)' /\ First(stack'[u][i]) = k
      <3>1. CASE k = l
        <4>1. u = t
          BY <1>2, <2>2, <3>1 DEF TypeOK
        <4> QED
          BY <1>3, <1>9, <3>1, <4>1
      <3>2. CASE k # l
        <4>1. PICK i \in Nat : Held(u, i) /\ First(stack[u][i]) = k
          BY <1>2, <2>2, <3>2 DEF LockInv, TypeOK
        <4>2. Held(u, i)' /\ stack'[u][i] = stack[u][i]
          BY <1>7, <1>8, <1>9, <4>1
        <4> QED
          BY <4>1, <4>2
      <3> QED
        BY <3>1, <3>2
    <2>3. ASSUME NEW u \in Threads, NEW i \in Nat, NEW j \in Nat, Held(u, i)', Held(u, j)',
                 First(stack'[u][i]) = First(stack'[u][j])
          PROVE  i = j
      <3>1. CASE ~(u = t /\ i = 1) /\ ~(u = t /\ j = 1)
        BY <1>7, <1>8, <2>3, <3>1 DEF LockInv
      <3>2. CASE u = t /\ i = 1
        BY <1>3, <1>8, <1>9, <1>11, <2>3, <3>2
      <3>3. CASE u = t /\ j = 1
        BY <1>3, <1>8, <1>9, <1>11, <2>3, <3>3
      <3> QED
        BY <3>1, <3>2, <3>3
    <2> QED
      BY <2>1, <2>2, <2>3 DEF LockInv, First
  <1>13. WaitInv'
    <2>1. ASSUME NEW u \in Threads, NEW i \in 2..Len(stack'[u]), stack'[u][i].held
          PROVE  \/ u \in interrupted
                 \/ i = 2 /\ stack'[u][1].todo = <<Heap>> /\ First(stack'[u][2]) \in Bins
      <3>1. CASE u = t
        <4>1. i \in 2..Len(s) /\ stack'[t][i] = s[i]
          BY <1>5, <1>6, <2>1, <3>1
        <4>2. stack'[t][1].todo = s[1].todo
          BY <1>3, <1>9
        <4>3. \/ t \in interrupted
              \/ i = 2 /\ s[1].todo = <<Heap>> /\ First(s[2]) \in Bins
          BY <2>1, <3>1, <4>1 DEF WaitInv
        <4> QED
          BY <3>1, <4>1, <4>2, <4>3
      <3>2. CASE u # t
        BY <1>6, <2>1, <3>2 DEF WaitInv
      <3> QED
        BY <3>1, <3>2
    <2> QED
      BY <1>2, <2>1 DEF WaitInv, First
  <1>14. LifeInv'
    <2>1. \A u \in Threads : Late(u)' <=> Late(u)
      BY <1>2 DEF Late
    <2>2. \A u \in Threads : \A i \in 1..Len(stack'[u]) :
             /\ i \in 1..Len(stack[u])
             /\ stack'[u][i].todo = stack[u][i].todo
             /\ stack'[u][i].handler = stack[u][i].handler
      BY <1>1, <1>3, <1>5, <1>6
    <2>3. \A u \in ended : stack'[u] = <<>>
      BY <1>2, <1>4 DEF LifeInv, StackInv
    <2> QED
      BY <1>2, <2>1, <2>2, <2>3 DEF LifeInv
  <1> QED
    BY <1>2, <1>6, <1>10, <1>12, <1>13, <1>14 DEF RegistryOutlivesUse

\* The running call gives its lock back and goes on, or returns.
LEMMA ReleaseStep ==
  ASSUME IInv, NEW t \in Threads, Release(t) PROVE IInv'
  <1> USE DEF IInv
  <1> DEFINE s == stack[t]
             l == Lock(t)
             f == [s[1] EXCEPT !.todo = Tail(@), !.held = FALSE]
  <1>1. /\ s \in Seq(FrameType) /\ s # <<>> /\ Len(s) \in Nat \ {0} /\ s[1] \in FrameType
        /\ Head(s) = s[1]
    BY DEF Release, Holding, Running, StackInv
  <1>2. /\ s[1].held /\ owner' = [owner EXCEPT ![l] = Free]
        /\ UNCHANGED <<signals, timeFailures, interrupted, registry, ended, victim>>
        /\ victim = Free /\ t \notin ended
        /\ l = First(s[1]) /\ l \in Locks
    <2>1. /\ Alive(t) /\ Holding(t) /\ owner' = [owner EXCEPT ![l] = Free]
          /\ UNCHANGED <<signals, timeFailures, interrupted, registry, ended, victim>>
      BY DEF Release, lifeVars
    <2>2. victim = Free /\ t \notin ended /\ s[1].held
      BY <1>1, <2>1 DEF Holding, Alive, Top
    <2>3. l = First(s[1]) /\ l \in Locks
      BY <1>1, <2>1 DEF Holding, Top, Lock, First, FrameType
    <2> QED
      BY <2>1, <2>2, <2>3
  <1>3. Held(t, 1)
    BY <1>1, <1>2 DEF Held
  <1>4. s[1].todo \in Seq(Locks) /\ s[1].todo # <<>> /\ Len(s[1].todo) \in Nat \ {0}
    BY <1>1 DEF FrameType
  \* The new stack has n calls less; those below the first are as before.
  <1>5. \E n \in {0, 1}, r \in Seq(FrameType) :
           /\ stack' = [stack EXCEPT ![t] = r]
           /\ Len(r) + n = Len(s)
           /\ \A i \in 2..Len(s) : r[i - n] = s[i]
           /\ n = 0 => /\ ~r[1].held /\ r[1].handler = s[1].handler
                       /\ Len(s[1].todo) > 1
    <2>1. CASE Len(s[1].todo) > 1
      <3> DEFINE r == [s EXCEPT ![1] = f]
      <3>1. Tail(s[1].todo) \in Seq(Locks) \ {<<>>}
        BY <1>4, <2>1, TailLeft
      <3>2. f \in FrameType /\ ~f.held /\ f.handler = s[1].handler
        BY <1>1, <3>1 DEF FrameType
      <3>3. stack' = [stack EXCEPT ![t] = r]
        <4>1. stack' = [stack EXCEPT ![t][1].todo = Tail(@), ![t][1].held = FALSE]
          <5>1. Top(t) = s[1]
            BY <1>1 DEF Top
          <5>2. Len(s[1].todo) # 1
            <6>1. \A k \in Nat : k > 1 => k # 1
              OBVIOUS
            <6> QED
              BY <1>4, <2>1, <6>1, Zenon
          <5> QED
            BY <5>1, <5>2, Zenon DEF Release
        <4> QED
          BY <1>1, <4>1 DEF StackInv, FrameType
      <3> HIDE DEF f
      <3>4. r \in Seq(FrameType) /\ Len(r) = Len(s) /\ r[1] = f
            /\ \A i \in 2..Len(s) : r[i] = s[i]
        BY <1>1, <3>2, Changed
      <3> HIDE DEF r, s
      <3>5. Len(r) + 0 = Len(s) /\ \A i \in 2..Len(s) : r[i - 0] = s[i]
        BY <1>1, <3>4
      <3> QED
        BY <2>1, <3>2, <3>3, <3>4, <3>5
    <2>2. CASE ~(Len(s[1].todo) > 1)
      <3> DEFINE r == Tail(s)
      <3>1. stack' = [stack EXCEPT ![t] = r]
        BY <1>1, <1>4, <2>2 DEF Release, Top
      <3>2. /\ r \in Seq(FrameType) /\ Len(s) = Len(r) + 1
            /\ \A i \in 2..Len(s) : r[i - 1] = s[i]
        BY <1>1, Popped
      <3> HIDE DEF r
      <3>3. Len(r) + 1 = Len(s) /\ 1 \in {0, 1} /\ 1 # 0
        BY <3>2
      <3> HIDE DEF f, l, s
      <3> QED
        BY <3>1, <3>2, <3>3, Zenon
    <2> QED
      BY <2>1, <2>2
  <1>6. PICK n \in {0, 1}, r \in Seq(FrameType) :
           /\ stack' = [stack EXCEPT ![t] = r]
           /\ Len(r) + n = Len(s)
           /\ \A i \in 2..Len(s) : r[i - n] = s[i]
           /\ n = 0 => /\ ~r[1].held /\ r[1].handler = s[1].handler
                       /\ Len(s[1].todo) > 1
    BY <1>5
  <1>7. n \in {0, 1} /\ Len(r) \in Nat
    BY <1>6
  <1> HIDE DEF f, l
  <1>8. StackInv' /\ stack'[t] = r /\ \A u \in Threads : u # t => stack'[u] = stack[u]
    BY <1>6 DEF StackInv
  <1>9. \A u \in Threads, i \in Nat :
           u # t => (Held(u, i)' <=> Held(u, i)) /\ stack'[u][i] = stack[u][i]
    BY <1>8 DEF Held
  <1>10. \A i \in 1..Len(r) :
            \/ n = 0 /\ i = 1 /\ ~stack'[t][1].held
            \/ i + n \in 2..Len(s) /\ stack'[t][i] = stack[t][i + n]
    BY <1>6, <1>7, <1>8
  <1>11. \A i \in Nat : Held(t, i)' => /\ i + n \in Nat /\ i + n # 1 /\ Held(t, i + n)
                                       /\ stack'[t][i] = stack[t][i + n]
    BY <1>7, <1>8, <1>10 DEF Held
  <1>12. \A i \in Nat : i # 1 /\ Held(t, i) => /\ i - n \in Nat /\ Held(t, i - n)'
                                               /\ stack'[t][i - n] = stack[t][i]
    <2> SUFFICES ASSUME NEW i \in Nat, i # 1, Held(t, i)
                 PROVE  /\ i - n \in Nat /\ Held(t, i - n)'
                        /\ stack'[t][i - n] = stack[t][i]
      OBVIOUS
    <2>1. i \in 2..Len(s) /\ s[i].held
      BY <1>1 DEF Held
    <2>2. i - n \in 1..Len(r) /\ r[i - n] = s[i]
      BY <1>6, <1>7, <2>1
    <2> DEFINE j == i - n
    <2>3. j \in 1..Len(r) /\ r[j] = s[i] /\ j \in Nat
      BY <2>2
    <2> HIDE DEF j
    <2>4. j \in Nat /\ Held(t, j)' /\ stack'[t][j] = stack[t][i]
      BY <1>8, <2>1, <2>3 DEF Held
    <2> QED
      BY <2>4 DEF j
  <1>13. TypeOK'
    <2>1. owner' \in [Locks -> Threads \cup {Free}]
      BY <1>2 DEF TypeOK
    <2> QED
      BY <1>2, <1>8, <2>1, StackType DEF TypeOK, StackInv
  <1>14. LockInv'
    <2>1. ASSUME NEW u \in Threads, NEW i \in Nat, Held(u, i)'
          PROVE  owner'[First(stack'[u][i])] = u
      <3>1. CASE u = t
        <4>1. /\ i + n \in Nat /\ Held(t, i + n) /\ stack'[t][i] = stack[t][i + n]
              /\ i + n # 1
          BY <1>11, <2>1, <3>1
        <4>2. First(stack[t][i + n]) # l
          BY <1>2, <1>3, <4>1 DEF LockInv
        <4> QED
          BY <1>2, <3>1, <4>1, <4>2 DEF LockInv, TypeOK
      <3>2. CASE u # t
        <4>1. Held(u, i) /\ stack'[u][i] = stack[u][i]
          BY <1>9, <2>1, <3>2
        <4>2. owner[l] = t
          BY <1>2, <1>3 DEF LockInv
        <4>3. owner[First(stack[u][i])] = u
          BY <4>1 DEF LockInv
        <4> QED
          BY <1>2, <3>2, <4>1, <4>2, <4>3 DEF TypeOK
      <3> QED
        BY <3>1, <3>2
    <2>2. ASSUME NEW u \in Threads, NEW k \in Locks, owner'[k] = u
          PROVE  \E i \in Nat : Held(u, i)' /\ First(stack'[u][i]) = k
      <3>1. k # l /\ owner[k] = u
        BY <1>2, <2>2, NamesAssumption DEF TypeOK, Threads
      <3>2. PICK i \in Nat : Held(u, i) /\ First(stack[u][i]) = k
        BY <3>1 DEF LockInv
      <3>3. CASE u = t
        <4>1. i # 1
          BY <1>2, <3>1, <3>2, <3>3
        <4>2. /\ i - n \in Nat /\ Held(t, i - n)' /\ stack'[t][i - n] = stack[t][i]
          BY <1>12, <3>2, <3>3, <4>1
        <4> DEFINE j == i - n
        <4>3. j \in Nat /\ Held(t, j)' /\ First(stack'[t][j]) = k
          BY <3>2, <3>3, <4>2
        <4> HIDE DEF j
        <4> QED
          BY <3>3, <4>3
      <3>4. CASE u # t
        BY <1>9, <3>2, <3>4
      <3> QED
        BY <3>3, <3>4
    <2>3. ASSUME NEW u \in Threads, NEW i \in Nat, NEW j \in Nat, Held(u, i)', Held(u, j)',
                 First(stack'[u][i]) = First(stack'[u][j])
          PROVE  i = j
      <3>1. CASE u = t
        <4>1. i + n = j + n
          BY <1>11, <2>3, <3>1 DEF LockInv
        <4> QED
          BY <1>7, <4>1
      <3>2. CASE u # t
        BY <1>9, <2>3, <3>2 DEF LockInv
      <3> QED
        BY <3>1, <3>2
    <2> QED
      BY <2>1, <2>2, <2>3 DEF LockInv, First
  <1>15. WaitInv'
    <2> SUFFICES ASSUME NEW u \in Threads, NEW i \in 2..Len(stack'[u]), stack'[u][i].held
                 PROVE  \/ u \in interrupted
                        \/ /\ i = 2 /\ stack'[u][1].todo = <<Heap>>
                           /\ First(stack'[u][2]) \in Bins
      BY <1>2 DEF WaitInv, First
    <2>1. CASE u = t
      <3>1. i + n \in 2..Len(stack[t]) /\ stack'[t][i] = stack[t][i + n]
        BY <1>8, <1>10, <2>1
      <3>2. CASE n = 1
        <4>1. i + n # 2
          BY <3>2
        <4> QED
          BY <2>1, <3>1, <4>1 DEF WaitInv
      <3>3. CASE n = 0
        <4>1. s[1].todo # <<Heap>>
          <5>1. Len(s[1].todo) > 1
            BY <1>6, <3>3
          <5>2. Len(<<Heap>>) = 1
            OBVIOUS
          <5>3. \A k \in Nat : k > 1 => k # 1
            OBVIOUS
          <5> QED
            BY <1>4, <5>1, <5>2, <5>3, Zenon
        <4> QED
          BY <2>1, <3>1, <4>1 DEF WaitInv
      <3> QED
        BY <1>7, <3>2, <3>3
    <2>2. CASE u # t
      BY <1>8, <2>2 DEF WaitInv
    <2> QED
      BY <2>1, <2>2
  <1>16. LifeInv'
    <2>1. \A u \in Threads : Late(u)' <=> Late(u)
      BY <1>2 DEF Late
    <2>2. \A u \in ended : stack'[u] = <<>>
      BY <1>2, <1>6 DEF LifeInv, StackInv
    <2>3. ASSUME NEW u \in Threads, Late(u), NEW i \in 1..Len(stack'[u]),
                 ~stack'[u][i].handler
          PROVE  stack'[u][i].todo \in LateCalls
      <3>1. CASE u = t
        <4>1. CASE n = 0 /\ i = 1
          <5>1. ~s[1].handler /\ Len(s[1].todo) > 1 /\ 1 \in 1..Len(s)
            BY <1>1, <1>6, <1>8, <2>3, <3>1, <4>1
          <5>2. s[1].todo \in LateCalls
            BY <2>3, <3>1, <5>1 DEF LifeInv
          <5>3. Len(s[1].todo) = 1
            BY <5>2 DEF LateCalls
          <5> QED
            BY <1>4, <5>1, <5>3
        <4>2. CASE ~(n = 0 /\ i = 1)
          <5>1. i + n \in 1..Len(stack[t]) /\ stack'[t][i] = stack[t][i + n]
            BY <1>7, <1>8, <1>10, <2>3, <3>1, <4>2
          <5> QED
            BY <2>3, <3>1, <5>1 DEF LifeInv
        <4> QED
          BY <4>1, <4>2
      <3>2. CASE u # t
        BY <1>8, <2>3, <3>2 DEF LifeInv
      <3> QED
        BY <3>1, <3>2
    <2> QED
      BY <1>2, <2>1, <2>2, <2>3 DEF LifeInv, LateCalls
  <1> QED
    BY <1>2, <1>8, <1>13, <1>14, <1>15, <1>16 DEF RegistryOutlivesUse

\* A call of the program, of the handler, of _log within _log, or of the heap
\* under the lock of a bin.
LEMMA CallStep ==
  ASSUME IInv, NEW t \in Threads, Call(t) \/ EnterHeap(t) \/ Signal(t) \/ TimeFails(t)
  PROVE  IInv'
  <1> USE DEF IInv
  <1> DEFINE Goal ==
        \E f \in FrameType, s \in Seq(FrameType) :
           /\ ~f.held /\ Alike(s, stack[t])
           /\ stack' = [stack EXCEPT ![t] = <<f>> \o s] /\ t \notin ended
           /\ owner' = owner /\ interrupted \subseteq interrupted'
           /\ interrupted' \subseteq Threads
           /\ \A i \in 1..Len(stack[t]) : stack[t][i].held =>
                 \/ t \in interrupted'
                 \/ /\ f.todo = <<Heap>> /\ First(stack[t][1]) \in Bins
                    /\ stack[t][1].todo # <<Heap>>
           /\ signals' \in 0..MaxSignals /\ timeFailures' \in 0..MaxTimeFailures
           /\ Late(t) /\ ~f.handler => f.todo \in LateCalls
           /\ UNCHANGED <<registry, ended, victim>> /\ victim = Free
  <1>1. stack[t] \in Seq(FrameType) /\ Alike(stack[t], stack[t])
    BY DEF StackInv, Alike
  <1>2. ASSUME Call(t) PROVE Goal
    <2>1. PICK call \in Calls : MayCall(t, call) /\ Push(t, Frame(call))
      BY <1>2 DEF Call
    <2>2. call \in Seq(Locks) \ {<<>>}
      <3>1. \A l \in Locks : <<l>> \in Seq(Locks) \ {<<>>}
        OBVIOUS
      <3>2. call = Dump \/ \E l \in Locks : call = <<l>>
        BY DEF Calls, BinCalls, Locks
      <3> QED
        BY <3>1, <3>2, DumpType
    <2> DEFINE f == Frame(call)
    <2>3. f \in FrameType /\ ~f.held /\ f.todo = call
      BY <2>2, BoundsAssumption DEF Frame, FrameType
    <2>4. Len(stack[t]) = 0
      BY <1>2 DEF Call, Running
    <2>5. Late(t) => call \in LateCalls
      BY <2>1 DEF MayCall, Late, LateCalls
    <2>6. stack' = [stack EXCEPT ![t] = <<f>> \o stack[t]] /\ t \notin ended /\ victim = Free
      BY <2>1 DEF Push, MayCall, Alive
    <2>7. UNCHANGED <<owner, signals, timeFailures, interrupted, registry, ended, victim>>
      BY <1>2 DEF Call, lifeVars
    <2>8. interrupted' \subseteq Threads /\ signals' \in 0..MaxSignals
          /\ timeFailures' \in 0..MaxTimeFailures
      BY <2>7 DEF TypeOK
    <2>9. \A i \in 1..Len(stack[t]) : FALSE
      BY <2>4
    <2>10. Late(t) => f.todo \in LateCalls
      BY <2>3, <2>5
    <2> HIDE DEF f
    <2> QED
      BY <1>1, <2>3, <2>6, <2>7, <2>8, <2>9, <2>10
  <1>3. ASSUME EnterHeap(t) PROVE Goal
    <2> DEFINE f == Frame(<<Heap>>)
               g == [stack[t][1] EXCEPT !.inside = Top(t).inside + 1]
               s == [stack[t] EXCEPT ![1] = g]
    <2>1. f \in FrameType /\ ~f.held /\ f.todo = <<Heap>>
      BY BoundsAssumption DEF Frame, FrameType, Locks
    <2>2. /\ stack[t] # <<>> /\ Top(t) = stack[t][1] /\ stack[t][1] \in FrameType
          /\ Top(t).todo \in BinCalls /\ Top(t).inside < MaxInside
      BY <1>1, <1>3 DEF EnterHeap, Holding, Running, Top
    <2>3. /\ g \in FrameType /\ g.todo = stack[t][1].todo /\ g.held = stack[t][1].held
          /\ g.handler = stack[t][1].handler
      BY <2>2, BoundsAssumption DEF FrameType
    <2>4. stack' = [stack EXCEPT ![t] = <<f>> \o s] /\ t \notin ended /\ victim = Free
      BY <1>1, <1>3, <2>2 DEF EnterHeap, Alive
    <2>5. UNCHANGED <<owner, signals, timeFailures, interrupted, registry, ended, victim>>
      BY <1>3 DEF EnterHeap, lifeVars
    <2>6. First(stack[t][1]) \in Bins /\ stack[t][1].todo # <<Heap>>
      <3>1. PICK i \in Bins : stack[t][1].todo = <<i>>
        BY <2>2 DEF BinCalls
      <3>2. i # Heap
        BY NamesAssumption DEF Bins
      <3> QED
        BY <3>1, <3>2 DEF First
    <2> HIDE DEF f, g
    <2>7. s \in Seq(FrameType) /\ Alike(s, stack[t])
      BY <1>1, <2>2, <2>3, Changed DEF Alike
    <2>8. f.todo \in LateCalls
      BY <2>1 DEF LateCalls
    <2> HIDE DEF s
    <2> QED
      BY <2>1, <2>4, <2>5, <2>6, <2>7, <2>8 DEF TypeOK
  <1>4. ASSUME Signal(t) PROVE Goal
    <2> DEFINE f == [Frame(Dump) EXCEPT !.handler = TRUE]
    <2>1. f \in FrameType /\ ~f.held /\ f.handler
      <3>1. \A x \in FrameType : LET g == [x EXCEPT !.handler = TRUE]
                                 IN  g \in FrameType /\ g.held = x.held /\ g.handler
        BY DEF FrameType
      <3>2. Frame(Dump) \in FrameType /\ ~Frame(Dump).held
        <4>1. \A d \in Seq(Locks) \ {<<>>} : Frame(d) \in FrameType /\ ~Frame(d).held
          BY BoundsAssumption DEF Frame, FrameType
        <4> QED
          BY <4>1, DumpType, Zenon
      <3> QED
        BY <3>1, <3>2, Zenon
    <2>2. stack' = [stack EXCEPT ![t] = <<f>> \o stack[t]]
      BY <1>4 DEF Signal, Push
    <2>3. signals' \in 0..MaxSignals
      BY <1>4, BoundsAssumption DEF Signal, TypeOK
    <2>4. ASSUME NEW i \in 1..Len(stack[t]), stack[t][i].held PROVE t \in interrupted'
      BY <1>4, <2>4 DEF Signal, HeldBy
    <2> HIDE DEF f
    <2> QED
      BY <1>1, <1>4, <2>1, <2>2, <2>3, <2>4 DEF Signal, Alive, lifeVars, TypeOK
  <1>5. ASSUME TimeFails(t) PROVE Goal
    <2> DEFINE f == Frame(<<Log>>)
    <2>1. f \in FrameType /\ ~f.held /\ f.todo \in LateCalls
      BY BoundsAssumption DEF Frame, FrameType, Locks, LateCalls
    <2>2. stack' = [stack EXCEPT ![t] = <<f>> \o stack[t]]
      BY <1>5 DEF TimeFails, Push
    <2>3. timeFailures' \in 0..MaxTimeFailures
      BY <1>5, BoundsAssumption DEF TimeFails, TypeOK
    <2> HIDE DEF f
    <2> QED
      BY <1>1, <1>5, <2>1, <2>2, <2>3 DEF TimeFails, Alive, lifeVars, TypeOK
  <1>6. Goal
    BY <1>2, <1>3, <1>4, <1>5
  <1>7. PICK f \in FrameType, s \in Seq(FrameType) :
           /\ ~f.held /\ Alike(s, stack[t])
           /\ stack' = [stack EXCEPT ![t] = <<f>> \o s] /\ t \notin ended
           /\ owner' = owner /\ interrupted \subseteq interrupted'
           /\ interrupted' \subseteq Threads
           /\ \A i \in 1..Len(stack[t]) : stack[t][i].held =>
                 \/ t \in interrupted'
                 \/ /\ f.todo = <<Heap>> /\ First(stack[t][1]) \in Bins
                    /\ stack[t][1].todo # <<Heap>>
           /\ signals' \in 0..MaxSignals /\ timeFailures' \in 0..MaxTimeFailures
           /\ Late(t) /\ ~f.handler => f.todo \in LateCalls
           /\ UNCHANGED <<registry, ended, victim>> /\ victim = Free
    BY <1>6
  <1> HIDE DEF Goal
  <1>8. StackInv' /\ LockInv' /\ WaitInv'
    BY <1>7, PushStep
  <1>9. LifeInv'
    BY <1>7, PushLife
  <1>10. TypeOK'
    BY <1>7, <1>8, StackType DEF TypeOK, StackInv
  <1> QED
    BY <1>7, <1>8, <1>9, <1>10 DEF RegistryOutlivesUse

\* Threads end and the registry goes: no stack and no lock changes.
LEMMA EndStep ==
  ASSUME IInv, (\E t \in Threads : Return(t)) \/ Shutdown \/ Destroyed PROVE IInv'
  <1> USE DEF IInv
  <1>1. /\ UNCHANGED lockVars /\ victim = Free /\ victim' = Free
        /\ registry' \in {"up", "going", "gone"} /\ ended' \subseteq Joined
    BY DEF Return, Shutdown, Destroyed, Alive, TypeOK
  <1>2. LifeInv'
    <2>1. CASE \E t \in Threads : Return(t)
      BY <2>1 DEF Return, Running, LifeInv, Late, lockVars, Alive, TypeOK
    <2>2. CASE Shutdown
      <3>1. Len(stack[Main]) = 0 /\ stack' = stack /\ ended' = Joined /\ ended = Joined
        BY <2>2 DEF Shutdown, Running, lockVars
      <3> QED
        BY <2>2, <3>1 DEF LifeInv, Late
    <2>3. CASE Destroyed
      BY <2>3 DEF Destroyed, LifeInv, Late, lockVars
    <2> QED
      BY <2>1, <2>2, <2>3
  <1>3. TypeOK'
    BY <1>1 DEF TypeOK, lockVars
  <1>4. StackInv' /\ LockInv' /\ WaitInv'
    BY <1>1 DEF StackInv, LockInv, WaitInv, Held, First, lockVars
  <1> QED
    BY <1>1, <1>2, <1>3, <1>4 DEF RegistryOutlivesUse

\* Only a handler on a thread that outlives the registry meets its end.
LEMMA CrashStep ==
  ASSUME IInv, NEW t \in Threads, Crash(t) PROVE IInv'
  <1> USE DEF IInv
  <1>1. /\ UNCHANGED <<owner, stack, signals, timeFailures, interrupted, registry, ended>>
        /\ victim' = t
    BY DEF Crash, lockVars
  <1>2. TypeOK' /\ StackInv' /\ LockInv' /\ WaitInv' /\ LifeInv'
    <2>1. TypeOK'
      BY <1>1 DEF TypeOK
    <2>2. StackInv' /\ LockInv'
      BY <1>1 DEF StackInv, LockInv, Held, First
    <2>3. WaitInv' /\ LifeInv'
      BY <1>1 DEF WaitInv, LifeInv, First, Late, LateCalls
    <2> QED
      BY <2>1, <2>2, <2>3
  <1>3. t \notin Joined /\ Late(t)
    BY DEF Crash, Alive, LifeInv, Late, Threads
  <1>4. stack[t] \in Seq(FrameType) /\ stack[t] # <<>> /\ Head(stack[t]) = stack[t][1]
        /\ 1 \in 1..Len(stack[t])
    BY DEF Crash, Running, StackInv
  <1>5. Head(stack[t][1].todo) \in Bins
    BY <1>4 DEF Crash, Lock, Top
  <1>6. stack[t][1].todo \notin LateCalls
    BY <1>5, NamesAssumption DEF Bins, LateCalls
  <1>7. stack[t][1].handler
    BY <1>3, <1>4, <1>6 DEF LifeInv
  <1> QED
    BY <1>1, <1>2, <1>3, <1>4, <1>7 DEF RegistryOutlivesUse, Handling, LifeInv, LateCalls

LEMMA NextInv == IInv /\ [Next]_vars => IInv'
  <1> SUFFICES ASSUME IInv, [Next]_vars PROVE IInv'
    OBVIOUS
  <1>1. CASE UNCHANGED vars
    <2> USE <1>1 DEF vars, lockVars, lifeVars, IInv
    <2>1. TypeOK'
      BY DEF TypeOK
    <2>2. StackInv' /\ LockInv'
      BY DEF StackInv, LockInv, Held, First
    <2>3. WaitInv' /\ LifeInv'
      BY DEF WaitInv, LifeInv, First, Late, LateCalls
    <2>4. RegistryOutlivesUse'
      BY DEF RegistryOutlivesUse, Handling
    <2> QED
      BY <2>1, <2>2, <2>3, <2>4
  <1>2. CASE Next
    BY <1>2, AcquireStep, ReleaseStep, CallStep, EndStep, CrashStep DEF Next, Work
  <1> QED
    BY <1>1, <1>2

LEMMA InductiveInvariant == Spec => []IInv
  BY InitInv, NextInv, PTL DEF Spec

-----------------------------------------------------------------------------
(* The variables keep their types: every call on a stack still has a lock  *)
(* to take or to give back.                                                *)
THEOREM TypeCorrect == Spec => []TypeOK
  BY InductiveInvariant, PTL DEF IInv

(* The owner of every lock, libc's included, is the one call that is       *)
(* between taking it and giving it back, for any number of threads, bins,  *)
(* signals and handlers.                                                   *)
THEOREM OwnersCorrect == Spec => []OwnersHold
  <1>1. IInv => OwnersHold
    <2> SUFFICES ASSUME IInv PROVE OwnersHold
      OBVIOUS
    <2>1. \A t \in Threads : Len(stack[t]) \in Nat
      BY DEF IInv, StackInv
    <2>2. ASSUME NEW t \in Threads, NEW l \in Locks
          PROVE  owner[l] = t <=> l \in HeldBy(t)
      <3>1. l \in HeldBy(t) <=> \E i \in Nat : Held(t, i) /\ First(stack[t][i]) = l
        BY <2>1 DEF HeldBy, Held, First
      <3> QED
        BY <3>1 DEF IInv, LockInv
    <2>3. ASSUME NEW t \in Threads, NEW i \in 1..Len(stack[t]), NEW j \in 1..Len(stack[t]),
                 stack[t][i].held, stack[t][j].held,
                 Head(stack[t][i].todo) = Head(stack[t][j].todo)
          PROVE  i = j
      BY <2>1, <2>3 DEF IInv, LockInv, Held, First
    <2> QED
      BY <2>2, <2>3 DEF OwnersHold
  <1> QED
    BY <1>1, InductiveInvariant, PTL

(* A thread holds one lock and waits for another only where it is a bin's  *)
(* and then the heap's, where a SIGUSR1 came while it held a lock, or      *)
(* where time() failed in _log.                                            *)
THEOREM WaitExplained == Spec => []HoldAndWaitExplained
  <1>1. IInv => HoldAndWaitExplained
    <2> SUFFICES ASSUME IInv, NEW t \in Threads, HeldBy(t) # {}, ~Holding(t),
                        t \notin interrupted
                 PROVE  Lock(t) = Heap /\ HeldBy(t) \subseteq Bins
      BY DEF HoldAndWaitExplained
    <2>1. stack[t] \in Seq(FrameType) /\ Len(stack[t]) \in Nat
      BY DEF IInv, StackInv
    <2>2. PICK k \in 1..Len(stack[t]) : stack[t][k].held
      BY DEF HeldBy
    <2>3. stack[t] # <<>> /\ Head(stack[t]) = stack[t][1] /\ ~stack[t][1].held
      BY <2>1, <2>2 DEF Holding, Running, Top
    <2>4. \A i \in 1..Len(stack[t]) : stack[t][i].held =>
             i = 2 /\ stack[t][1].todo = <<Heap>> /\ First(stack[t][2]) \in Bins
      <3>1. ASSUME NEW i \in 1..Len(stack[t]), stack[t][i].held
            PROVE  i \in 2..Len(stack[t])
        BY <2>1, <2>3, <3>1
      <3> QED
        BY <3>1 DEF IInv, WaitInv
    <2>5. Lock(t) = Heap
      BY <2>2, <2>3, <2>4 DEF Lock, Top
    <2>6. HeldBy(t) \subseteq Bins
      BY <2>4 DEF HeldBy, First
    <2> QED
      BY <2>5, <2>6
  <1> QED
    BY <1>1, InductiveInvariant, PTL

(* No sampler and no call of main finds the registry gone: only the dump   *)
(* of a SIGUSR1 on main or on the keypad's thread does.                    *)
THEOREM RegistryLastUse == Spec => []RegistryOutlivesUse
  BY InductiveInvariant, PTL DEF IInv
=============================================================================
