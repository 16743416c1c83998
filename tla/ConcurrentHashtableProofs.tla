---------------------- MODULE ConcurrentHashtableProofs -----------------------
(***************************************************************************)
(* Proofs of the safety of the concurrent hash table, for any threads,     *)
(* hashes, bins and addresses, in three parts.  The first is about who     *)
(* owns a value block; it needs neither the locks nor the order of the     *)
(* chains: a block passes from the caller's hand into one item or to       *)
(* nobody in one step, and out of the item in the step that releases it.   *)
(* The second is about the chains, the counters and the traversal: a       *)
(* thread that holds a bin's lock is alone there, so its prev and item     *)
(* stay where its walk has left them while other threads change other      *)
(* bins.  The third is that the table implements HashMap.                  *)
(***************************************************************************)
EXTENDS ConcurrentHashtable, FiniteSetTheorems, FunctionTheorems, TLAPS

\* The types the argument needs; the counters' are not among them.
Types ==
    /\ table \in [Bins -> Nodes \cup {NULL}]
    /\ next \in [Nodes -> Nodes \cup {NULL}]
    /\ hash \in [Nodes -> Hashes \cup {NULL}]
    /\ value \in [Nodes -> Values \cup {NULL}]
    /\ pc \in [Threads -> PCs] /\ bin \in [Threads -> Bins]
    /\ prev \in [Threads -> Nodes \cup {NULL}]
    /\ item \in [Threads -> Nodes \cup {NULL}]
    /\ DOMAIN op = Threads
    /\ live \subseteq Values /\ lost \subseteq Values
    /\ destroyed \in BOOLEAN

Searching(t) == pc[t] \in {"lock", "walk"}

OpInv ==
    \A t \in Threads : Searching(t) =>
        /\ op[t].kind = "set" => op[t].hash \in Hashes /\ op[t].value \in Values
        /\ op[t].kind = "del" => op[t].hash \in Hashes

\* ht_destroy runs alone, and is the end.
EndInv == destroyed => /\ \A t \in Threads : pc[t] = "idle"
                       /\ \A n \in Nodes : hash[n] = NULL

Hand(t, v)  == Searching(t) /\ op[t].kind = "set" /\ op[t].value = v
Store(n, v) == hash[n] # NULL /\ value[n] = v

\* Every live block has one owner: a call, an item, or nobody.
OwnInv ==
    /\ \A v : v \in live <=> \/ v \in lost
                             \/ \E n \in Nodes : Store(n, v)
                             \/ \E t \in Threads : Hand(t, v)
    /\ \A v, m, n : m \in Nodes /\ n \in Nodes /\ Store(m, v) /\ Store(n, v) => m = n
    /\ \A v, s, t : s \in Threads /\ t \in Threads /\ Hand(s, v) /\ Hand(t, v) => s = t
    /\ \A v, n, t : n \in Nodes /\ t \in Threads => ~(Store(n, v) /\ Hand(t, v))
    /\ \A v \in lost : /\ \A n \in Nodes : ~Store(n, v)
                       /\ \A t \in Threads : ~Hand(t, v)

IInv == Types /\ OpInv /\ EndInv /\ OwnInv

-----------------------------------------------------------------------------
LEMMA NullIsNoHash == NULL \notin Hashes
  BY TableAssumption, NullAssumption

LEMMA InitInv == Init => IInv
  <1> USE TableAssumption DEF Init
  <1>1. Init => Types
    <2>1. 0 \in Bins /\ "idle" \in PCs
      BY DEF Bins, PCs
    <2>2. Init => DOMAIN op = Threads /\ destroyed \in BOOLEAN
      OBVIOUS
    <2>3. Init => live \subseteq Values /\ lost \subseteq Values
      OBVIOUS
    <2> QED
      BY <2>1, <2>2, <2>3 DEF Types
  <1>2. Init => OpInv /\ EndInv
    BY DEF OpInv, Searching, EndInv
  <1>3. Init => OwnInv
    BY DEF OwnInv, Hand, Store, Searching
  <1> QED
    BY <1>1, <1>2, <1>3 DEF IInv

\* A step that moves no block.
LEMMA FrameStep ==
  ASSUME OwnInv, UNCHANGED <<hash, value, live, lost>>,
         \A t \in Threads : \A v : Hand(t, v)' <=> Hand(t, v)
  PROVE  OwnInv'
  <1>1. \A n, v : Store(n, v)' <=> Store(n, v)
    BY DEF Store
  <1> QED
    BY <1>1 DEF OwnInv

\* A call of any operation but ht_set brings no block.
LEMMA BeginStep ==
  ASSUME IInv, NEW t \in Threads, NEW o, NEW l \in PCs, NEW i \in Bins,
         Begin(t, o, l, i), live' = live, pc[t] = "idle", ~destroyed,
         o.kind # "set", o.kind = "del" => o.hash \in Hashes
  PROVE  IInv'
  <1> USE DEF IInv
  <1>1. /\ op' = [op EXCEPT ![t] = o] /\ bin' = [bin EXCEPT ![t] = i]
        /\ pc' = [pc EXCEPT ![t] = l]
        /\ UNCHANGED <<chains, prev, item, lost, destroyed>>
    BY DEF Begin, Goto
  <1>2. Types'
    BY <1>1 DEF Types, chains
  <1>3. OpInv'
    BY <1>1 DEF OpInv, Searching, Types
  <1>4. \A s \in Threads : \A u : Hand(s, u)' <=> Hand(s, u)
    BY <1>1 DEF Hand, Searching, Types
  <1>5. OwnInv'
    BY <1>1, <1>4, FrameStep DEF chains
  <1> QED
    BY <1>1, <1>2, <1>3, <1>5 DEF EndInv

\* ht_set brings the block of its caller.
LEMMA CallStep ==
  ASSUME IInv, NEW t \in Threads, Call(t) PROVE IInv'
  <1> USE TableAssumption DEF IInv
  <1>0. \A h \in Hashes : Bin(h) \in Bins
    BY DEF Bin, Bins
  <1>1. /\ ~destroyed /\ UNCHANGED <<destroyed, lost, chains, prev, item>>
        /\ pc[t] = "idle"
    BY DEF Call, CallSet, CallOther, CallForeach, Begin
  <1>2. EndInv'
    BY <1>1 DEF EndInv
  <1>3. CASE CallSet(t)
    <2>1. PICK h \in Hashes, v \in Values \ live :
             /\ op' = [op EXCEPT ![t] = [kind |-> "set", hash |-> h, value |-> v]]
             /\ bin' = [bin EXCEPT ![t] = Bin(h)]
             /\ pc' = [pc EXCEPT ![t] = "lock"]
             /\ live' = live \cup {v}
      BY <1>3 DEF CallSet, Begin, Goto
    <2>2. Types'
      BY <1>0, <1>1, <2>1 DEF Types, chains, PCs
    <2>3. OpInv'
      BY <1>1, <2>1 DEF OpInv, Searching, Types
    <2>4. \A n, u : Store(n, u)' <=> Store(n, u)
      BY <1>1 DEF Store, chains
    <2>5. \A s \in Threads : \A u : Hand(s, u)' <=> Hand(s, u) \/ (s = t /\ u = v)
      BY <1>1, <2>1 DEF Hand, Searching, Types
    <2>6. /\ v \notin lost /\ \A n \in Nodes : ~Store(n, v)
          /\ \A s \in Threads : ~Hand(s, v)
      BY DEF OwnInv
    <2>7. \A u : ~Hand(t, u)
      BY <1>1 DEF Hand, Searching
    <2>8. OwnInv'
      BY <1>1, <2>1, <2>4, <2>5, <2>6, <2>7 DEF OwnInv
    <2> QED
      BY <1>2, <2>2, <2>3, <2>8
  <1>4. CASE CallOther(t) \/ CallForeach(t)
    <2>1. live' = live
      BY <1>4 DEF CallOther, CallForeach
    <2>2. 0 \in Bins /\ {"lock", "size"} \subseteq PCs
      BY DEF Bins, PCs
    <2>3. ASSUME NEW h \in Hashes, NEW k \in {"get", "del"},
                 Begin(t, [kind |-> k, hash |-> h], "lock", Bin(h))
          PROVE  IInv'
      BY <1>0, <1>1, <2>1, <2>2, <2>3, BeginStep
    <2>4. ASSUME NEW i \in Bins, Begin(t, [kind |-> "bin_size", bin |-> i], "lock", i)
          PROVE  IInv'
      BY <1>1, <2>1, <2>2, <2>4, BeginStep
    <2>5. ASSUME Begin(t, [kind |-> "size"], "size", 0)
          PROVE  IInv'
      BY <1>1, <2>1, <2>2, <2>5, BeginStep
    <2>6. ASSUME Begin(t, [kind |-> "foreach"], "lock", 0)
          PROVE  IInv'
      BY <1>1, <2>1, <2>2, <2>6, BeginStep
    <2> QED
      BY <1>4, <2>3, <2>4, <2>5, <2>6 DEF CallOther, CallForeach
  <1> QED
    BY <1>3, <1>4 DEF Call

\* Steps that neither move a block nor change an item.
LEMMA PassiveStep ==
  ASSUME IInv, NEW t \in Threads,
         \/ ReadSize(t) \/ Lock(t) \/ Walk(t) \/ Visit(t) \/ Count(t) \/ GetAnswers(t)
         \/ Uncount(t) \/ DelMisses(t) \/ ReadBinSize(t) \/ BinVisited(t)
         \/ Unlock(t) \/ Return(t)
  PROVE  IInv'
  <1> USE TableAssumption, NullAssumption DEF IInv
  <1>1. /\ UNCHANGED <<chains, live, lost, destroyed>> /\ pc[t] # "idle"
        /\ \A s \in Threads : s # t => pc'[s] = pc[s]
    BY DEF ReadSize, Lock, Walk, Visit, Count, GetAnswers, Uncount, DelMisses, ReadBinSize,
       BinVisited, Unlock, Return, Finish, Forget, Goto, Doing, chains, Types
  <1>2. /\ DOMAIN op' = Threads
        /\ \A s \in Threads : Searching(s)' => Searching(s) /\ op'[s] = op[s]
    BY DEF ReadSize, Lock, Walk, Visit, Count, GetAnswers, Uncount, DelMisses, ReadBinSize,
       BinVisited, Unlock, Return, Finish, Forget, Goto, Doing, Searching, Types
  <1>3. \A s \in Threads :
           Searching(s) /\ op[s].kind = "set" => Searching(s)' /\ op'[s] = op[s]
    BY DEF ReadSize, Lock, Walk, Visit, Count, GetAnswers, Uncount, DelMisses, ReadBinSize,
       BinVisited, Unlock, Return, Finish, Forget, Goto, Doing, Searching, Types
  <1>4. pc' \in [Threads -> PCs]
    BY DEF ReadSize, Lock, Walk, Visit, Count, GetAnswers, Uncount, DelMisses, ReadBinSize,
       BinVisited, Unlock, Return, Finish, Forget, Goto, Types, PCs
  <1>5. bin' \in [Threads -> Bins]
    BY DEF ReadSize, Lock, Walk, Visit, Count, GetAnswers, Uncount, DelMisses, ReadBinSize,
       BinVisited, Unlock, Return, Finish, Forget, Types, Bins
  <1>6. item' \in [Threads -> Nodes \cup {NULL}]
    BY DEF ReadSize, Lock, Walk, Visit, Count, GetAnswers, Uncount, DelMisses, ReadBinSize,
       BinVisited, Unlock, Return, Finish, Forget, Types, Missed
  <1>7. prev' \in [Threads -> Nodes \cup {NULL}]
    BY DEF ReadSize, Lock, Walk, Visit, Count, GetAnswers, Uncount, DelMisses, ReadBinSize,
       BinVisited, Unlock, Return, Finish, Forget, Types
  <1>8. Types'
    BY <1>1, <1>2, <1>4, <1>5, <1>6, <1>7 DEF Types, chains
  <1>9. OpInv'
    BY <1>2 DEF OpInv
  <1>10. EndInv'
    BY <1>1 DEF EndInv, chains
  <1>11. \A s \in Threads : \A v : Hand(s, v)' <=> Hand(s, v)
    BY <1>2, <1>3 DEF Hand
  <1>12. OwnInv'
    BY <1>1, <1>11, FrameStep DEF chains
  <1> QED
    BY <1>8, <1>9, <1>10, <1>12

\* The step of ht_set that ends its search takes the block from its hand.
LEMMA HandGone ==
  ASSUME IInv, NEW t \in Threads, NEW l, ~(l \in {"lock", "walk"}),
         pc' = [pc EXCEPT ![t] = l], op' = op
  PROVE  \A s \in Threads : \A v : Hand(s, v)' <=> Hand(s, v) /\ s # t
  BY DEF IInv, Types, Hand, Searching

LEMMA ReplaceStep ==
  ASSUME IInv, NEW t \in Threads, Replace(t) PROVE IInv'
  <1> USE NullAssumption, NullIsNoHash DEF IInv
  <1> DEFINE i == item[t]
  <1>1. /\ i \in Nodes /\ hash[i] # NULL
        /\ Hand(t, op[t].value) /\ op[t].value \in Values
        /\ pc[t] = "walk" /\ op[t].kind = "set"
    BY DEF Replace, Doing, Found, Types, OpInv, Searching, Hand
  <1>2. /\ live' = live \ {value[i]}
        /\ value' = [value EXCEPT ![i] = op[t].value]
        /\ pc' = [pc EXCEPT ![t] = "unlock"]
        /\ UNCHANGED <<table, next, hash, op, bin, prev, item, lost, destroyed>>
    BY DEF Replace, Finish, Goto
  <1>3. PICK v : v = op[t].value
    OBVIOUS
  <1>4. PICK w : w = value[i]
    OBVIOUS
  <1>5. Types'
    BY <1>1, <1>2 DEF Types, PCs
  <1>6. OpInv' /\ EndInv'
    BY <1>1, <1>2 DEF OpInv, EndInv, Searching, Types
  <1>7. \A s \in Threads : \A u : Hand(s, u)' <=> Hand(s, u) /\ s # t
    BY <1>2, HandGone
  <1>8. \A n \in Nodes : \A u : Store(n, u)' <=> IF n = i THEN u = v ELSE Store(n, u)
    BY <1>1, <1>2, <1>3 DEF Store, Types
  <1>9. Store(i, w) /\ w # v /\ Hand(t, v)
    BY <1>1, <1>3, <1>4 DEF Store, OwnInv
  <1>10. \A u : Hand(t, u) => u = v
    BY <1>3 DEF Hand
  <1>11. \A u : Store(i, u) => u = w
    BY <1>4 DEF Store
  <1> HIDE DEF i
  <1>12. OwnInv'
    BY <1>1, <1>2, <1>4, <1>7, <1>8, <1>9, <1>10, <1>11 DEF OwnInv
  <1> QED
    BY <1>5, <1>6, <1>12

LEMMA SetFailsStep ==
  ASSUME IInv, NEW t \in Threads, SetFails(t) PROVE IInv'
  <1> USE NullAssumption DEF IInv
  <1>1. PICK v : v = op[t].value
    OBVIOUS
  <1>2. Hand(t, v) /\ v \in Values /\ pc[t] = "walk"
    BY <1>1 DEF SetFails, Doing, OpInv, Searching, Hand
  <1>3. /\ lost' = lost \cup {v} /\ pc' = [pc EXCEPT ![t] = "unlock"]
        /\ UNCHANGED <<chains, op, bin, prev, item, live, destroyed>>
    BY <1>1 DEF SetFails, Finish, Goto
  <1>4. Types'
    BY <1>2, <1>3 DEF Types, PCs, chains
  <1>5. OpInv' /\ EndInv'
    BY <1>2, <1>3 DEF OpInv, EndInv, Searching, Types, chains
  <1>6. \A s \in Threads : \A u : Hand(s, u)' <=> Hand(s, u) /\ s # t
    BY <1>3, HandGone
  <1>7. \A n, u : Store(n, u)' <=> Store(n, u)
    BY <1>3 DEF Store, chains
  <1>8. \A u : Hand(t, u) => u = v
    BY <1>1 DEF Hand
  <1>9. OwnInv'
    BY <1>2, <1>3, <1>6, <1>7, <1>8 DEF OwnInv
  <1> QED
    BY <1>4, <1>5, <1>9

LEMMA LinkStep ==
  ASSUME IInv, NEW t \in Threads, NEW n \in Nodes, Link(t, n) PROVE IInv'
  <1> USE NullAssumption, NullIsNoHash DEF IInv
  <1>1. PICK v : v = op[t].value
    OBVIOUS
  <1>2. Hand(t, v) /\ v \in Values /\ op[t].hash \in Hashes /\ pc[t] = "walk"
    BY <1>1 DEF Link, Doing, OpInv, Searching, Hand
  <1>3. /\ hash[n] = NULL
        /\ hash' = [hash EXCEPT ![n] = op[t].hash] /\ value' = [value EXCEPT ![n] = v]
        /\ pc' = [pc EXCEPT ![t] = "count"]
        /\ UNCHANGED <<op, bin, prev, item, live, lost, destroyed>>
    BY <1>1 DEF Link, Goto
  <1>4. /\ next' \in [Nodes -> Nodes \cup {NULL}]
        /\ table' \in [Bins -> Nodes \cup {NULL}]
    BY DEF Link, Types
  <1>5. Types'
    BY <1>2, <1>3, <1>4 DEF Types, PCs
  <1>6. OpInv' /\ EndInv'
    BY <1>2, <1>3 DEF OpInv, EndInv, Searching, Types
  <1>7. \A s \in Threads : \A u : Hand(s, u)' <=> Hand(s, u) /\ s # t
    BY <1>3, HandGone
  <1>8. \A m \in Nodes : \A u : Store(m, u)' <=> IF m = n THEN u = v ELSE Store(m, u)
    BY <1>2, <1>3 DEF Store, Types
  <1>9. \A u : ~Store(n, u)
    BY <1>3 DEF Store
  <1>10. \A u : Hand(t, u) => u = v
    BY <1>1 DEF Hand
  <1>11. OwnInv'
    BY <1>2, <1>3, <1>7, <1>8, <1>9, <1>10 DEF OwnInv
  <1> QED
    BY <1>5, <1>6, <1>11

LEMMA UnlinkStep ==
  ASSUME IInv, NEW t \in Threads, Unlink(t) PROVE IInv'
  <1> USE NullAssumption, NullIsNoHash DEF IInv
  <1> DEFINE i == item[t]
  <1>1. /\ i \in Nodes /\ hash[i] # NULL /\ pc[t] = "walk" /\ op[t].kind = "del"
    BY DEF Unlink, Doing, Found, Types, OpInv, Searching
  <1>2. PICK w : w = value[i]
    OBVIOUS
  <1>3. /\ hash' = [hash EXCEPT ![i] = NULL] /\ value' = [value EXCEPT ![i] = NULL]
        /\ live' = live \ {w}
        /\ pc' = [pc EXCEPT ![t] = "uncount"]
        /\ UNCHANGED <<op, bin, prev, item, lost, destroyed>>
    BY <1>2 DEF Unlink, Goto
  <1>4. /\ next' \in [Nodes -> Nodes \cup {NULL}]
        /\ table' \in [Bins -> Nodes \cup {NULL}]
    BY <1>1 DEF Unlink, Types
  <1>5. Types'
    BY <1>1, <1>3, <1>4 DEF Types, PCs
  <1>6. OpInv' /\ EndInv'
    BY <1>1, <1>3 DEF OpInv, EndInv, Searching, Types
  <1>7. \A s \in Threads : \A u : Hand(s, u)' <=> Hand(s, u) /\ s # t
    BY <1>3, HandGone
  <1>8. \A u : ~Hand(t, u)
    BY <1>1 DEF Hand
  <1>9. \A m \in Nodes : \A u : Store(m, u)' <=> m # i /\ Store(m, u)
    BY <1>1, <1>3 DEF Store, Types
  <1>10. Store(i, w) /\ \A u : Store(i, u) => u = w
    BY <1>1, <1>2 DEF Store
  <1> HIDE DEF i
  <1>11. OwnInv'
    BY <1>1, <1>3, <1>7, <1>8, <1>9, <1>10 DEF OwnInv
  <1> QED
    BY <1>5, <1>6, <1>11

LEMMA DestroyStep ==
  ASSUME IInv, Destroy PROVE IInv'
  <1> USE DEF IInv
  <1>1. /\ \A t \in Threads : pc[t] = "idle"
        /\ \A v : v \in live' <=> v \in live /\ ~\E n \in Nodes : Store(n, v)
        /\ hash' = [n \in Nodes |-> NULL] /\ value' = [n \in Nodes |-> NULL]
        /\ next' = [n \in Nodes |-> NULL] /\ table' = [i \in Bins |-> NULL]
        /\ destroyed' = TRUE
        /\ UNCHANGED <<pc, op, bin, prev, item, lost>>
    BY DEF Destroy, Store
  <1>2. Types'
    BY <1>1 DEF Types
  <1>3. OpInv' /\ EndInv'
    BY <1>1 DEF OpInv, EndInv, Searching
  <1>4. \A n \in Nodes : \A v : ~Store(n, v)'
    BY <1>1 DEF Store
  <1>5. \A t \in Threads : \A v : ~Hand(t, v) /\ ~Hand(t, v)'
    BY <1>1 DEF Hand, Searching
  <1>6. OwnInv'
    BY <1>1, <1>4, <1>5 DEF OwnInv
  <1> QED
    BY <1>2, <1>3, <1>6

LEMMA NextInv == IInv /\ [Next]_vars => IInv'
  <1> SUFFICES ASSUME IInv, [Next]_vars PROVE IInv'
    OBVIOUS
  <1>1. CASE UNCHANGED vars \/ Gone
    BY <1>1 DEF vars, chains, Gone, IInv, Types, OpInv, EndInv, OwnInv, Hand, Store, Searching
  <1>2. CASE Destroy
    BY <1>2, DestroyStep
  <1>3. ASSUME NEW t \in Threads, Thread(t) PROVE IInv'
    BY <1>3, CallStep, PassiveStep, ReplaceStep, SetFailsStep, LinkStep, UnlinkStep
    DEF Thread
  <1> QED
    BY <1>1, <1>2, <1>3 DEF Next

LEMMA InductiveInvariant == Spec => []IInv
  BY InitInv, NextInv, PTL DEF Spec

-----------------------------------------------------------------------------
(* Every value block handed to ht_set is released once, by the replacing   *)
(* set, the delete or ht_destroy, or lost by a set without memory, for any *)
(* threads, hashes, bins and addresses.                                    *)
THEOREM ReleasesCorrect == Spec => []ReleasedOnce
  <1>1. IInv => ReleasedOnce
    <2> SUFFICES ASSUME IInv PROVE ReleasedOnce
      OBVIOUS
    <2> USE DEF IInv
    <2>1. \A v : v \in Stored <=> \E n \in Nodes : Store(n, v)
      BY DEF Stored, Allocated, Store
    <2>2. \A t \in Threads : \A v : v \in InHand(t) <=> Hand(t, v)
      BY DEF InHand, Hand, Searching
    <2>3. \A v : v \in UNION {InHand(t) : t \in Threads} <=> \E t \in Threads : Hand(t, v)
      BY <2>2
    <2>4. live = Stored \cup lost \cup UNION {InHand(t) : t \in Threads}
      BY <2>1, <2>3 DEF OwnInv
    <2>5. \A m, n \in Allocated : value[m] = value[n] => m = n
      BY DEF Allocated, OwnInv, Store
    <2>6. Stored \cap lost = {} /\ \A t \in Threads : InHand(t) \cap (Stored \cup lost) = {}
      BY <2>1, <2>2 DEF OwnInv
    <2>7. destroyed => live = lost
      BY DEF EndInv, OwnInv, Store, Hand, Searching
    <2> QED
      BY <2>4, <2>5, <2>6, <2>7 DEF ReleasedOnce
  <1> QED
    BY <1>1, InductiveInvariant, PTL

-----------------------------------------------------------------------------
(***************************************************************************)
(* The second part: locks, chains, counters, traversals.                   *)
(***************************************************************************)

\* t holds the lock of its bin.
Holding(t) == pc[t] \in {"walk", "count", "uncount", "unlock"}

\* n is an item of bin i.
Listed(n, i) == hash[n] # NULL /\ Bin(hash[n]) = i

\* The operations on one hash.
Keyed == {"set", "get", "del"}

MoreTypes ==
    /\ bin_size \in [Bins -> Nat] /\ size \in Nat
    /\ lock \in [Bins -> Threads \cup {NULL}]
    /\ DOMAIN res = Threads
    /\ gone \in [Threads -> Values \cup {NULL}]
    /\ seen \in [Threads -> SUBSET Hashes]
    /\ stable \in [Threads -> SUBSET Hashes]
    /\ ever \in [Threads -> SUBSET Hashes]

\* What the place of a thread says about its operation and its bin.
CallOK(t) ==
    /\ pc[t] = "idle" <=> op[t] = NULL
    /\ pc[t] \in {"unlock", "return"} <=> res[t] # NULL
    /\ pc[t] = "size" => op[t].kind = "size"
    /\ pc[t] \in {"lock", "walk"} => op[t].kind \in Keyed \cup {"bin_size", "foreach"}
    /\ pc[t] = "count" => op[t].kind = "set"
    /\ pc[t] = "uncount" => op[t].kind = "del"
    /\ pc[t] = "unlock" => op[t].kind \in Keyed \cup {"bin_size"}
    /\ pc[t] = "return" => op[t].kind \in {"size", "foreach"}
    /\ pc[t] # "idle" /\ op[t].kind \in Keyed =>
          op[t].hash \in Hashes /\ bin[t] = Bin(op[t].hash)
    /\ pc[t] # "idle" /\ op[t].kind = "bin_size" => bin[t] = op[t].bin

CallInv == \A t \in Threads : CallOK(t)

\* A thread past pthread_spin_lock owns the lock, so that no other is in its bin.
LockInv == \A t \in Threads : Holding(t) => lock[bin[t]] = t

\* Pointers lead from item to item of one bin, to each from one place only, no
\* hash is there twice, and every item is reached from the head of its bin.
ShapeInv ==
    /\ \A i \in Bins : table[i] # NULL => Listed(table[i], i)
    /\ \A n \in Nodes : next[n] # NULL =>
          hash[n] # NULL /\ Listed(next[n], Bin(hash[n]))
    /\ \A m, n \in Nodes : next[m] # NULL /\ next[m] = next[n] => m = n
    /\ \A i \in Bins, n \in Nodes : table[i] = next[n] => table[i] = NULL
    /\ \A m, n \in Nodes : hash[m] # NULL /\ hash[m] = hash[n] => m = n
    /\ \A n \in Nodes : hash[n] # NULL => Reaches(next, table[Bin(hash[n])], n)

\* The hashes a walk may still meet: the one it looks for, or, on a traversal,
\* those present all along and not called back for yet.
Sought(t) == IF op[t].kind = "foreach" THEN stable[t] \ seen[t] ELSE {op[t].hash}

\* item is behind prev, and what is sought in the bin is not behind the walker.
WalkOK(t) == pc[t] = "walk" /\ op[t].kind # "bin_size" =>
    /\ item[t] # NULL => Listed(item[t], bin[t])
    /\ op[t].kind # "foreach" =>
          /\ prev[t] = NULL => item[t] = table[bin[t]]
          /\ prev[t] # NULL => Listed(prev[t], bin[t]) /\ next[prev[t]] = item[t]
    /\ \A n \in Nodes : Listed(n, bin[t]) /\ hash[n] \in Sought(t) =>
          Reaches(next, item[t], n)

WalkInv == \A t \in Threads : WalkOK(t)

\* Between the change of a chain and the change of the total.
PendingOK(t) ==
    /\ pc[t] = "count" => \E n \in Nodes : hash[n] = op[t].hash /\ value[n] = op[t].value
    /\ pc[t] = "uncount" => gone[t] # NULL /\ \A n \in Nodes : hash[n] # op[t].hash

PendingInv == \A t \in Threads : PendingOK(t)

\* h is linked and not yet counted, or unlinked and still counted.
Adding(t, h)   == pc[t] = "count" /\ op[t].hash = h
Removing(t, h) == pc[t] = "uncount" /\ op[t].hash = h
Present(h)     == \E n \in Nodes : hash[n] = h

\* The hashes the total stands for.
Counted == {h \in Hashes : \/ \E t \in Threads : Removing(t, h)
                           \/ Present(h) /\ \A t \in Threads : ~Adding(t, h)}

ListOf(i) == {n \in Nodes : Listed(n, i)}

\* The total and each bin's counter are exact until ht_destroy.
CountInv == ~destroyed =>
    /\ IsFiniteSet(Counted) /\ size = Cardinality(Counted)
    /\ \A i \in Bins : IsFiniteSet(ListOf(i)) /\ bin_size[i] = Cardinality(ListOf(i))

\* A traversal has called back for the stable hashes of the bins behind it, and
\* for none that was never there.
VisitOK(t) == pc[t] # "idle" /\ op[t].kind = "foreach" =>
    /\ seen[t] \subseteq ever[t]
    /\ \A n \in Nodes : hash[n] # NULL => hash[n] \in ever[t]
    /\ \A h \in stable[t] : \E n \in Nodes : hash[n] = h
    /\ pc[t] = "return" => stable[t] \subseteq seen[t]
    /\ \A h \in stable[t] : Bin(h) < bin[t] => h \in seen[t]

VisitInv == \A t \in Threads : VisitOK(t)

ProtocolInv == /\ MoreTypes /\ CallInv /\ LockInv /\ ShapeInv
        /\ WalkInv /\ PendingInv /\ CountInv /\ VisitInv

-----------------------------------------------------------------------------
LEMMA ReachNone ==
  ASSUME NEW nx, NEW n PROVE ~Reaches(nx, NULL, n)
  <1>1. {} \in SUBSET Nodes /\ n \notin {}
    OBVIOUS
  <1> QED
    BY <1>1 DEF Reaches

LEMMA ReachSelf ==
  ASSUME NEW nx, NEW n \in Nodes PROVE Reaches(nx, n, n)
  BY NullAssumption DEF Reaches

\* What is behind x and not x is behind the next one.
LEMMA ReachStep ==
  ASSUME NEW nx \in [Nodes -> Nodes \cup {NULL}], NEW x \in Nodes, NEW n \in Nodes,
         Reaches(nx, x, n), n # x
  PROVE  Reaches(nx, nx[x], n)
  <1> SUFFICES ASSUME NEW S \in SUBSET Nodes, nx[x] # NULL => nx[x] \in S,
                      \A m \in S : nx[m] # NULL => nx[m] \in S
               PROVE  n \in S
    BY DEF Reaches
  <1>1. S \cup {x} \in SUBSET Nodes
    OBVIOUS
  <1> QED
    BY <1>1 DEF Reaches

\* Pointers of other items do not matter.
LEMMA ReachFrame ==
  ASSUME NEW nx \in [Nodes -> Nodes \cup {NULL}], NEW ny, NEW B \in SUBSET Nodes,
         \A m \in B : ny[m] = nx[m],
         \A m \in Nodes \ B : nx[m] \notin B,
         NEW x, x # NULL => x \in B, NEW n \in B, Reaches(nx, x, n)
  PROVE  Reaches(ny, x, n)
  <1> USE NullAssumption
  <1> SUFFICES ASSUME NEW S \in SUBSET Nodes, x # NULL => x \in S,
                      \A m \in S : ny[m] # NULL => ny[m] \in S
               PROVE  n \in S
    BY DEF Reaches
  <1> DEFINE T == S \cup (Nodes \ B)
  <1>1. T \in SUBSET Nodes /\ (x # NULL => x \in T)
    OBVIOUS
  <1>2. \A m \in T : nx[m] # NULL => nx[m] \in T
    OBVIOUS
  <1> HIDE DEF T
  <1>3. n \in T
    BY <1>1, <1>2 DEF Reaches
  <1> QED
    BY <1>3 DEF T

\* An item appended to the last one is reached, and nothing is lost.
LEMMA ReachAppend ==
  ASSUME NEW nx \in [Nodes -> Nodes \cup {NULL}], NEW p \in Nodes, NEW q \in Nodes,
         nx[p] = NULL, NEW x,
         NEW ny, ny = [nx EXCEPT ![p] = q]
  PROVE  /\ \A n \in Nodes : Reaches(nx, x, n) => Reaches(ny, x, n)
         /\ Reaches(nx, x, p) => Reaches(ny, x, q)
  <1> USE NullAssumption
  <1>1. \A S \in SUBSET Nodes :
           (\A m \in S : ny[m] # NULL => ny[m] \in S) => (\A m \in S : nx[m] # NULL => nx[m] \in S)
    OBVIOUS
  <1>2. \A S \in SUBSET Nodes :
           (\A m \in S : ny[m] # NULL => ny[m] \in S) /\ p \in S => q \in S
    OBVIOUS
  <1> QED
    BY <1>1, <1>2 DEF Reaches

\* The head of a chain is cut off.
LEMMA ReachCutHead ==
  ASSUME NEW nx \in [Nodes -> Nodes \cup {NULL}], NEW x \in Nodes,
         NEW ny, ny = [nx EXCEPT ![x] = NULL],
         NEW n \in Nodes, Reaches(nx, x, n), n # x
  PROVE  Reaches(ny, nx[x], n)
  <1> SUFFICES ASSUME NEW S \in SUBSET Nodes, nx[x] # NULL => nx[x] \in S,
                      \A m \in S : ny[m] # NULL => ny[m] \in S
               PROVE  n \in S
    BY DEF Reaches
  <1>1. S \cup {x} \in SUBSET Nodes
    OBVIOUS
  <1>2. \A m \in S \cup {x} : nx[m] # NULL => nx[m] \in S \cup {x}
    OBVIOUS
  <1>3. n \in S \cup {x}
    BY <1>1, <1>2 DEF Reaches
  <1> QED
    BY <1>3

\* An item behind p is cut out.
LEMMA ReachCut ==
  ASSUME NEW nx \in [Nodes -> Nodes \cup {NULL}], NEW x \in Nodes, NEW p \in Nodes, p # x,
         nx[p] = x, \A m \in Nodes : nx[m] = x => m = p,
         NEW h, h # x, NEW n \in Nodes, Reaches(nx, h, n), n # x
  PROVE  Reaches([[nx EXCEPT ![x] = NULL] EXCEPT ![p] = nx[x]], h, n)
  <1> USE NullAssumption
  <1> DEFINE ny == [[nx EXCEPT ![x] = NULL] EXCEPT ![p] = nx[x]]
  <1> SUFFICES ASSUME NEW S \in SUBSET Nodes, h # NULL => h \in S,
                      \A m \in S : ny[m] # NULL => ny[m] \in S
               PROVE  n \in S
    BY DEF Reaches
  <1>0. /\ \A m \in Nodes : m # x /\ m # p => ny[m] = nx[m]
        /\ ny[p] = nx[x]
    OBVIOUS
  <1>1. CASE p \in S
    <2>1. \A m \in S \cup {x} : nx[m] # NULL => nx[m] \in S \cup {x}
      BY <1>0, <1>1
    <2>2. S \cup {x} \in SUBSET Nodes
      OBVIOUS
    <2>3. n \in S \cup {x}
      BY <2>1, <2>2 DEF Reaches
    <2> QED
      BY <2>3
  <1>2. CASE p \notin S
    <2>1. \A m \in S \ {x} : nx[m] # NULL => nx[m] \in S \ {x}
      BY <1>0, <1>2
    <2>2. S \ {x} \in SUBSET Nodes
      OBVIOUS
    <2>3. n \in S \ {x}
      BY <2>1, <2>2 DEF Reaches
    <2> QED
      BY <2>3
  <1> QED
    BY <1>1, <1>2

\* No item on a chain points to itself.
LEMMA NoSelfLoop ==
  ASSUME NEW nx \in [Nodes -> Nodes \cup {NULL}], NEW h, NEW x \in Nodes, h # x,
         \A m \in Nodes : nx[m] = nx[x] => m = x, Reaches(nx, h, x), h \in Nodes \cup {NULL}
  PROVE  nx[x] # x
  <1> SUFFICES ASSUME nx[x] = x PROVE FALSE
    OBVIOUS
  <1>1. Nodes \ {x} \in SUBSET Nodes
    OBVIOUS
  <1>2. \A m \in Nodes \ {x} : nx[m] # NULL => nx[m] \in Nodes \ {x}
    OBVIOUS
  <1>3. h # NULL => h \in Nodes \ {x}
    OBVIOUS
  <1>4. x \in Nodes \ {x}
    BY <1>1, <1>2, <1>3 DEF Reaches
  <1> QED
    BY <1>4
-----------------------------------------------------------------------------
\* What a step of t leaves alone of another thread.
Others(t) == \A s \in Threads : s # t =>
    /\ pc'[s] = pc[s] /\ op'[s] = op[s] /\ res'[s] = res[s] /\ bin'[s] = bin[s]
    /\ prev'[s] = prev[s] /\ item'[s] = item[s] /\ gone'[s] = gone[s]
    /\ seen'[s] = seen[s] /\ stable'[s] \subseteq stable[s]

LEMMA OthersStep ==
  ASSUME IInv, MoreTypes, NEW t \in Threads, Thread(t) PROVE Others(t)
  <1> USE DEF IInv, Types, MoreTypes, Others, chains, history
  <1>1. CASE Call(t)
    BY <1>1 DEF Call, CallSet, CallOther, CallForeach, Begin, Goto
  <1>2. CASE ReadSize(t) \/ Lock(t) \/ Walk(t) \/ Visit(t) \/ BinVisited(t)
    BY <1>2 DEF ReadSize, Lock, Walk, Visit, BinVisited, Goto
  <1>3. CASE Unlock(t) \/ Return(t)
    BY <1>3 DEF Unlock, Return, Forget, Goto
  <1>4. CASE Replace(t) \/ SetFails(t) \/ Count(t) \/ GetAnswers(t) \/ Uncount(t)
             \/ DelMisses(t) \/ ReadBinSize(t)
    BY <1>4 DEF Replace, SetFails, Count, GetAnswers, Uncount, DelMisses, ReadBinSize,
       Finish, Goto
  <1>5. CASE (\E n \in Nodes : Link(t, n)) \/ Unlink(t)
    BY <1>5 DEF Link, Unlink, Goto
  <1> QED
    BY <1>1, <1>2, <1>3, <1>4, <1>5 DEF Thread

LEMMA StoredIsValue ==
  ASSUME IInv PROVE \A n \in Nodes : hash[n] # NULL => value[n] \in Values
  BY DEF IInv, Types, OwnInv, Store

LEMMA CallInvStep ==
  ASSUME IInv, ProtocolInv, NEW t \in Threads, Thread(t) PROVE CallInv'
  <1> USE NullAssumption, CallAssumption DEF IInv, ProtocolInv, CallInv
  <1>1. \A s \in Threads : s # t => CallOK(s)'
    BY OthersStep DEF Others, CallOK
  <1> SUFFICES CallOK(t)'
    BY <1>1
  <1>2. CallOK(t)
    OBVIOUS
  <1> USE DEF Types, MoreTypes
  <1>3. CASE Call(t)
    <2>1. /\ pc[t] = "idle" /\ res' = res
          /\ \E o : op' = [op EXCEPT ![t] = o]
          /\ \E l : pc' = [pc EXCEPT ![t] = l]
          /\ \E i : bin' = [bin EXCEPT ![t] = i]
      BY <1>3 DEF Call, CallSet, CallOther, CallForeach, Begin, Goto
    <2>2. CASE CallSet(t)
      <3>1. PICK h \in Hashes, v \in Values :
               Begin(t, [kind |-> "set", hash |-> h, value |-> v], "lock", Bin(h))
        BY <2>2 DEF CallSet
      <3>2. [kind |-> "set", hash |-> h, value |-> v] \in Abstract!Ops
        BY DEF Abstract!Ops
      <3> QED
        BY <1>2, <2>1, <3>1, <3>2 DEF Begin, Goto, CallOK, Keyed
    <2>3. CASE CallOther(t)
      <3>1. ASSUME NEW h \in Hashes, NEW k \in {"get", "del"},
                   Begin(t, [kind |-> k, hash |-> h], "lock", Bin(h))
            PROVE  CallOK(t)'
        <4>1. [kind |-> k, hash |-> h] \in Abstract!Ops
          BY DEF Abstract!Ops
        <4> QED
          BY <1>2, <2>1, <3>1, <4>1 DEF Begin, Goto, CallOK, Keyed
      <3>2. ASSUME NEW i \in Bins, Begin(t, [kind |-> "bin_size", bin |-> i], "lock", i)
            PROVE  CallOK(t)'
        <4>1. [kind |-> "bin_size", bin |-> i] \in Abstract!Ops
          BY DEF Abstract!Ops, Bins
        <4> QED
          BY <1>2, <2>1, <3>2, <4>1 DEF Begin, Goto, CallOK, Keyed
      <3>3. CASE Begin(t, [kind |-> "size"], "size", 0)
        <4>1. [kind |-> "size"] \in Abstract!Ops
          BY DEF Abstract!Ops
        <4> QED
          BY <1>2, <2>1, <3>3, <4>1 DEF Begin, Goto, CallOK, Keyed
      <3> QED
        BY <2>3, <3>1, <3>2, <3>3 DEF CallOther
    <2>4. CASE CallForeach(t)
      <3>1. [kind |-> "foreach"] \in Abstract!Ops
        BY DEF Abstract!Ops
      <3> QED
        BY <1>2, <2>1, <2>4, <3>1 DEF CallForeach, Begin, Goto, CallOK, Keyed
    <2> QED
      BY <1>3, <2>2, <2>3, <2>4 DEF Call
  <1>4. CASE ReadSize(t)
    BY <1>2, <1>4 DEF ReadSize, Goto, CallOK, Keyed
  <1>5. CASE Lock(t) \/ Walk(t) \/ Visit(t)
    BY <1>2, <1>5 DEF Lock, Walk, Visit, Goto, CallOK, Keyed
  <1>6. CASE BinVisited(t)
    BY <1>2, <1>6 DEF BinVisited, Doing, Goto, CallOK, Keyed
  <1>7. CASE Unlock(t) \/ Return(t)
    BY <1>2, <1>7 DEF Unlock, Return, Forget, Goto, CallOK, Keyed
  <1>8. CASE Replace(t) \/ SetFails(t) \/ Count(t) \/ Uncount(t) \/ DelMisses(t)
    BY <1>2, <1>8 DEF Replace, SetFails, Count, Uncount, DelMisses, Finish, Doing, Goto, CallOK,
       Keyed
  <1>9. CASE GetAnswers(t)
    <2> QED
      BY <1>2, <1>9, StoredIsValue, NullIsNoHash DEF GetAnswers, Found, Missed, Finish, Doing, Goto, CallOK, Keyed
  <1>10. CASE ReadBinSize(t)
    BY <1>2, <1>10 DEF ReadBinSize, Finish, Doing, Goto, CallOK, Keyed
  <1>11. CASE (\E n \in Nodes : Link(t, n)) \/ Unlink(t)
    BY <1>2, <1>11 DEF Link, Unlink, Doing, Goto, CallOK, Keyed
  <1> QED
    BY <1>3, <1>4, <1>5, <1>6, <1>7, <1>8, <1>9, <1>10, <1>11 DEF Thread

LEMMA LockInvStep ==
  ASSUME IInv, ProtocolInv, NEW t \in Threads, Thread(t) PROVE LockInv'
  <1> USE NullAssumption DEF IInv, ProtocolInv, LockInv, Types, MoreTypes
  <1>1. Others(t)
    BY OthersStep
  <1>2. CASE lock' = lock /\ bin' = bin /\ (Holding(t)' => Holding(t))
    BY <1>1, <1>2 DEF Others, Holding
  <1>3. CASE lock' = lock /\ ~Holding(t)'
    BY <1>1, <1>3 DEF Others, Holding
  <1>4. CASE Lock(t)
    BY <1>4 DEF Lock, Goto, Holding
  <1>5. CASE /\ Holding(t) /\ lock' = [lock EXCEPT ![bin[t]] = NULL] /\ ~Holding(t)'
    BY <1>1, <1>5 DEF Others, Holding
  <1>6. CASE Unlock(t) \/ BinVisited(t)
    <2>1. /\ Holding(t) /\ lock' = [lock EXCEPT ![bin[t]] = NULL] /\ ~Holding(t)'
      BY <1>6 DEF Unlock, BinVisited, Doing, Forget, Goto, Holding
    <2> QED
      BY <1>5, <2>1
  <1>7. CASE Call(t) \/ ReadSize(t) \/ Return(t)
    <2>1. lock' = lock /\ ~Holding(t)'
      BY <1>7 DEF Call, CallSet, CallOther, CallForeach, Begin, ReadSize, Return, Forget, Goto,
         Holding
    <2> QED
      BY <1>3, <2>1
  <1>8. CASE \/ Walk(t) \/ Visit(t) \/ Replace(t) \/ SetFails(t) \/ Count(t) \/ GetAnswers(t)
             \/ Uncount(t) \/ DelMisses(t) \/ ReadBinSize(t)
             \/ (\E n \in Nodes : Link(t, n)) \/ Unlink(t)
    <2>1. lock' = lock /\ bin' = bin /\ Holding(t)
      BY <1>8 DEF Walk, Visit, Replace, SetFails, Count, GetAnswers, Uncount, DelMisses,
         ReadBinSize, Link, Unlink, Doing, Finish, Goto, Holding
    <2> QED
      BY <1>2, <2>1
  <1> QED
    BY <1>4, <1>6, <1>7, <1>8 DEF Thread

\* Two threads that hold locks are in different bins.
LEMMA Exclusive ==
  ASSUME IInv, ProtocolInv, NEW s \in Threads, NEW t \in Threads, s # t, Holding(s), Holding(t)
  PROVE  bin[s] # bin[t]
  BY DEF ProtocolInv, LockInv

-----------------------------------------------------------------------------
\* What Link does, from the state the walk has led to.
LEMMA LinkFacts ==
  ASSUME IInv, ProtocolInv, NEW t \in Threads, NEW n \in Nodes, Link(t, n)
  PROVE  /\ op[t].hash \in Hashes /\ bin[t] = Bin(op[t].hash) /\ bin[t] \in Bins
         /\ hash[n] = NULL /\ next[n] = NULL
         /\ \A m \in Nodes : hash[m] # op[t].hash
         /\ hash' = [hash EXCEPT ![n] = op[t].hash]
         /\ \/ /\ table[bin[t]] = NULL
               /\ table' = [table EXCEPT ![bin[t]] = n] /\ next' = next
            \/ \E p \in Nodes : /\ Listed(p, bin[t]) /\ next[p] = NULL
                                /\ next' = [next EXCEPT ![p] = n] /\ table' = table
  <1> USE NullAssumption DEF IInv, ProtocolInv, Types, MoreTypes
  <1>1. pc[t] = "walk" /\ op[t].kind = "set" /\ item[t] = NULL /\ hash[n] = NULL
    BY DEF Link, Doing, Missed
  <1>2. CallOK(t) /\ WalkOK(t)
    BY DEF CallInv, WalkInv
  <1>3. op[t].hash \in Hashes /\ bin[t] = Bin(op[t].hash) /\ bin[t] \in Bins
    BY <1>1, <1>2 DEF CallOK, Keyed
  <1>4. next[n] = NULL
    BY <1>1 DEF ShapeInv
  <1>5. \A m \in Nodes : hash[m] # op[t].hash
    <2> SUFFICES ASSUME NEW m \in Nodes, hash[m] = op[t].hash PROVE FALSE
      OBVIOUS
    <2>1. Listed(m, bin[t]) /\ hash[m] \in Sought(t)
      BY <1>1, <1>3, NullIsNoHash DEF Listed, Sought
    <2>2. Reaches(next, NULL, m)
      BY <1>1, <1>2, <2>1 DEF WalkOK
    <2> QED
      BY <2>2, ReachNone
  <1>6. hash' = [hash EXCEPT ![n] = op[t].hash]
    BY DEF Link
  <1>7. CASE prev[t] = NULL
    BY <1>1, <1>2, <1>3, <1>4, <1>5, <1>6, <1>7 DEF Link, WalkOK
  <1>8. CASE prev[t] # NULL
    BY <1>1, <1>2, <1>3, <1>4, <1>5, <1>6, <1>8 DEF Link, WalkOK
  <1> QED
    BY <1>7, <1>8

\* What Unlink does.
LEMMA UnlinkFacts ==
  ASSUME IInv, ProtocolInv, NEW t \in Threads, Unlink(t)
  PROVE  /\ item[t] \in Nodes /\ hash[item[t]] = op[t].hash
         /\ op[t].hash \in Hashes /\ bin[t] = Bin(op[t].hash) /\ bin[t] \in Bins
         /\ hash' = [hash EXCEPT ![item[t]] = NULL]
         /\ \/ /\ table[bin[t]] = item[t]
               /\ table' = [table EXCEPT ![bin[t]] = next[item[t]]]
               /\ next' = [next EXCEPT ![item[t]] = NULL]
            \/ \E p \in Nodes :
                  /\ Listed(p, bin[t]) /\ next[p] = item[t] /\ p # item[t]
                  /\ next' = [[next EXCEPT ![item[t]] = NULL] EXCEPT ![p] = next[item[t]]]
                  /\ table' = table
  <1> USE NullAssumption DEF IInv, ProtocolInv, Types, MoreTypes
  <1>1. /\ pc[t] = "walk" /\ op[t].kind = "del" /\ item[t] \in Nodes
        /\ hash[item[t]] = op[t].hash
    BY DEF Unlink, Doing, Found
  <1>2. CallOK(t) /\ WalkOK(t)
    BY DEF CallInv, WalkInv
  <1>3. op[t].hash \in Hashes /\ bin[t] = Bin(op[t].hash) /\ bin[t] \in Bins
    BY <1>1, <1>2 DEF CallOK, Keyed
  <1>4. hash' = [hash EXCEPT ![item[t]] = NULL]
    BY DEF Unlink
  <1>5. CASE prev[t] = NULL
    BY <1>1, <1>2, <1>3, <1>4, <1>5 DEF Unlink, WalkOK
  <1>6. CASE prev[t] # NULL
    <2>1. Listed(prev[t], bin[t]) /\ next[prev[t]] = item[t] /\ prev[t] \in Nodes
      BY <1>1, <1>2, <1>6 DEF WalkOK
    <2>2. next[item[t]] # item[t]
      <3>1. Reaches(next, table[bin[t]], item[t])
        BY <1>1, <1>3, NullIsNoHash DEF ShapeInv
      <3>2. table[bin[t]] # item[t]
        BY <1>1, <1>3, <2>1 DEF ShapeInv
      <3>3. table[bin[t]] \in Nodes \cup {NULL}
        BY <1>3
      <3> SUFFICES ASSUME next[item[t]] = item[t] PROVE FALSE
        OBVIOUS
      <3>4. \A m \in Nodes : next[m] = next[item[t]] => m = item[t]
        BY <1>1 DEF ShapeInv
      <3> QED
        BY <1>1, <3>1, <3>2, <3>3, <3>4, NoSelfLoop
    <2>3. prev[t] # item[t]
      BY <2>1, <2>2
    <2>4. /\ next' = [[next EXCEPT ![item[t]] = NULL] EXCEPT ![prev[t]] = next[item[t]]]
          /\ table' = table
      BY <1>6 DEF Unlink
    <2> QED
      BY <1>1, <1>3, <1>4, <2>1, <2>3, <2>4
  <1> QED
    BY <1>5, <1>6

LEMMA BinsOfHashes == \A h \in Hashes : Bin(h) \in Bins
  BY TableAssumption DEF Bin, Bins

LEMMA LinkShape ==
  ASSUME IInv, IInv', ProtocolInv, NEW t \in Threads, NEW n \in Nodes, Link(t, n) PROVE ShapeInv'
  <1> USE NullAssumption, NullIsNoHash
  <1>1. PICK b, h : b = bin[t] /\ h = op[t].hash
    OBVIOUS
  <1>2. /\ h \in Hashes /\ b = Bin(h) /\ b \in Bins
        /\ hash[n] = NULL /\ next[n] = NULL
        /\ \A m \in Nodes : hash[m] # h
        /\ hash' = [hash EXCEPT ![n] = h]
    BY <1>1, LinkFacts
  <1>3. \/ /\ table[b] = NULL
           /\ table' = [table EXCEPT ![b] = n] /\ next' = next
        \/ \E p \in Nodes : /\ Listed(p, b) /\ next[p] = NULL
                            /\ next' = [next EXCEPT ![p] = n] /\ table' = table
    BY <1>1, LinkFacts
  <1>4. /\ ShapeInv
        /\ table \in [Bins -> Nodes \cup {NULL}] /\ next \in [Nodes -> Nodes \cup {NULL}]
        /\ hash \in [Nodes -> Hashes \cup {NULL}]
    BY DEF IInv, ProtocolInv, Types
  <1>5. /\ \A m \in Nodes : m # n => hash'[m] = hash[m]
        /\ hash'[n] = h
    BY <1>2, <1>4
  <1>6. \A m, k \in Nodes : hash'[m] # NULL /\ hash'[m] = hash'[k] => m = k
    BY <1>2, <1>4, <1>5 DEF ShapeInv
  <1>7. \A m \in Nodes : next[m] # n
    BY <1>2, <1>4 DEF ShapeInv, Listed
  <1>8. \A i \in Bins : table[i] # n
    BY <1>2, <1>4 DEF ShapeInv, Listed
  <1>9. CASE table[b] = NULL /\ table' = [table EXCEPT ![b] = n] /\ next' = next
    <2>1. \A i \in Bins : table'[i] # NULL => hash'[table'[i]] # NULL /\ Bin(hash'[table'[i]]) = i
      BY <1>2, <1>4, <1>5, <1>9 DEF ShapeInv, Listed
    <2>2. \A m \in Nodes : next'[m] # NULL =>
                /\ hash'[m] # NULL /\ hash'[next'[m]] # NULL
                /\ Bin(hash'[next'[m]]) = Bin(hash'[m])
      BY <1>2, <1>4, <1>5, <1>7, <1>9 DEF ShapeInv, Listed
    <2>3. \A m, k \in Nodes : next'[m] # NULL /\ next'[m] = next'[k] => m = k
      BY <1>4, <1>9 DEF ShapeInv
    <2>4. \A i \in Bins, m \in Nodes : table'[i] = next'[m] => table'[i] = NULL
      BY <1>4, <1>7, <1>9 DEF ShapeInv
    <2>5. ASSUME NEW m \in Nodes, hash'[m] # NULL
          PROVE  Reaches(next', table'[Bin(hash'[m])], m)
      <3>1. CASE m = n
        BY <1>2, <1>4, <1>5, <1>9, <3>1, ReachSelf
      <3>2. CASE m # n
        <4>1. /\ hash[m] \in Hashes /\ hash'[m] = hash[m]
              /\ Reaches(next, table[Bin(hash[m])], m)
          BY <1>4, <1>5, <2>5, <3>2 DEF ShapeInv
        <4>2. Bin(hash[m]) # b
          BY <1>9, <4>1, ReachNone
        <4>3. Bin(hash[m]) \in Bins
          BY <4>1, BinsOfHashes
        <4> QED
          BY <1>4, <1>9, <4>1, <4>2, <4>3
      <3> QED
        BY <3>1, <3>2
    <2> QED
      BY <1>6, <2>1, <2>2, <2>3, <2>4, <2>5 DEF ShapeInv, Listed
  <1>10. ASSUME NEW p \in Nodes, Listed(p, b), next[p] = NULL,
                next' = [next EXCEPT ![p] = n], table' = table
         PROVE  ShapeInv'
    <2>0. \A m \in Nodes : next'[m] = IF m = p THEN n ELSE next[m]
      BY <1>4, <1>10
    <2>1. \A i \in Bins : table'[i] # NULL => hash'[table'[i]] # NULL /\ Bin(hash'[table'[i]]) = i
      BY <1>2, <1>4, <1>5, <1>8, <1>10 DEF ShapeInv, Listed
    <2>2. \A m \in Nodes : next'[m] # NULL =>
                /\ hash'[m] # NULL /\ hash'[next'[m]] # NULL
                /\ Bin(hash'[next'[m]]) = Bin(hash'[m])
      BY <1>2, <1>4, <1>5, <1>7, <1>10, <2>0 DEF ShapeInv, Listed
    <2>3. \A m, k \in Nodes : next'[m] # NULL /\ next'[m] = next'[k] => m = k
      BY <1>4, <1>7, <2>0 DEF ShapeInv
    <2>4. \A i \in Bins, m \in Nodes : table'[i] = next'[m] => table'[i] = NULL
      BY <1>4, <1>8, <1>10, <2>0 DEF ShapeInv
    <2>5. ASSUME NEW m \in Nodes, hash'[m] # NULL
          PROVE  Reaches(next', table'[Bin(hash'[m])], m)
      <3>1. CASE m = n
        <4>1. Reaches(next, table[b], p)
          BY <1>4, <1>10 DEF ShapeInv, Listed
        <4>2. Reaches(next', table[b], n)
          BY <1>4, <1>10, <4>1, ReachAppend
        <4> QED
          BY <1>2, <1>5, <1>10, <3>1, <4>2
      <3>2. CASE m # n
        <4>1. hash'[m] = hash[m] /\ Reaches(next, table[Bin(hash[m])], m)
          BY <1>4, <1>5, <2>5, <3>2 DEF ShapeInv
        <4>2. PICK y : y = table[Bin(hash[m])]
          OBVIOUS
        <4>3. Reaches(next, y, m) => Reaches([next EXCEPT ![p] = n], y, m)
          BY <1>4, <1>10, ReachAppend
        <4> QED
          BY <1>10, <4>1, <4>2, <4>3
      <3> QED
        BY <3>1, <3>2
    <2> QED
      BY <1>6, <2>1, <2>2, <2>3, <2>4, <2>5 DEF ShapeInv, Listed
  <1> QED
    BY <1>3, <1>9, <1>10

LEMMA UnlinkShape ==
  ASSUME IInv, IInv', ProtocolInv, NEW t \in Threads, Unlink(t) PROVE ShapeInv'
  <1> USE NullAssumption, NullIsNoHash
  <1>1. PICK b, h, x : b = bin[t] /\ h = op[t].hash /\ x = item[t]
    OBVIOUS
  <1>2. /\ h \in Hashes /\ b = Bin(h) /\ b \in Bins
        /\ x \in Nodes /\ hash[x] = h
        /\ hash' = [hash EXCEPT ![x] = NULL]
    BY <1>1, UnlinkFacts
  <1>3. \/ /\ table[b] = x /\ table' = [table EXCEPT ![b] = next[x]]
           /\ next' = [next EXCEPT ![x] = NULL]
        \/ \E p \in Nodes :
              /\ Listed(p, b) /\ next[p] = x /\ p # x
              /\ next' = [[next EXCEPT ![x] = NULL] EXCEPT ![p] = next[x]]
              /\ table' = table
    BY <1>1, UnlinkFacts
  <1>4. /\ ShapeInv
        /\ table \in [Bins -> Nodes \cup {NULL}] /\ next \in [Nodes -> Nodes \cup {NULL}]
        /\ hash \in [Nodes -> Hashes \cup {NULL}]
    BY DEF IInv, ProtocolInv, Types
  <1>5. /\ \A m \in Nodes : m # x => hash'[m] = hash[m]
        /\ hash'[x] = NULL
    BY <1>2, <1>4
  <1>6. \A m, k \in Nodes : hash'[m] # NULL /\ hash'[m] = hash'[k] => m = k
    BY <1>4, <1>5 DEF ShapeInv
  <1>7. /\ \A m \in Nodes : hash[m] # NULL =>
              /\ hash[m] \in Hashes /\ Bin(hash[m]) \in Bins
              /\ Reaches(next, table[Bin(hash[m])], m)
        /\ next[x] \in Nodes \cup {NULL}
    BY <1>2, <1>4, BinsOfHashes DEF ShapeInv
  <1>8. CASE /\ table[b] = x /\ table' = [table EXCEPT ![b] = next[x]]
             /\ next' = [next EXCEPT ![x] = NULL]
    <2>0. /\ \A m \in Nodes : next'[m] = IF m = x THEN NULL ELSE next[m]
          /\ \A i \in Bins : table'[i] = IF i = b THEN next[x] ELSE table[i]
      BY <1>4, <1>8
    <2>1. \A m \in Nodes : next[m] # x
      BY <1>2, <1>4, <1>8 DEF ShapeInv
    <2>2. next[x] # NULL => Listed(next[x], b) /\ next[x] # x
      BY <1>2, <1>4, <2>1 DEF ShapeInv
    <2>3. \A i \in Bins : table'[i] # NULL => hash'[table'[i]] # NULL /\ Bin(hash'[table'[i]]) = i
      BY <1>2, <1>4, <1>5, <2>0, <2>2 DEF ShapeInv, Listed
    <2>4. \A m \in Nodes : next'[m] # NULL =>
                /\ hash'[m] # NULL /\ hash'[next'[m]] # NULL
                /\ Bin(hash'[next'[m]]) = Bin(hash'[m])
      BY <1>4, <1>5, <2>0, <2>1 DEF ShapeInv, Listed
    <2>5. \A m, k \in Nodes : next'[m] # NULL /\ next'[m] = next'[k] => m = k
      BY <1>4, <2>0 DEF ShapeInv
    <2>6. \A i \in Bins, m \in Nodes : table'[i] = next'[m] => table'[i] = NULL
      BY <1>2, <1>4, <2>0 DEF ShapeInv
    <2>7. ASSUME NEW m \in Nodes, hash'[m] # NULL
          PROVE  Reaches(next', table'[Bin(hash'[m])], m)
      <3>1. /\ m # x /\ hash'[m] = hash[m] /\ Bin(hash[m]) \in Bins
            /\ Reaches(next, table[Bin(hash[m])], m)
        BY <1>5, <1>7, <2>7
      <3>2. CASE Bin(hash[m]) = b
        <4>1. Reaches(next', next[x], m)
          BY <1>2, <1>4, <1>8, <3>1, <3>2, ReachCutHead
        <4> QED
          BY <1>2, <2>0, <3>1, <3>2, <4>1
      <3>3. CASE Bin(hash[m]) # b
        <4>1. PICK i \in Bins : i = Bin(hash[m])
          BY <3>1
        <4> DEFINE B == {k \in Nodes : Listed(k, i)}
        <4>2. B \in SUBSET Nodes /\ m \in B
          BY <3>1, <4>1, <2>7 DEF Listed
        <4>3. \A k \in B : next'[k] = next[k]
          BY <1>2, <2>0, <3>3, <4>1 DEF Listed
        <4>4. \A k \in Nodes \ B : next[k] \notin B
          BY <1>4 DEF ShapeInv, Listed
        <4>5. table[i] # NULL => table[i] \in B
          BY <1>4 DEF ShapeInv, Listed
        <4> HIDE DEF B
        <4>6. Reaches(next', table[i], m)
          BY <1>4, <3>1, <4>1, <4>2, <4>3, <4>4, <4>5, ReachFrame
        <4> QED
          BY <2>0, <3>1, <3>3, <4>1, <4>6
      <3> QED
        BY <3>2, <3>3
    <2> QED
      BY <1>6, <2>3, <2>4, <2>5, <2>6, <2>7 DEF ShapeInv, Listed
  <1>9. ASSUME NEW p \in Nodes, Listed(p, b), next[p] = x, p # x,
               next' = [[next EXCEPT ![x] = NULL] EXCEPT ![p] = next[x]], table' = table
        PROVE  ShapeInv'
    <2>0. /\ \A m \in Nodes : m # x /\ m # p => next'[m] = next[m]
          /\ next'[p] = next[x] /\ next'[x] = NULL
      BY <1>2, <1>4, <1>9
    <2>1. \A m \in Nodes : next[m] = x => m = p
      BY <1>2, <1>4, <1>9 DEF ShapeInv
    <2>2. \A i \in Bins : table[i] # x
      BY <1>2, <1>4, <1>9 DEF ShapeInv
    <2>3. \A i \in Bins : table'[i] # NULL => hash'[table'[i]] # NULL /\ Bin(hash'[table'[i]]) = i
      BY <1>2, <1>4, <1>5, <1>9, <2>2 DEF ShapeInv, Listed
    <2>4. next[x] # NULL => Listed(next[x], b) /\ next[x] # x
      BY <1>2, <1>4, <1>9, <2>1 DEF ShapeInv
    <2>5. \A m \in Nodes : next'[m] # NULL =>
                /\ hash'[m] # NULL /\ hash'[next'[m]] # NULL
                /\ Bin(hash'[next'[m]]) = Bin(hash'[m])
      <3> SUFFICES ASSUME NEW m \in Nodes, next'[m] # NULL
                   PROVE  /\ hash'[m] # NULL /\ hash'[next'[m]] # NULL
                          /\ Bin(hash'[next'[m]]) = Bin(hash'[m])
        OBVIOUS
      <3>1. CASE m = p
        BY <1>4, <1>5, <1>7, <1>9, <2>0, <2>4, <3>1 DEF Listed
      <3>2. CASE m # p
        <4>1. m # x /\ next'[m] = next[m] /\ next[m] \in Nodes /\ next[m] # x
          BY <1>4, <2>0, <2>1, <3>2
        <4> QED
          BY <1>4, <1>5, <4>1 DEF ShapeInv, Listed
      <3> QED
        BY <3>1, <3>2
    <2>6. \A m, k \in Nodes : next'[m] # NULL /\ next'[m] = next'[k] => m = k
      BY <1>2, <1>4, <1>9, <2>0 DEF ShapeInv
    <2>7. \A i \in Bins, m \in Nodes : table'[i] = next'[m] => table'[i] = NULL
      BY <1>2, <1>4, <1>9, <2>0 DEF ShapeInv
    <2>8. ASSUME NEW m \in Nodes, hash'[m] # NULL
          PROVE  Reaches(next', table'[Bin(hash'[m])], m)
      <3>1. /\ m # x /\ hash'[m] = hash[m] /\ Bin(hash[m]) \in Bins
            /\ Reaches(next, table[Bin(hash[m])], m)
        BY <1>5, <1>7, <2>8
      <3>2. table[Bin(hash[m])] # x
        BY <2>2, <3>1
      <3>3. PICK y : y = table[Bin(hash[m])]
        OBVIOUS
      <3>4. Reaches([[next EXCEPT ![x] = NULL] EXCEPT ![p] = next[x]], y, m)
        BY <1>2, <1>4, <1>9, <2>1, <3>1, <3>2, <3>3, ReachCut
      <3> QED
        BY <1>9, <3>1, <3>3, <3>4
    <2> QED
      BY <1>6, <2>3, <2>5, <2>6, <2>7, <2>8 DEF ShapeInv, Listed
  <1> QED
    BY <1>3, <1>8, <1>9

\* The steps that change neither a chain's shape nor a hash.
Passive(t) == \/ Call(t) \/ ReadSize(t) \/ Lock(t) \/ Walk(t) \/ Visit(t) \/ Replace(t)
              \/ SetFails(t) \/ Count(t) \/ GetAnswers(t) \/ Uncount(t) \/ DelMisses(t)
              \/ ReadBinSize(t) \/ BinVisited(t) \/ Unlock(t) \/ Return(t)

LEMMA PassiveKeeps ==
  ASSUME NEW t \in Threads, Passive(t) PROVE UNCHANGED <<table, next, hash>>
  BY DEF Passive, Call, CallSet, CallOther, CallForeach, Begin, ReadSize, Lock, Walk, Visit,
     Replace, SetFails, Count, GetAnswers, Uncount, DelMisses, ReadBinSize, BinVisited,
     Unlock, Return, Forget, chains

LEMMA ShapeKept == ASSUME ShapeInv, UNCHANGED <<table, next, hash>> PROVE ShapeInv'
  BY DEF ShapeInv, Listed

LEMMA ShapeInvStep ==
  ASSUME IInv, IInv', ProtocolInv, NEW t \in Threads, Thread(t) PROVE ShapeInv'
  <1>1. CASE Passive(t)
    BY <1>1, PassiveKeeps, ShapeKept DEF ProtocolInv
  <1> QED
    BY <1>1, LinkShape, UnlinkShape DEF Thread, Passive

\* A step in one bin leaves the chain of every other bin as it is.
LEMMA Elsewhere ==
  ASSUME IInv, ProtocolInv, NEW t \in Threads, (\E q \in Nodes : Link(t, q)) \/ Unlink(t),
         NEW i \in Bins, i # bin[t]
  PROVE  /\ table'[i] = table[i]
         /\ \A k \in Nodes : Listed(k, i) <=> hash'[k] # NULL /\ Bin(hash'[k]) = i
         /\ \A k \in Nodes : Listed(k, i) => hash'[k] = hash[k] /\ next'[k] = next[k]
         /\ \A x \in Nodes \cup {NULL} : \A n \in Nodes :
               (x # NULL => Listed(x, i)) /\ Listed(n, i) /\ Reaches(next, x, n)
                  => Reaches(next', x, n)
  <1> USE NullAssumption, NullIsNoHash
  <1>1. /\ ShapeInv
        /\ table \in [Bins -> Nodes \cup {NULL}] /\ next \in [Nodes -> Nodes \cup {NULL}]
        /\ hash \in [Nodes -> Hashes \cup {NULL}]
    BY DEF IInv, ProtocolInv, Types
  <1>2. /\ table'[i] = table[i]
        /\ \A k \in Nodes : Listed(k, i) <=> hash'[k] # NULL /\ Bin(hash'[k]) = i
        /\ \A k \in Nodes : Listed(k, i) => hash'[k] = hash[k] /\ next'[k] = next[k]
    <2>1. CASE \E q \in Nodes : Link(t, q)
      <3>1. PICK q \in Nodes : Link(t, q)
        BY <2>1
      <3> QED
        BY <1>1, <3>1, LinkFacts DEF Listed
    <2>2. CASE Unlink(t)
      BY <1>1, <2>2, UnlinkFacts DEF Listed
    <2> QED
      BY <2>1, <2>2
  <1> DEFINE B == {k \in Nodes : Listed(k, i)}
  <1>3. \A k \in Nodes \ B : next[k] \notin B
    BY <1>1 DEF ShapeInv, Listed
  <1>4. /\ B \in SUBSET Nodes /\ \A k \in B : next'[k] = next[k]
        /\ \A k \in Nodes : k \in B <=> Listed(k, i)
    BY <1>2
  <1> HIDE DEF B
  <1>5. ASSUME NEW x \in Nodes \cup {NULL}, NEW n \in Nodes, x # NULL => Listed(x, i),
               Listed(n, i), Reaches(next, x, n)
        PROVE  Reaches(next', x, n)
    BY <1>1, <1>3, <1>4, <1>5, ReachFrame
  <1> QED
    BY <1>2, <1>5

LEMMA WalkInvStep ==
  ASSUME IInv, IInv', ProtocolInv, NEW t \in Threads, Thread(t) PROVE WalkInv'
  <1> USE NullAssumption DEF IInv, ProtocolInv, Types, MoreTypes
  <1>1. Others(t)
    BY OthersStep
  <1>2. \A s \in Threads : WalkOK(s) /\ CallOK(s)
    BY DEF WalkInv, CallInv
  <1>3. ASSUME NEW s \in Threads, s # t, Passive(t) PROVE WalkOK(s)'
    <2>1. UNCHANGED <<table, next, hash>>
      BY <1>3, PassiveKeeps
    <2> QED
      BY <1>1, <1>2, <1>3, <2>1 DEF WalkOK, Others, Sought, Listed
  <1>4. ASSUME NEW s \in Threads, s # t, (\E n \in Nodes : Link(t, n)) \/ Unlink(t)
        PROVE  WalkOK(s)'
    <2> SUFFICES ASSUME pc[s] = "walk", op[s].kind # "bin_size" PROVE WalkOK(s)'
      BY <1>1, <1>4 DEF WalkOK, Others
    <2>1. pc[t] = "walk"
      BY <1>4 DEF Link, Unlink, Doing
    <2>2. bin[s] # bin[t] /\ bin[s] \in Bins
      BY <1>4, <2>1, Exclusive DEF Holding
    <2>3. PICK i \in Bins : i = bin[s] /\ i # bin[t]
      BY <2>2
    <2>4. /\ table'[i] = table[i]
          /\ \A k \in Nodes : Listed(k, i) <=> hash'[k] # NULL /\ Bin(hash'[k]) = i
          /\ \A k \in Nodes : Listed(k, i) => hash'[k] = hash[k] /\ next'[k] = next[k]
          /\ \A x \in Nodes \cup {NULL} : \A n \in Nodes :
                (x # NULL => Listed(x, i)) /\ Listed(n, i) /\ Reaches(next, x, n)
                   => Reaches(next', x, n)
      BY <1>4, <2>3, Elsewhere
    <2>5. item[s] # NULL => Listed(item[s], i)
      BY <1>2, <2>3 DEF WalkOK
    <2>6. ASSUME NEW n \in Nodes, Listed(n, i), hash'[n] \in Sought(s)'
          PROVE  Reaches(next', item[s], n)
      BY <1>1, <1>2, <1>4, <2>3, <2>4, <2>5, <2>6 DEF WalkOK, Sought, Others
    <2>7. \A k \in Nodes : Listed(k, bin[s])' <=> Listed(k, i)
      BY <1>1, <1>4, <2>3, <2>4 DEF Others, Listed
    <2>8. /\ pc'[s] = pc[s] /\ op'[s] = op[s] /\ bin'[s] = i /\ item'[s] = item[s]
          /\ prev'[s] = prev[s]
      BY <1>1, <1>4, <2>3 DEF Others
    <2>9. item'[s] # NULL => Listed(item[s], bin[s])'
      BY <2>4, <2>5, <2>8 DEF Listed
    <2>10. op[s].kind # "foreach" =>
              /\ prev[s] = NULL => item[s] = table'[i]
              /\ prev[s] # NULL => Listed(prev[s], i) /\ next'[prev[s]] = item[s]
      BY <1>2, <2>3, <2>4 DEF WalkOK
    <2>11. op[s].kind # "foreach" =>
              /\ prev'[s] = NULL => item'[s] = table'[bin'[s]]
              /\ prev'[s] # NULL => Listed(prev[s], bin[s])' /\ next'[prev'[s]] = item'[s]
      BY <2>4, <2>8, <2>10 DEF Listed
    <2> QED
      BY <2>6, <2>7, <2>8, <2>9, <2>11 DEF WalkOK
  <1>5. WalkOK(t)'
    <2>1. CASE Lock(t)
      <3>1. /\ bin' = bin /\ op' = op /\ item'[t] = table[bin[t]] /\ prev'[t] = NULL
            /\ UNCHANGED <<table, next, hash>>
        BY <2>1 DEF Lock, chains
      <3>2. PICK i \in Bins : i = bin[t]
        OBVIOUS
      <3>3. \A n \in Nodes : Listed(n, i) => Reaches(next, table[i], n)
        BY DEF ShapeInv, Listed
      <3>4. table[i] # NULL => Listed(table[i], i)
        BY DEF ShapeInv
      <3> QED
        BY <3>1, <3>2, <3>3, <3>4 DEF WalkOK, Listed
    <2>2. CASE Walk(t)
      <3>1. PICK x : x = item[t]
        OBVIOUS
      <3>2. /\ bin' = bin /\ op' = op /\ item'[t] = next[x] /\ prev'[t] = x /\ pc' = pc
            /\ UNCHANGED <<table, next, hash, stable, seen>>
            /\ pc[t] = "walk" /\ op[t].kind \in {"set", "get", "del"}
            /\ x \in Nodes /\ hash[x] # op[t].hash
        BY <2>2, <3>1 DEF Walk, chains, history, Found, Missed
      <3>3. Listed(x, bin[t])
        BY <1>2, <3>1, <3>2 DEF WalkOK
      <3>4. next[x] # NULL => Listed(next[x], bin[t])
        BY <3>2, <3>3 DEF ShapeInv, Listed
      <3>5. ASSUME NEW n \in Nodes, Listed(n, bin[t]), hash[n] = op[t].hash
            PROVE  Reaches(next, next[x], n)
        <4>1. Reaches(next, x, n)
          BY <1>2, <3>1, <3>2, <3>5 DEF WalkOK, Sought
        <4> QED
          BY <3>2, <3>5, <4>1, ReachStep
      <3>6. x # NULL
        BY <3>2
      <3> QED
        BY <3>2, <3>3, <3>4, <3>5, <3>6 DEF WalkOK, Listed, Sought
    <2>3. CASE Visit(t)
      <3>1. PICK x : x = item[t]
        OBVIOUS
      <3>2. /\ bin' = bin /\ op' = op /\ item'[t] = next[x] /\ pc' = pc
            /\ UNCHANGED <<table, next, hash, stable>>
            /\ pc[t] = "walk" /\ op[t].kind = "foreach"
            /\ x \in Nodes /\ seen'[t] = seen[t] \cup {hash[x]}
        BY <2>3, <3>1 DEF Visit, chains, Doing, Missed
      <3>3. Listed(x, bin[t])
        BY <1>2, <3>1, <3>2 DEF WalkOK
      <3>4. next[x] # NULL => Listed(next[x], bin[t])
        BY <3>2, <3>3 DEF ShapeInv, Listed
      <3>5. ASSUME NEW n \in Nodes, Listed(n, bin[t]), hash[n] \in stable[t] \ seen'[t]
            PROVE  Reaches(next, next[x], n)
        <4>1. Reaches(next, x, n)
          BY <1>2, <3>1, <3>2, <3>5 DEF WalkOK, Sought
        <4> QED
          BY <3>2, <3>5, <4>1, ReachStep
      <3> QED
        BY <3>2, <3>4, <3>5 DEF WalkOK, Listed, Sought
    <2>4. CASE ~(Lock(t) \/ Walk(t) \/ Visit(t))
      <3>1. pc'[t] # "walk"
        BY <2>4 DEF Thread, Call, CallSet, CallOther, CallForeach, Begin, ReadSize,
           Replace, SetFails, Link, Count, GetAnswers, Unlink, Uncount, DelMisses, ReadBinSize,
           BinVisited, Unlock, Return, Forget, Finish, Goto
      <3> QED
        BY <3>1 DEF WalkOK
    <2> QED
      BY <2>1, <2>2, <2>3, <2>4
  <1>6. Passive(t) \/ (\E n \in Nodes : Link(t, n)) \/ Unlink(t)
    BY DEF Thread, Passive
  <1> QED
    BY <1>3, <1>4, <1>5, <1>6 DEF WalkInv

\* Two threads at work on an item each are after different hashes.
LEMMA OtherHash ==
  ASSUME IInv, ProtocolInv, NEW s \in Threads, NEW t \in Threads, s # t,
         Holding(s), Holding(t), op[s].kind \in Keyed, op[t].kind \in Keyed
  PROVE  op[s].hash # op[t].hash
  <1>1. CallOK(s) /\ CallOK(t) /\ bin[s] # bin[t]
    BY Exclusive DEF ProtocolInv, CallInv
  <1> QED
    BY <1>1 DEF CallOK, Holding

LEMMA PendingInvStep ==
  ASSUME IInv, IInv', ProtocolInv, NEW t \in Threads, Thread(t) PROVE PendingInv'
  <1> USE NullAssumption, NullIsNoHash DEF IInv, ProtocolInv, Types, MoreTypes
  <1>1. Others(t)
    BY OthersStep
  <1>2. \A s \in Threads : PendingOK(s) /\ CallOK(s)
    BY DEF PendingInv, CallInv
  <1>3. ASSUME NEW s \in Threads, s # t, ~Replace(t), Passive(t) PROVE PendingOK(s)'
    <2>1. UNCHANGED <<hash, value>>
      BY <1>3 DEF Passive, Call, CallSet, CallOther, CallForeach, Begin, ReadSize, Lock, Walk,
         Visit, SetFails, Count, GetAnswers, Uncount, DelMisses, ReadBinSize, BinVisited,
         Unlock, Return, Forget, chains
    <2> QED
      BY <1>1, <1>2, <1>3, <2>1 DEF PendingOK, Others
  <1>4. ASSUME NEW s \in Threads, s # t, Replace(t) PROVE PendingOK(s)'
    <2>1. /\ pc[t] = "walk" /\ op[t].kind = "set" /\ item[t] \in Nodes
          /\ hash[item[t]] = op[t].hash /\ hash' = hash
          /\ value' = [value EXCEPT ![item[t]] = op[t].value]
      BY <1>4 DEF Replace, Doing, Found
    <2>2. pc[s] = "count" => op[s].hash # op[t].hash
      BY <1>2, <1>4, <2>1, OtherHash DEF CallOK, Holding, Keyed
    <2>3. \A n \in Nodes : n # item[t] => value'[n] = value[n]
      BY <2>1
    <2> QED
      BY <1>1, <1>2, <1>4, <2>1, <2>2, <2>3 DEF PendingOK, Others
  <1>5. ASSUME NEW s \in Threads, s # t, NEW n \in Nodes, Link(t, n) PROVE PendingOK(s)'
    <2>1. /\ pc[t] = "walk" /\ op[t].kind = "set" /\ hash[n] = NULL
          /\ hash' = [hash EXCEPT ![n] = op[t].hash]
          /\ value' = [value EXCEPT ![n] = op[t].value]
      BY <1>5 DEF Link, Doing
    <2>2. pc[s] = "uncount" => op[s].hash # op[t].hash
      BY <1>2, <1>5, <2>1, OtherHash DEF CallOK, Holding, Keyed
    <2>3. pc[s] = "count" => op[s].hash # NULL
      BY <1>2 DEF CallOK, Keyed
    <2>4. \A m \in Nodes : m # n => hash'[m] = hash[m] /\ value'[m] = value[m]
      BY <2>1
    <2> QED
      BY <1>1, <1>2, <1>5, <2>1, <2>2, <2>3, <2>4 DEF PendingOK, Others
  <1>6. ASSUME NEW s \in Threads, s # t, Unlink(t) PROVE PendingOK(s)'
    <2>1. /\ pc[t] = "walk" /\ op[t].kind = "del" /\ item[t] \in Nodes
          /\ hash[item[t]] = op[t].hash
          /\ hash' = [hash EXCEPT ![item[t]] = NULL]
          /\ value' = [value EXCEPT ![item[t]] = NULL]
      BY <1>6 DEF Unlink, Doing, Found
    <2>2. pc[s] = "count" => op[s].hash # op[t].hash
      BY <1>2, <1>6, <2>1, OtherHash DEF CallOK, Holding, Keyed
    <2>3. pc[s] = "uncount" => op[s].hash # NULL
      BY <1>2 DEF CallOK, Keyed
    <2>4. /\ \A m \in Nodes : m # item[t] => hash'[m] = hash[m] /\ value'[m] = value[m]
          /\ hash'[item[t]] = NULL
      BY <2>1
    <2> QED
      BY <1>1, <1>2, <1>6, <2>1, <2>2, <2>3, <2>4 DEF PendingOK, Others
  <1>7. PendingOK(t)'
    <2>1. CASE \E n \in Nodes : Link(t, n)
      <3>1. PICK n \in Nodes : Link(t, n)
        BY <2>1
      <3>2. /\ hash'[n] = op[t].hash /\ value'[n] = op[t].value /\ op' = op
            /\ pc'[t] = "count"
        BY <3>1 DEF Link, Goto
      <3> QED
        BY <3>2 DEF PendingOK
    <2>2. CASE Unlink(t)
      <3>1. /\ item[t] \in Nodes /\ hash[item[t]] = op[t].hash /\ op[t].hash \in Hashes
            /\ hash' = [hash EXCEPT ![item[t]] = NULL]
        BY <2>2, UnlinkFacts
      <3>2. gone'[t] = value[item[t]] /\ op' = op /\ pc'[t] = "uncount"
        BY <2>2 DEF Unlink, Goto
      <3>3. gone'[t] # NULL
        BY <3>1, <3>2, StoredIsValue
      <3>4. \A n \in Nodes : hash'[n] # op[t].hash
        BY <3>1 DEF ShapeInv
      <3> QED
        BY <3>2, <3>3, <3>4 DEF PendingOK
    <2>3. CASE Passive(t)
      <3>1. pc'[t] \notin {"count", "uncount"}
        BY <2>3 DEF Passive, Call, CallSet, CallOther, CallForeach, Begin, ReadSize, Lock, Walk,
           Visit, Replace, SetFails, Count, GetAnswers, Uncount, DelMisses, ReadBinSize,
           BinVisited, Unlock, Return, Forget, Finish, Goto, Doing
      <3> QED
        BY <3>1 DEF PendingOK
    <2> QED
      BY <2>1, <2>2, <2>3 DEF Thread, Passive
  <1> QED
    BY <1>3, <1>4, <1>5, <1>6, <1>7 DEF PendingInv, Thread, Passive

LEMMA MoreTypesStep ==
  ASSUME IInv, IInv', ProtocolInv, NEW t \in Threads, Thread(t)
  PROVE  /\ lock' \in [Bins -> Threads \cup {NULL}]
         /\ DOMAIN res' = Threads
         /\ gone' \in [Threads -> Values \cup {NULL}]
  <1> USE NullAssumption, NullIsNoHash DEF IInv, ProtocolInv, Types, MoreTypes
  <1>1. CASE ~Lock(t) /\ Passive(t)
    <2> USE DEF Passive, Call, CallSet, CallOther, CallForeach, Begin, ReadSize, Walk,
       Visit, Replace, SetFails, Count, GetAnswers, Uncount, DelMisses, ReadBinSize,
       BinVisited, Unlock, Return, Forget, Finish
    <2>1. lock' \in [Bins -> Threads \cup {NULL}]
      BY <1>1
    <2>2. DOMAIN res' = Threads
      BY <1>1
    <2>3. gone' \in [Threads -> Values \cup {NULL}]
      BY <1>1
    <2> QED
      BY <2>1, <2>2, <2>3
  <1>2. CASE Lock(t)
    BY <1>2 DEF Lock
  <1>3. CASE \E n \in Nodes : Link(t, n)
    BY <1>3 DEF Link
  <1>4. CASE Unlink(t)
    <2>1. item[t] \in Nodes
      BY <1>4, UnlinkFacts
    <2> QED
      BY <1>4, <2>1 DEF Unlink
  <1> QED
    BY <1>1, <1>2, <1>3, <1>4 DEF Thread, Passive

LEMMA LinkedAreHashes == Linked \subseteq Hashes
  BY DEF Linked

LEMMA HistoryStep ==
  ASSUME IInv, IInv', ProtocolInv, NEW t \in Threads, Thread(t)
  PROVE  /\ seen' \in [Threads -> SUBSET Hashes]
         /\ stable' \in [Threads -> SUBSET Hashes]
         /\ ever' \in [Threads -> SUBSET Hashes]
  <1> USE NullAssumption, NullIsNoHash DEF IInv, ProtocolInv, Types, MoreTypes, history
  <1>1. CASE ~Visit(t) /\ ~CallForeach(t) /\ ~Return(t) /\ Passive(t)
    BY <1>1 DEF Passive, Call, CallSet, CallOther, Begin, ReadSize, Lock, Walk,
       Replace, SetFails, Count, GetAnswers, Uncount, DelMisses, ReadBinSize,
       BinVisited, Unlock, Finish
  <1>2. CASE CallForeach(t)
    BY <1>2, LinkedAreHashes DEF CallForeach
  <1>3. CASE Return(t)
    BY <1>3 DEF Return
  <1>4. CASE Visit(t)
    <2>1. hash[item[t]] \in Hashes
      <3>1. WalkOK(t) /\ pc[t] = "walk" /\ op[t].kind = "foreach" /\ item[t] \in Nodes
        BY <1>4 DEF Visit, Doing, Missed, WalkInv
      <3> QED
        BY <3>1 DEF WalkOK, Listed
    <2> QED
      BY <1>4, <2>1 DEF Visit
  <1>5. CASE \E n \in Nodes : Link(t, n)
    <2>1. op[t].hash \in Hashes /\ seen' = seen /\ stable' = stable
      BY <1>5, LinkFacts DEF Link
    <2>2. ever' = [s \in Threads |-> IF Traversing(s) THEN ever[s] \cup {op[t].hash} ELSE {}]
      BY <1>5 DEF Link
    <2> QED
      BY <2>1, <2>2
  <1>6. CASE Unlink(t)
    BY <1>6 DEF Unlink
  <1> QED
    BY <1>1, <1>2, <1>3, <1>4, <1>5, <1>6 DEF Thread, Passive

LEMMA VisitInvStep ==
  ASSUME IInv, IInv', ProtocolInv, NEW t \in Threads, Thread(t) PROVE VisitInv'
  <1> USE NullAssumption, NullIsNoHash DEF IInv, ProtocolInv, Types, MoreTypes, history
  <1>1. Others(t)
    BY OthersStep
  <1>2. \A s \in Threads : VisitOK(s) /\ CallOK(s) /\ WalkOK(s)
    BY DEF VisitInv, CallInv, WalkInv
  <1>3. ASSUME NEW s \in Threads, s # t, Passive(t) PROVE VisitOK(s)'
    <2>1. ever'[s] = ever[s] /\ stable'[s] = stable[s]
      BY <1>3 DEF Passive, Call, CallSet, CallOther, CallForeach, Begin, ReadSize, Lock, Walk,
         Visit, Replace, SetFails, Count, GetAnswers, Uncount, DelMisses, ReadBinSize,
         BinVisited, Unlock, Return, Finish
    <2>2. hash' = hash
      BY <1>3, PassiveKeeps
    <2> QED
      BY <1>1, <1>2, <1>3, <2>1, <2>2 DEF VisitOK, Others
  <1>4. ASSUME NEW s \in Threads, NEW n \in Nodes, Link(t, n) PROVE VisitOK(s)'
    <2> SUFFICES ASSUME pc'[s] # "idle", op'[s].kind = "foreach" PROVE VisitOK(s)'
      BY DEF VisitOK
    <2>1. op' = op /\ bin' = bin /\ seen' = seen /\ stable' = stable
          /\ pc[t] = "walk" /\ op[t].kind = "set" /\ pc' = [pc EXCEPT ![t] = "count"]
      BY <1>4 DEF Link, Goto, Doing
    <2>2. s # t /\ pc'[s] = pc[s]
      BY <2>1
    <2>3. ever'[s] = ever[s] \cup {op[t].hash}
      BY <1>2, <1>4, <2>1, <2>2 DEF Link, Traversing, CallOK
    <2>4. hash' = [hash EXCEPT ![n] = op[t].hash] /\ hash[n] = NULL
      BY <1>4 DEF Link
    <2>5. /\ \A m \in Nodes : hash'[m] # NULL => hash'[m] \in ever'[s]
          /\ \A h \in stable[s] : \E m \in Nodes : hash'[m] = h
      BY <1>2, <2>1, <2>2, <2>3, <2>4 DEF VisitOK
    <2> QED
      BY <1>2, <2>1, <2>2, <2>3, <2>5 DEF VisitOK
  <1>5. ASSUME NEW s \in Threads, Unlink(t) PROVE VisitOK(s)'
    <2> SUFFICES ASSUME pc'[s] # "idle", op'[s].kind = "foreach" PROVE VisitOK(s)'
      BY DEF VisitOK
    <2>1. /\ op' = op /\ bin' = bin /\ seen' = seen /\ ever' = ever
          /\ pc[t] = "walk" /\ op[t].kind = "del" /\ pc' = [pc EXCEPT ![t] = "uncount"]
          /\ stable' = [r \in Threads |-> stable[r] \ {op[t].hash}]
      BY <1>5 DEF Unlink, Goto, Doing
    <2>2. s # t /\ pc'[s] = pc[s] /\ stable'[s] = stable[s] \ {op[t].hash}
      BY <2>1
    <2>3. item[t] \in Nodes /\ hash[item[t]] = op[t].hash
          /\ hash' = [hash EXCEPT ![item[t]] = NULL]
      BY <1>5, UnlinkFacts
    <2>4. /\ \A m \in Nodes : hash'[m] # NULL => hash'[m] \in ever[s]
          /\ \A h \in stable'[s] : \E m \in Nodes : hash'[m] = h
      BY <1>2, <2>1, <2>2, <2>3 DEF VisitOK
    <2> QED
      BY <1>2, <2>1, <2>2, <2>4 DEF VisitOK
  <1>6. ASSUME Passive(t) PROVE VisitOK(t)'
    <2>0. hash' = hash
      BY <1>6, PassiveKeeps
    <2>1. CASE CallForeach(t)
      <3>1. /\ seen'[t] = {} /\ stable'[t] = Linked /\ ever'[t] = Linked /\ bin'[t] = 0
            /\ pc'[t] = "lock"
        BY <2>1 DEF CallForeach, Begin, Goto
      <3>2. \A h \in Hashes : ~(Bin(h) < 0)
        BY BinsOfHashes DEF Bins
      <3>3. /\ \A n \in Nodes : hash[n] # NULL => hash[n] \in Linked
            /\ \A h \in Linked : h \in Hashes /\ \E n \in Nodes : hash[n] = h
        BY DEF Linked
      <3> QED
        BY <2>0, <3>1, <3>2, <3>3 DEF VisitOK
    <2>2. CASE Visit(t)
      <3>1. /\ bin' = bin /\ op' = op /\ pc' = pc /\ UNCHANGED <<stable, ever>>
            /\ pc[t] = "walk" /\ op[t].kind = "foreach"
            /\ item[t] \in Nodes /\ seen'[t] = seen[t] \cup {hash[item[t]]}
        BY <2>2 DEF Visit, Doing, Missed
      <3>2. Listed(item[t], bin[t])
        BY <1>2, <3>1 DEF WalkOK
      <3>3. hash[item[t]] \in ever[t]
        BY <1>2, <3>1, <3>2 DEF VisitOK, Listed
      <3> QED
        BY <1>2, <2>0, <3>1, <3>3 DEF VisitOK
    <2>3. CASE BinVisited(t)
      <3>1. /\ op' = op /\ UNCHANGED <<stable, ever, seen>>
            /\ pc[t] = "walk" /\ op[t].kind = "foreach" /\ item[t] = NULL
        BY <2>3 DEF BinVisited, Doing, Missed
      <3>2. ASSUME NEW h \in stable[t], Bin(h) <= bin[t] PROVE h \in seen[t]
        <4>1. CASE Bin(h) < bin[t]
          BY <1>2, <3>1, <4>1 DEF VisitOK
        <4>2. CASE Bin(h) = bin[t]
          <5>1. PICK n \in Nodes : hash[n] = h
            BY <1>2, <3>1 DEF VisitOK
          <5>2. h \in Hashes
            OBVIOUS
          <5>3. Listed(n, bin[t])
            BY <4>2, <5>1, <5>2 DEF Listed
          <5>4. CASE h \notin seen[t]
            <6>1. Reaches(next, NULL, n)
              BY <1>2, <3>1, <5>1, <5>3, <5>4 DEF WalkOK, Sought
            <6> QED
              BY <6>1, ReachNone
          <5> QED
            BY <5>4
        <4>3. Bin(h) \in Nat /\ bin[t] \in Nat
          BY BinsOfHashes DEF Bins
        <4>4. \A i, j \in Nat : i <= j => i < j \/ i = j
          OBVIOUS
        <4>5. Bin(h) < bin[t] \/ Bin(h) = bin[t]
          BY <3>2, <4>3, <4>4
        <4> QED
          BY <4>1, <4>2, <4>5
      <3>3. \A h \in stable[t] : Bin(h) \in Nat /\ Bin(h) < TableSize
        BY BinsOfHashes, TableAssumption DEF Bins
      <3>4. bin[t] \in Nat /\ TableSize \in Nat
        BY TableAssumption DEF Bins
      <3>5. CASE bin[t] + 1 < TableSize /\ bin'[t] = bin[t] + 1 /\ pc'[t] = "lock"
        BY <1>2, <2>0, <3>1, <3>2, <3>3, <3>4, <3>5 DEF VisitOK
      <3>6. CASE bin[t] + 1 = TableSize /\ bin'[t] = bin[t] /\ pc'[t] = "return"
        BY <1>2, <2>0, <3>1, <3>2, <3>3, <3>4, <3>6 DEF VisitOK
      <3> QED
        BY <2>3, <3>5, <3>6 DEF BinVisited, Goto
    <2>4. CASE Lock(t)
      <3>1. /\ UNCHANGED <<bin, op, stable, ever, seen>> /\ pc[t] = "lock" /\ pc'[t] = "walk"
        BY <2>4 DEF Lock, Goto
      <3> QED
        BY <1>2, <2>0, <3>1 DEF VisitOK
    <2>5. CASE Return(t) \/ Unlock(t)
      BY <2>5 DEF Return, Unlock, Forget, Goto, VisitOK
    <2>6. CASE CallSet(t) \/ CallOther(t)
      <3>1. op'[t].kind # "foreach"
        BY <2>6 DEF CallSet, CallOther, Begin
      <3> QED
        BY <3>1 DEF VisitOK
    <2>7. CASE \/ ReadSize(t) \/ Walk(t) \/ Replace(t) \/ SetFails(t) \/ Count(t)
               \/ GetAnswers(t) \/ Uncount(t) \/ DelMisses(t) \/ ReadBinSize(t)
      <3>1. op' = op /\ op[t].kind # "foreach"
        BY <1>2, <2>7 DEF ReadSize, Walk, Replace, SetFails, Count, GetAnswers, Uncount,
           DelMisses, ReadBinSize, Finish, Doing, CallOK
      <3> QED
        BY <3>1 DEF VisitOK
    <2> QED
      BY <1>6, <2>1, <2>2, <2>3, <2>4, <2>5, <2>6, <2>7 DEF Passive, Call
  <1> QED
    BY <1>3, <1>4, <1>5, <1>6 DEF VisitInv, Thread, Passive

LEMMA AliveStep ==
  ASSUME IInv, NEW t \in Threads, Thread(t) PROVE ~destroyed /\ destroyed' = destroyed
  <1> USE DEF IInv, EndInv
  <1>1. CASE Call(t)
    BY <1>1 DEF Call, CallSet, CallOther, CallForeach, Begin
  <1>2. CASE Passive(t) /\ ~Call(t)
    BY <1>2 DEF Passive, ReadSize, Lock, Walk, Visit, Replace, SetFails, Count, GetAnswers,
       Uncount, DelMisses, ReadBinSize, BinVisited, Unlock, Return, Forget, Finish, Doing
  <1>3. CASE (\E n \in Nodes : Link(t, n)) \/ Unlink(t)
    BY <1>3 DEF Link, Unlink, Doing
  <1> QED
    BY <1>1, <1>2, <1>3 DEF Thread, Passive

\* Only the owner of a hash's bin is about to count it, on or off.
LEMMA SoleCounter ==
  ASSUME IInv, ProtocolInv, NEW t \in Threads, pc[t] \in {"walk", "count", "uncount"},
         op[t].kind \in {"set", "get", "del"}
  PROVE  \A s \in Threads : Adding(s, op[t].hash) \/ Removing(s, op[t].hash) => s = t
  <1> SUFFICES ASSUME NEW s \in Threads, Adding(s, op[t].hash) \/ Removing(s, op[t].hash),
                      s # t
               PROVE  FALSE
    OBVIOUS
  <1>1. CallOK(s) /\ CallOK(t)
    BY DEF ProtocolInv, CallInv
  <1>2. op[s].kind \in Keyed /\ op[t].kind \in Keyed /\ Holding(s) /\ Holding(t)
    BY <1>1 DEF CallOK, Adding, Removing, Holding, Keyed
  <1> QED
    BY <1>2, OtherHash DEF Adding, Removing

\* A step moves the count by one, or moves no hash.
LEMMA CountedStep ==
  ASSUME IInv, IInv', ProtocolInv, NEW t \in Threads, Thread(t)
  PROVE  /\ Count(t) => op[t].hash \notin Counted /\ Counted' = Counted \cup {op[t].hash}
         /\ Uncount(t) => op[t].hash \in Counted /\ Counted' = Counted \ {op[t].hash}
         /\ ~Count(t) /\ ~Uncount(t) => Counted' = Counted
  <1> USE NullAssumption, NullIsNoHash DEF IInv, ProtocolInv, Types, MoreTypes
  <1>1. PICK h : h = op[t].hash
    OBVIOUS
  <1>2. Others(t) /\ CallOK(t) /\ PendingOK(t)
    BY OthersStep DEF CallInv, PendingInv
  <1>3. \A s \in Threads : \A g : s # t =>
           (Adding(s, g)' <=> Adding(s, g)) /\ (Removing(s, g)' <=> Removing(s, g))
    BY <1>2 DEF Others, Adding, Removing
  <1>4. CASE Count(t)
    <2>1. /\ Adding(t, h) /\ op[t].kind = "set" /\ h \in Hashes /\ Present(h)
          /\ hash' = hash /\ pc'[t] = "unlock"
      BY <1>1, <1>2, <1>4 DEF Count, Finish, Goto, chains, CallOK, Keyed, Adding, PendingOK,
         Present
    <2>2. \A s \in Threads : s # t => ~Adding(s, h) /\ ~Removing(s, h)
      BY <1>1, <2>1, SoleCounter DEF Adding
    <2>3. \A g : ~Adding(t, g)' /\ ~Removing(t, g)' /\ ~Removing(t, g) /\ (Adding(t, g) => g = h)
      BY <1>1, <2>1 DEF Adding, Removing
    <2>4. \A g : Present(g)' <=> Present(g)
      BY <2>1 DEF Present
    <2>5. h \notin Counted
      BY <2>1, <2>2, <2>3 DEF Counted
    <2>6. \A g \in Hashes : g \in Counted' <=> g \in Counted \/ g = h
      BY <1>3, <2>1, <2>2, <2>3, <2>4 DEF Counted
    <2> QED
      BY <1>1, <1>4, <2>1, <2>5, <2>6 DEF Counted, Count, Uncount
  <1>5. CASE Uncount(t)
    <2>1. /\ Removing(t, h) /\ op[t].kind = "del" /\ h \in Hashes /\ ~Present(h)
          /\ hash' = hash /\ pc'[t] = "unlock"
      BY <1>1, <1>2, <1>5 DEF Uncount, Finish, Goto, chains, CallOK, Keyed, Removing, PendingOK,
         Present
    <2>2. \A s \in Threads : s # t => ~Adding(s, h) /\ ~Removing(s, h)
      BY <1>1, <2>1, SoleCounter DEF Removing
    <2>3. \A g : ~Adding(t, g)' /\ ~Removing(t, g)' /\ ~Adding(t, g) /\ (Removing(t, g) => g = h)
      BY <1>1, <2>1 DEF Adding, Removing
    <2>4. \A g : Present(g)' <=> Present(g)
      BY <2>1 DEF Present
    <2>5. h \in Counted
      BY <2>1 DEF Counted
    <2>6. \A g \in Hashes : g \in Counted' <=> g \in Counted /\ g # h
      BY <1>3, <2>1, <2>2, <2>3, <2>4 DEF Counted
    <2> QED
      BY <1>1, <1>5, <2>1, <2>5, <2>6 DEF Counted, Count, Uncount
  <1>6. CASE Passive(t) /\ ~Count(t) /\ ~Uncount(t)
    <2>1. \A g : ~Adding(t, g)' /\ ~Removing(t, g)' /\ ~Adding(t, g) /\ ~Removing(t, g)
      BY <1>6 DEF Passive, Call, CallSet, CallOther, CallForeach, Begin, ReadSize, Lock, Walk,
         Visit, Replace, SetFails, GetAnswers, DelMisses, ReadBinSize, BinVisited, Unlock,
         Return, Forget, Finish, Goto, Doing, Adding, Removing
    <2>2. \A g : Present(g)' <=> Present(g)
      BY <1>6, PassiveKeeps DEF Present
    <2>3. \A g \in Hashes : g \in Counted' <=> g \in Counted
      BY <1>3, <2>1, <2>2 DEF Counted
    <2> QED
      BY <1>6, <2>3 DEF Counted
  <1>7. ASSUME NEW n \in Nodes, Link(t, n) PROVE Counted' = Counted
    <2>1. /\ pc[t] = "walk" /\ op[t].kind = "set" /\ h \in Hashes /\ ~Present(h)
          /\ hash' = [hash EXCEPT ![n] = h] /\ hash[n] = NULL /\ pc'[t] = "count" /\ op' = op
      BY <1>1, <1>7, LinkFacts DEF Link, Doing, Goto, Present
    <2>2. \A s \in Threads : s # t => ~Adding(s, h) /\ ~Removing(s, h)
      BY <1>1, <2>1, SoleCounter
    <2>3. \A g : /\ (Adding(t, g)' <=> g = h) /\ ~Removing(t, g)' /\ ~Removing(t, g)
                /\ ~Adding(t, g)
      BY <1>1, <2>1 DEF Adding, Removing
    <2>4. \A g \in Hashes : g # h => (Present(g)' <=> Present(g))
      BY <2>1 DEF Present
    <2>5. \A g \in Hashes : g \in Counted' <=> g \in Counted
      BY <1>3, <2>1, <2>2, <2>3, <2>4 DEF Counted
    <2> QED
      BY <2>5 DEF Counted
  <1>8. ASSUME Unlink(t) PROVE Counted' = Counted
    <2>1. PICK x : x = item[t]
      OBVIOUS
    <2>2. /\ pc[t] = "walk" /\ op[t].kind = "del" /\ h \in Hashes
          /\ x \in Nodes /\ hash[x] = h
          /\ hash' = [hash EXCEPT ![x] = NULL] /\ pc'[t] = "uncount" /\ op' = op
      BY <1>1, <1>8, <2>1, UnlinkFacts DEF Unlink, Doing, Goto
    <2>3. \A s \in Threads : s # t => ~Adding(s, h) /\ ~Removing(s, h)
      BY <1>1, <2>2, SoleCounter
    <2>4. \A g : /\ (Removing(t, g)' <=> g = h) /\ ~Adding(t, g)' /\ ~Removing(t, g)
                /\ ~Adding(t, g)
      BY <1>1, <2>2 DEF Adding, Removing
    <2>5. Present(h) /\ \A g \in Hashes : g # h => (Present(g)' <=> Present(g))
      BY <2>2 DEF Present
    <2>6. \A g \in Hashes : g \in Counted' <=> g \in Counted
      BY <1>3, <2>2, <2>3, <2>4, <2>5 DEF Counted
    <2> QED
      BY <2>6 DEF Counted
  <1>9. ASSUME (\E n \in Nodes : Link(t, n)) \/ Unlink(t)
        PROVE  ~Count(t) /\ ~Uncount(t)
    BY <1>9 DEF Link, Unlink, Doing, Count, Uncount
  <1> QED
    BY <1>4, <1>5, <1>6, <1>7, <1>8, <1>9 DEF Thread, Passive

LEMMA CountInvStep ==
  ASSUME IInv, IInv', ProtocolInv, NEW t \in Threads, Thread(t)
  PROVE  /\ CountInv' /\ size' \in Nat /\ bin_size' \in [Bins -> Nat]
  <1> USE NullAssumption, NullIsNoHash DEF IInv, ProtocolInv, Types, MoreTypes
  <1>1. ~destroyed /\ destroyed' = destroyed
    BY AliveStep
  <1>2. /\ IsFiniteSet(Counted) /\ size = Cardinality(Counted)
        /\ \A i \in Bins : IsFiniteSet(ListOf(i)) /\ bin_size[i] = Cardinality(ListOf(i))
    BY <1>1 DEF CountInv
  <1>3. IsFiniteSet(Counted') /\ size' = Cardinality(Counted') /\ size' \in Nat
    <2>1. CASE Count(t)
      <3>1. size' = size + 1
        BY <2>1 DEF Count
      <3>2. PICK h : h = op[t].hash
        OBVIOUS
      <3>3. h \notin Counted /\ Counted' = Counted \cup {h}
        BY <2>1, <3>2, CountedStep
      <3> QED
        BY <1>2, <3>1, <3>3, FS_AddElement, FS_CardinalityType
    <2>2. CASE Uncount(t)
      <3>1. size' = size - 1
        BY <2>2 DEF Uncount
      <3>2. PICK h : h = op[t].hash
        OBVIOUS
      <3>3. h \in Counted /\ Counted' = Counted \ {h}
        BY <2>2, <3>2, CountedStep
      <3>4. /\ IsFiniteSet(Counted \ {h})
            /\ Cardinality(Counted \ {h}) = Cardinality(Counted) - 1
        BY <1>2, <3>3, FS_RemoveElement
      <3>5. Cardinality(Counted \ {h}) \in Nat
        BY <3>4, FS_CardinalityType
      <3> QED
        BY <1>2, <3>1, <3>3, <3>4, <3>5
    <2>3. CASE ~Count(t) /\ ~Uncount(t)
      <3>1. size' = size
        BY <2>3 DEF Thread, Call, CallSet, CallOther, CallForeach, Begin, ReadSize, Lock, Walk,
           Visit, Replace, SetFails, Link, GetAnswers, Unlink, DelMisses, ReadBinSize,
           BinVisited, Unlock, Return, Forget
      <3>2. Counted' = Counted
        BY <2>3, CountedStep
      <3> QED
        BY <1>2, <3>1, <3>2
    <2> QED
      BY <2>1, <2>2, <2>3
  <1>4. /\ \A i \in Bins : IsFiniteSet(ListOf(i)') /\ bin_size'[i] = Cardinality(ListOf(i)')
        /\ bin_size' \in [Bins -> Nat]
    <2>1. CASE Passive(t)
      <3>1. bin_size' = bin_size
        BY <2>1 DEF Passive, Call, CallSet, CallOther, CallForeach, Begin, ReadSize, Lock, Walk,
           Visit, Replace, SetFails, Count, GetAnswers, Uncount, DelMisses, ReadBinSize,
           BinVisited, Unlock, Return, Forget, chains
      <3>2. \A i \in Bins : ListOf(i)' = ListOf(i)
        BY <2>1, PassiveKeeps DEF ListOf, Listed
      <3> QED
        BY <1>2, <3>1, <3>2
    <2>2. CASE \E n \in Nodes : Link(t, n)
      <3>0. PICK n \in Nodes : Link(t, n)
        BY <2>2
      <3>1. PICK b : Link(t, n) /\ b = bin[t]
        BY <3>0
      <3>2. /\ op[t].hash \in Hashes /\ b = Bin(op[t].hash) /\ b \in Bins
            /\ hash[n] = NULL /\ hash' = [hash EXCEPT ![n] = op[t].hash]
        BY <3>1, LinkFacts
      <3>3. bin_size' = [bin_size EXCEPT ![b] = @ + 1]
        BY <3>1 DEF Link
      <3>4. \A i \in Bins : i # b => ListOf(i)' = ListOf(i)
        BY <3>2 DEF ListOf, Listed
      <3>5. ListOf(b)' = ListOf(b) \cup {n} /\ n \notin ListOf(b)
        BY <3>2 DEF ListOf, Listed
      <3>6. /\ IsFiniteSet(ListOf(b)') /\ Cardinality(ListOf(b)') = Cardinality(ListOf(b)) + 1
            /\ Cardinality(ListOf(b)) \in Nat
        <4>1. IsFiniteSet(ListOf(b))
          BY <1>2, <3>2
        <4>2. /\ IsFiniteSet(ListOf(b) \cup {n})
              /\ Cardinality(ListOf(b) \cup {n}) = Cardinality(ListOf(b)) + 1
          BY <3>5, <4>1, FS_AddElement
        <4> QED
          BY <3>5, <4>1, <4>2, FS_CardinalityType
      <3> QED
        BY <1>2, <3>2, <3>3, <3>4, <3>6
    <2>3. CASE Unlink(t)
      <3>1. PICK x, b : x = item[t] /\ b = bin[t]
        OBVIOUS
      <3>2. /\ op[t].hash \in Hashes /\ b = Bin(op[t].hash) /\ b \in Bins
            /\ x \in Nodes /\ hash[x] = op[t].hash /\ hash' = [hash EXCEPT ![x] = NULL]
        BY <2>3, <3>1, UnlinkFacts
      <3>3. bin_size' = [bin_size EXCEPT ![b] = @ - 1]
        BY <2>3, <3>1 DEF Unlink
      <3>4. \A i \in Bins : i # b => ListOf(i)' = ListOf(i)
        BY <3>2 DEF ListOf, Listed
      <3>5. ListOf(b)' = ListOf(b) \ {x} /\ x \in ListOf(b)
        BY <3>2 DEF ListOf, Listed
      <3>6. /\ IsFiniteSet(ListOf(b)') /\ Cardinality(ListOf(b)') = Cardinality(ListOf(b)) - 1
            /\ Cardinality(ListOf(b)') \in Nat
        <4>1. IsFiniteSet(ListOf(b))
          BY <1>2, <3>2
        <4>2. /\ IsFiniteSet(ListOf(b) \ {x})
              /\ Cardinality(ListOf(b) \ {x}) = Cardinality(ListOf(b)) - 1
          BY <3>5, <4>1, FS_RemoveElement
        <4>3. Cardinality(ListOf(b) \ {x}) \in Nat
          BY <4>2, FS_CardinalityType
        <4> QED
          BY <3>5, <4>2, <4>3
      <3> QED
        BY <1>2, <3>2, <3>3, <3>4, <3>6
    <2> QED
      BY <2>1, <2>2, <2>3 DEF Thread, Passive
  <1> QED
    BY <1>1, <1>3, <1>4 DEF CountInv

LEMMA InitProtocolInv == Init => ProtocolInv
  <1> USE NullAssumption, NullIsNoHash, TableAssumption DEF Init
  <1>1. Init => MoreTypes
    BY DEF MoreTypes
  <1>2. Init => CallInv /\ LockInv
    BY DEF CallInv, CallOK, LockInv, Holding, Keyed
  <1>3. Init => ShapeInv
    BY DEF ShapeInv
  <1>4. Init => WalkInv /\ PendingInv /\ VisitInv
    BY DEF WalkInv, WalkOK, PendingInv, PendingOK, VisitInv, VisitOK
  <1>5. Init => Counted = {}
    BY DEF Counted, Present, Removing
  <1>6. Init => \A i \in Bins : ListOf(i) = {}
    BY DEF ListOf, Listed
  <1>7. ASSUME Init PROVE CountInv
    <2>1. size = 0 /\ \A i \in Bins : bin_size[i] = 0
      BY <1>7
    <2>2. IsFiniteSet({}) /\ Cardinality({}) = 0
      BY FS_EmptySet
    <2>3. Counted = {} /\ \A i \in Bins : ListOf(i) = {}
      BY <1>5, <1>6, <1>7
    <2> QED
      BY <2>1, <2>2, <2>3, Zenon DEF CountInv
  <1> QED
    BY <1>1, <1>2, <1>3, <1>4, <1>7 DEF ProtocolInv

LEMMA DestroyProtocolInv ==
  ASSUME IInv, IInv', ProtocolInv, Destroy PROVE ProtocolInv'
  <1> USE NullAssumption, NullIsNoHash DEF IInv, ProtocolInv
  <1>1. /\ \A t \in Threads : pc[t] = "idle"
        /\ hash' = [n \in Nodes |-> NULL]
        /\ next' = [n \in Nodes |-> NULL] /\ table' = [i \in Bins |-> NULL]
        /\ destroyed'
        /\ UNCHANGED <<bin_size, size, lock, pc, op, res, bin, gone, seen, stable, ever>>
    BY DEF Destroy, history
  <1>2. MoreTypes'
    BY <1>1 DEF MoreTypes
  <1>3. CallInv' /\ LockInv'
    BY <1>1 DEF CallInv, CallOK, LockInv, Holding
  <1>4. ShapeInv'
    BY <1>1 DEF ShapeInv
  <1>5. WalkInv' /\ PendingInv' /\ VisitInv'
    BY <1>1 DEF WalkInv, WalkOK, PendingInv, PendingOK, VisitInv, VisitOK
  <1>6. CountInv'
    BY <1>1 DEF CountInv
  <1> QED
    BY <1>2, <1>3, <1>4, <1>5, <1>6

LEMMA SameProtocolInv == ASSUME ProtocolInv, UNCHANGED vars PROVE ProtocolInv'
  <1> USE DEF ProtocolInv, vars, chains, history
  <1>1. MoreTypes' /\ CallInv' /\ LockInv'
    BY DEF MoreTypes, CallInv, CallOK, LockInv, Holding
  <1>2. ShapeInv'
    BY ShapeKept
  <1>3. WalkInv' /\ PendingInv' /\ VisitInv'
    BY DEF WalkInv, WalkOK, Sought, Listed, PendingInv, PendingOK, VisitInv, VisitOK
  <1>4. Counted' = Counted /\ \A i \in Bins : ListOf(i)' = ListOf(i)
    BY DEF Counted, Adding, Removing, Present, ListOf, Listed
  <1>5. CountInv'
    BY <1>4 DEF CountInv
  <1> QED
    BY <1>1, <1>2, <1>3, <1>5

LEMMA NextProtocolInv == IInv /\ IInv' /\ ProtocolInv /\ [Next]_vars => ProtocolInv'
  <1> SUFFICES ASSUME IInv, IInv', ProtocolInv, [Next]_vars PROVE ProtocolInv'
    OBVIOUS
  <1>1. CASE UNCHANGED vars \/ Gone
    BY <1>1, SameProtocolInv DEF Gone
  <1>2. CASE Destroy
    BY <1>2, DestroyProtocolInv
  <1>3. ASSUME NEW t \in Threads, Thread(t) PROVE ProtocolInv'
    <2>1. MoreTypes'
      BY <1>3, MoreTypesStep, HistoryStep, CountInvStep DEF MoreTypes
    <2>2. CallInv' /\ LockInv' /\ ShapeInv'
      BY <1>3, CallInvStep, LockInvStep, ShapeInvStep
    <2>3. WalkInv' /\ PendingInv' /\ VisitInv' /\ CountInv'
      BY <1>3, WalkInvStep, PendingInvStep, VisitInvStep, CountInvStep
    <2> QED
      BY <2>1, <2>2, <2>3 DEF ProtocolInv
  <1> QED
    BY <1>1, <1>2, <1>3 DEF Next

LEMMA BothInvariants == Spec => [](IInv /\ ProtocolInv)
  <1>1. IInv /\ ProtocolInv /\ [Next]_vars => (IInv /\ ProtocolInv)'
    BY NextInv, NextProtocolInv
  <1> QED
    BY <1>1, InitInv, InitProtocolInv, PTL DEF Spec

(* Every variable has its type always; in particular no counter goes below  *)
(* zero: a delete that found nothing takes nothing off, and one that waits  *)
(* to count an item off can rely on it having been counted.                 *)
THEOREM TypeCorrect == Spec => []TypeOK
  <1>1. IInv /\ ProtocolInv => TypeOK
    BY DEF IInv, Types, ProtocolInv, MoreTypes, TypeOK
  <1> QED
    BY <1>1, BothInvariants, PTL

(* Whatever threads insert, replace and delete, each chain holds exactly    *)
(* the allocated items of its bin, each once, and the bin's counter is      *)
(* their number.                                                            *)
THEOREM ChainsCorrect == Spec => []ChainsSound
  <1>1. IInv /\ ProtocolInv => ChainsSound
    <2> SUFFICES ASSUME IInv, ProtocolInv PROVE ChainsSound
      OBVIOUS
    <2> USE NullAssumption, NullIsNoHash DEF IInv, ProtocolInv, Types
    <2>1. ASSUME NEW i \in Bins PROVE Chain(i) = ListOf(i)
      <3>1. ASSUME NEW n \in Nodes, Reaches(next, table[i], n) PROVE Listed(n, i)
        <4>1. ListOf(i) \in SUBSET Nodes
          BY DEF ListOf
        <4>2. table[i] # NULL => table[i] \in ListOf(i)
          BY DEF ShapeInv, ListOf
        <4>3. \A m \in ListOf(i) : next[m] # NULL => next[m] \in ListOf(i)
          BY DEF ShapeInv, ListOf, Listed
        <4>4. n \in ListOf(i)
          BY <3>1, <4>1, <4>2, <4>3 DEF Reaches
        <4> QED
          BY <4>4 DEF ListOf
      <3>2. ASSUME NEW n \in Nodes, Listed(n, i) PROVE Reaches(next, table[i], n)
        BY <3>2 DEF ShapeInv, Listed
      <3> QED
        BY <3>1, <3>2 DEF Chain, ListOf
    <2>2. \A i \in Bins : ListOf(i) = {n \in Allocated : Bin(hash[n]) = i}
      BY DEF ListOf, Listed, Allocated
    <2>3. \A i \in Bins : ~destroyed => bin_size[i] = Cardinality(ListOf(i))
      BY DEF CountInv
    <2>4. \A m, n \in Allocated :
             /\ hash[m] = hash[n] => m = n
             /\ next[m] # NULL => next[m] \in Allocated
             /\ next[m] # NULL /\ next[m] = next[n] => m = n
      BY DEF ShapeInv, Listed, Allocated
    <2>5. \A i \in Bins, n \in Allocated : table[i] # next[n] \/ table[i] = NULL
      BY DEF ShapeInv, Allocated
    <2> QED
      BY <2>1, <2>2, <2>3, <2>4, <2>5 DEF ChainsSound
  <1> QED
    BY <1>1, BothInvariants, PTL

(* ht_foreach calls back for every hash present throughout it and for none  *)
(* that was absent throughout, whatever other threads do between its bins   *)
(* and behind its back.                                                     *)
THEOREM TraversalCorrect == Spec => []TraversalWeaklyConsistent
  <1>1. IInv /\ ProtocolInv => TraversalWeaklyConsistent
    BY DEF ProtocolInv, CallInv, CallOK, VisitInv, VisitOK, Traversing, TraversalWeaklyConsistent
  <1> QED
    BY <1>1, BothInvariants, PTL

-----------------------------------------------------------------------------
(***************************************************************************)
(* The refinement of HashMap.  Under the mapping map <- Contents an insert *)
(* of a new hash takes effect when it is added to the total, a delete when *)
(* it is taken off, and every other operation, the lock-free ht_size among *)
(* them, in the step that finds its answer.  Every step of the code is one *)
(* step of HashMap or leaves its state as it is.                           *)
(***************************************************************************)

\* The value the abstract map holds for h.
Cell(h, v) ==
    \/ v = NULL /\ \E t \in Threads : Adding(t, h)
    \/ \E t \in Threads : Removing(t, h) /\ v = gone[t]
    \/ /\ \A t \in Threads : ~Adding(t, h) /\ ~Removing(t, h)
       /\ \/ \E n \in Nodes : hash[n] = h /\ v = value[n]
          \/ v = NULL /\ ~Present(h)

LEMMA ContentsCell == \A h \in Hashes : Cell(h, Contents[h])
  <1> SUFFICES ASSUME NEW h \in Hashes PROVE Cell(h, Contents[h])
    OBVIOUS
  <1>1. /\ Holder(h, "count") = {} <=> \A t \in Threads : ~Adding(t, h)
        /\ Holder(h, "uncount") = {} <=> \A t \in Threads : ~Removing(t, h)
        /\ h \in Linked <=> Present(h)
    BY DEF Holder, Adding, Removing, Linked, Present
  <1>2. CASE Holder(h, "count") # {}
    BY <1>1, <1>2 DEF Contents, Cell
  <1>3. CASE Holder(h, "count") = {} /\ Holder(h, "uncount") # {}
    <2>1. PICK t : t = CHOOSE s \in Holder(h, "uncount") : TRUE
      OBVIOUS
    <2>2. Contents[h] = gone[t]
      BY <1>3, <2>1 DEF Contents
    <2>3. t \in Threads /\ Removing(t, h)
      BY <1>3, <2>1 DEF Holder, Removing
    <2> QED
      BY <2>2, <2>3 DEF Cell
  <1>4. CASE Holder(h, "count") = {} /\ Holder(h, "uncount") = {} /\ h \in Linked
    <2>1. PICK n : n = CHOOSE m \in Nodes : hash[m] = h
      OBVIOUS
    <2>2. Contents[h] = value[n]
      BY <1>4, <2>1 DEF Contents
    <2>3. n \in Nodes /\ hash[n] = h
      BY <1>4, <2>1 DEF Linked
    <2> QED
      BY <1>1, <1>4, <2>2, <2>3 DEF Cell
  <1>5. CASE Holder(h, "count") = {} /\ Holder(h, "uncount") = {} /\ h \notin Linked
    BY <1>1, <1>5 DEF Contents, Cell
  <1> QED
    BY <1>2, <1>3, <1>4, <1>5

LEMMA CellUnique ==
  IInv /\ ProtocolInv => \A h \in Hashes : \A v, w : Cell(h, v) /\ Cell(h, w) => v = w
  <1> SUFFICES ASSUME IInv, ProtocolInv, NEW h \in Hashes PROVE \A v, w : Cell(h, v) /\ Cell(h, w) => v = w
    OBVIOUS
  <1>1. ASSUME NEW t \in Threads, Adding(t, h) \/ Removing(t, h)
        PROVE  \A s \in Threads : Adding(s, h) \/ Removing(s, h) => s = t
    <2>1. op[t].kind \in Keyed /\ pc[t] \in {"count", "uncount"} /\ op[t].hash = h
      BY <1>1 DEF Adding, Removing, ProtocolInv, CallInv, CallOK, Keyed
    <2> QED
      BY <2>1, SoleCounter DEF Keyed
  <1>2. \A t \in Threads : ~(Adding(t, h) /\ Removing(t, h))
    BY DEF Adding, Removing
  <1>3. \A m, n \in Nodes : hash[m] = h /\ hash[n] = h => m = n
    BY NullIsNoHash DEF ProtocolInv, ShapeInv
  <1> QED
    BY <1>1, <1>2, <1>3 DEF Cell, Present

LEMMA ContentsIs ==
  IInv /\ ProtocolInv => \A h \in Hashes : \A v : Cell(h, v) => Contents[h] = v
  BY ContentsCell, CellUnique

\* The same of the next state.
LEMMA ContentsCellNext == (\A h \in Hashes : Cell(h, Contents[h]))'
  BY ContentsCell, PTL

LEMMA ContentsIsNext ==
  (IInv /\ ProtocolInv => \A h \in Hashes : \A v : Cell(h, v) => Contents[h] = v)'
  BY ContentsIs, PTL

LEMMA ContentsBoth ==
  ASSUME IInv, ProtocolInv, IInv', ProtocolInv', NEW h \in Hashes, NEW v
  PROVE  /\ Cell(h, v) <=> Contents[h] = v
         /\ Cell(h, v)' <=> Contents'[h] = v
  <1>1. Cell(h, v)' => Contents'[h] = v
    BY ContentsIsNext
  <1>2. Contents'[h] = v => Cell(h, v)'
    BY ContentsCellNext
  <1> QED
    BY <1>1, <1>2, ContentsIs, ContentsCell


\* The steps that change the cell of their hash: all others are Still.
Stirring(t) == \/ Replace(t) \/ Count(t) \/ Uncount(t)
               \/ (\E n \in Nodes : Link(t, n)) \/ Unlink(t)

LEMMA CellKept ==
  ASSUME IInv, IInv', ProtocolInv, ProtocolInv', NEW t \in Threads, Thread(t), NEW g \in Hashes,
         Stirring(t) => g # op[t].hash
  PROVE  Contents'[g] = Contents[g]
  <1> USE NullAssumption, NullIsNoHash DEF IInv, ProtocolInv, Types, MoreTypes
  <1>1. Others(t)
    BY OthersStep
  <1>2. \A s \in Threads : s # t =>
           (Adding(s, g)' <=> Adding(s, g)) /\ (Removing(s, g)' <=> Removing(s, g))
           /\ gone'[s] = gone[s]
    BY <1>1 DEF Others, Adding, Removing
  <1>3. /\ ~Adding(t, g) /\ ~Adding(t, g)' /\ ~Removing(t, g) /\ ~Removing(t, g)'
        /\ \A n \in Nodes : /\ hash'[n] = g <=> hash[n] = g
                            /\ hash[n] = g => value'[n] = value[n]
    <2>1. CASE Passive(t) /\ ~Stirring(t)
      BY <2>1 DEF Passive, Stirring, Call, CallSet, CallOther, CallForeach, Begin, ReadSize, Lock,
         Walk, Visit, SetFails, GetAnswers, DelMisses, ReadBinSize, BinVisited, Unlock, Return,
         Forget, Finish, Goto, Doing, Adding, Removing, chains
    <2>2. CASE Replace(t)
      <3>1. g # op[t].hash
        BY <2>2 DEF Stirring
      <3> QED
        BY <2>2, <3>1 DEF Replace, Finish, Goto, Doing, Found, Adding, Removing
    <2>3. CASE Count(t) \/ Uncount(t)
      <3>1. g # op[t].hash
        BY <2>3 DEF Stirring
      <3> QED
        BY <2>3, <3>1 DEF Count, Uncount, Finish, Goto, Adding, Removing, chains
    <2>4. CASE \E n \in Nodes : Link(t, n)
      <3>1. g # op[t].hash
        BY <2>4 DEF Stirring
      <3>2. PICK n \in Nodes : Link(t, n)
        BY <2>4
      <3> QED
        BY <3>1, <3>2 DEF Link, Goto, Doing, Adding, Removing
    <2>5. CASE Unlink(t)
      <3>1. g # op[t].hash
        BY <2>5 DEF Stirring
      <3> QED
        BY <2>5, <3>1 DEF Unlink, Goto, Doing, Found, Adding, Removing
    <2> QED
      BY <2>1, <2>2, <2>3, <2>4, <2>5 DEF Thread, Passive, Stirring
  <1>4. \A v : Cell(g, v) => Cell(g, v)'
    BY <1>2, <1>3 DEF Cell, Present
  <1> QED
    BY <1>4, ContentsBoth

\* What the map holds for the hash a step is about.
LEMMA CellOfStep ==
  ASSUME IInv, IInv', ProtocolInv, ProtocolInv', NEW t \in Threads, Thread(t)
  PROVE  /\ (Doing(t, "set") \/ Doing(t, "get") \/ Doing(t, "del")) =>
               /\ op[t].hash \in Hashes
               /\ Missed(t) => Contents[op[t].hash] = NULL
               /\ Found(t) => Contents[op[t].hash] = value[item[t]] /\ value[item[t]] \in Values
         /\ Replace(t) \/ Count(t) => /\ op[t].hash \in Hashes
                                      /\ Contents'[op[t].hash] = op[t].value
         /\ Uncount(t) => /\ op[t].hash \in Hashes /\ Contents[op[t].hash] # NULL
                          /\ Contents'[op[t].hash] = NULL
         /\ Unlink(t) \/ (\E n \in Nodes : Link(t, n)) =>
               op[t].hash \in Hashes /\ Contents'[op[t].hash] = Contents[op[t].hash]
  <1> USE NullAssumption, NullIsNoHash DEF IInv, ProtocolInv, Types, MoreTypes
  <1>1. PICK h, x : h = op[t].hash /\ x = item[t]
    OBVIOUS
  <1>2. Others(t) /\ CallOK(t) /\ PendingOK(t) /\ WalkOK(t)
    BY OthersStep DEF CallInv, PendingInv, WalkInv
  <1>3. \A s \in Threads : s # t =>
           (Adding(s, h)' <=> Adding(s, h)) /\ (Removing(s, h)' <=> Removing(s, h))
    BY <1>2 DEF Others, Adding, Removing
  <1>4. ASSUME pc[t] \in {"walk", "count", "uncount"}, op[t].kind \in Keyed
        PROVE  /\ h \in Hashes
               /\ \A s \in Threads : s # t =>
                     ~Adding(s, h) /\ ~Removing(s, h) /\ ~Adding(s, h)' /\ ~Removing(s, h)'
    <2>1. \A s \in Threads : s # t => ~Adding(s, h) /\ ~Removing(s, h)
      BY <1>1, <1>4, SoleCounter DEF Keyed
    <2> QED
      BY <1>1, <1>2, <1>3, <1>4, <2>1 DEF CallOK, Adding, Removing
  <1>5. ASSUME Doing(t, "set") \/ Doing(t, "get") \/ Doing(t, "del")
        PROVE  /\ h \in Hashes
               /\ Missed(t) => Contents[h] = NULL
               /\ Found(t) => Contents[h] = value[x] /\ value[x] \in Values
    <2>1. pc[t] = "walk" /\ op[t].kind \in Keyed
      BY <1>5 DEF Doing, Keyed
    <2>2. h \in Hashes /\ \A s \in Threads : ~Adding(s, h) /\ ~Removing(s, h)
      BY <1>4, <2>1 DEF Adding, Removing
    <2>3. CASE Missed(t)
      <3>1. ASSUME NEW n \in Nodes, hash[n] = h PROVE FALSE
        <4>1. Listed(n, bin[t]) /\ hash[n] \in Sought(t)
          BY <1>1, <1>2, <2>1, <2>2, <3>1 DEF Listed, Sought, CallOK, Keyed
        <4>2. Reaches(next, NULL, n)
          BY <1>2, <2>1, <2>3, <4>1 DEF WalkOK, Missed, Keyed
        <4> QED
          BY <4>2, ReachNone
      <3>2. Cell(h, NULL)
        BY <2>2, <3>1 DEF Cell, Present
      <3> QED
        BY <2>2, <2>3, <3>2, ContentsBoth DEF Missed, Found
    <2>4. CASE Found(t)
      <3>1. x \in Nodes /\ hash[x] = h
        BY <1>1, <2>4 DEF Found
      <3>2. PICK v : v = value[x]
        OBVIOUS
      <3>3. Cell(h, v)
        BY <2>2, <3>1, <3>2 DEF Cell
      <3>4. Contents[h] = v /\ v \in Values
        BY <2>2, <3>1, <3>2, <3>3, ContentsBoth, StoredIsValue
      <3> QED
        BY <2>2, <2>4, <3>2, <3>4 DEF Missed, Found
    <2> QED
      BY <2>2, <2>3, <2>4
  <1>6. ASSUME Replace(t) PROVE h \in Hashes /\ Contents'[h] = op[t].value
    <2>1. PICK v : v = op[t].value
      OBVIOUS
    <2>2. /\ pc[t] = "walk" /\ op[t].kind = "set" /\ x \in Nodes /\ hash[x] = h
          /\ hash' = hash /\ value' = [value EXCEPT ![x] = v] /\ pc'[t] = "unlock"
      BY <1>1, <1>6, <2>1 DEF Replace, Doing, Found, Finish, Goto
    <2>3. h \in Hashes /\ \A s \in Threads : ~Adding(s, h)' /\ ~Removing(s, h)'
      BY <1>4, <2>2 DEF Keyed, Adding, Removing
    <2>4. Cell(h, v)'
      BY <2>2, <2>3 DEF Cell
    <2> QED
      BY <2>1, <2>3, <2>4, ContentsBoth
  <1>7. ASSUME Count(t) PROVE h \in Hashes /\ Contents'[h] = op[t].value
    <2>1. PICK v : v = op[t].value
      OBVIOUS
    <2>2. /\ pc[t] = "count" /\ op[t].kind = "set" /\ pc'[t] = "unlock"
          /\ UNCHANGED <<hash, value>>
      BY <1>2, <1>7 DEF Count, Finish, Goto, chains, CallOK
    <2>3. h \in Hashes /\ \A s \in Threads : ~Adding(s, h)' /\ ~Removing(s, h)'
      BY <1>4, <2>2 DEF Keyed, Adding, Removing
    <2>4. \E n \in Nodes : hash[n] = h /\ value[n] = v
      BY <1>1, <1>2, <2>1, <2>2 DEF PendingOK
    <2>5. Cell(h, v)'
      BY <2>2, <2>3, <2>4 DEF Cell
    <2> QED
      BY <2>1, <2>3, <2>5, ContentsBoth
  <1>8. ASSUME Uncount(t)
        PROVE  h \in Hashes /\ Contents[h] # NULL /\ Contents'[h] = NULL
    <2>1. PICK v : v = gone[t]
      OBVIOUS
    <2>2. /\ pc[t] = "uncount" /\ op[t].kind = "del" /\ pc'[t] = "unlock"
          /\ hash' = hash
      BY <1>2, <1>8 DEF Uncount, Finish, Goto, chains, CallOK
    <2>3. h \in Hashes /\ \A s \in Threads : ~Adding(s, h)' /\ ~Removing(s, h)'
      BY <1>4, <2>2 DEF Keyed, Adding, Removing
    <2>4. v # NULL /\ \A n \in Nodes : hash[n] # h
      BY <1>1, <1>2, <2>1, <2>2 DEF PendingOK
    <2>5. Cell(h, v) /\ Cell(h, NULL)'
      BY <1>1, <2>1, <2>2, <2>3, <2>4 DEF Cell, Removing, Present
    <2> QED
      BY <2>3, <2>4, <2>5, ContentsBoth
  <1>9. ASSUME Unlink(t) PROVE h \in Hashes /\ Contents'[h] = Contents[h]
    <2>1. PICK v : v = value[x]
      OBVIOUS
    <2>2. /\ pc[t] = "walk" /\ op[t].kind = "del" /\ x \in Nodes /\ hash[x] = h
          /\ op' = op /\ gone'[t] = v /\ pc'[t] = "uncount"
      BY <1>1, <1>9, <2>1 DEF Unlink, Doing, Found, Goto
    <2>3. Contents[h] = v
      BY <1>1, <1>5, <1>9, <2>1 DEF Unlink
    <2>4. Cell(h, v)'
      BY <1>1, <2>2 DEF Cell, Removing
    <2> QED
      BY <1>4, <2>2, <2>3, <2>4, ContentsBoth DEF Keyed
  <1>10. ASSUME NEW n \in Nodes, Link(t, n) PROVE h \in Hashes /\ Contents'[h] = Contents[h]
    <2>1. /\ pc[t] = "walk" /\ op[t].kind = "set" /\ op' = op /\ pc'[t] = "count"
      BY <1>10 DEF Link, Doing, Goto
    <2>2. Contents[h] = NULL
      BY <1>5, <1>10 DEF Link
    <2>3. Cell(h, NULL)'
      BY <1>1, <2>1 DEF Cell, Adding
    <2> QED
      BY <1>4, <2>1, <2>2, <2>3, ContentsBoth DEF Keyed
  <1> QED
    BY <1>1, <1>5, <1>6, <1>7, <1>8, <1>9, <1>10

\* The abstract map has a value for the counted hashes, so that the counters agree.
LEMMA MappedIsCounted ==
  ASSUME IInv, ProtocolInv
  PROVE  {h \in Hashes : Contents[h] # NULL} = Counted
  <1> USE NullAssumption, NullIsNoHash DEF IInv, ProtocolInv, Types, MoreTypes
  <1> SUFFICES ASSUME NEW h \in Hashes PROVE Contents[h] # NULL <=> h \in Counted
    BY DEF Counted
  <1>1. Cell(h, Contents[h])
    BY ContentsCell
  <1>2. ASSUME NEW t \in Threads, Adding(t, h) PROVE h \notin Counted
    <2>1. op[t].kind = "set" /\ pc[t] = "count" /\ op[t].hash = h
      BY <1>2 DEF Adding, CallInv, CallOK
    <2>2. \A s \in Threads : ~Removing(s, h)
      BY <2>1, SoleCounter DEF Adding, Removing
    <2> QED
      BY <1>2, <2>2 DEF Counted
  <1>3. ASSUME NEW t \in Threads, Removing(t, h) PROVE gone[t] # NULL
    BY <1>3 DEF PendingInv, PendingOK, Removing
  <1>4. \A n \in Nodes : hash[n] = h => value[n] # NULL
    BY StoredIsValue
  <1> QED
    BY <1>1, <1>2, <1>3, <1>4 DEF Cell, Counted, Present

LEMMA SameCardinality == \A S : Abstract!Cardinality(S) = Cardinality(S)
  BY DEF Abstract!Cardinality, Cardinality

LEMMA BinCounted ==
  ASSUME IInv, ProtocolInv, NEW t \in Threads, Doing(t, "bin_size")
  PROVE  Cardinality({h \in Hashes : Contents[h] # NULL /\ Bin(h) = bin[t]}) = bin_size[bin[t]]
  <1> USE NullAssumption, NullIsNoHash DEF IInv, ProtocolInv, Types, MoreTypes
  <1>1. PICK i : i = bin[t]
    OBVIOUS
  <1>2. pc[t] = "walk" /\ i \in Bins
    BY <1>1 DEF Doing
  <1>3. ASSUME NEW s \in Threads, NEW h \in Hashes, Bin(h) = i,
               Adding(s, h) \/ Removing(s, h)
        PROVE  FALSE
    <2>1. CallOK(s) /\ Holding(s) /\ Holding(t) /\ s # t
      BY <1>2, <1>3 DEF CallInv, Adding, Removing, Holding
    <2>2. bin[s] = Bin(h)
      BY <1>3, <2>1 DEF CallOK, Adding, Removing, Keyed
    <2> QED
      BY <1>1, <1>3, <2>1, <2>2, Exclusive
  <1>4. ASSUME NEW h \in Hashes, Bin(h) = i PROVE Contents[h] # NULL <=> Present(h)
    <2>1. Contents[h] # NULL <=> h \in Counted
      BY MappedIsCounted
    <2> QED
      BY <1>3, <1>4, <2>1 DEF Counted
  <1> DEFINE M == {h \in Hashes : Contents[h] # NULL /\ Bin(h) = i}
             f == [n \in ListOf(i) |-> hash[n]]
  <1>5. \A n \in ListOf(i) : hash[n] \in M
    BY <1>4 DEF ListOf, Listed, Present
  <1>6. \A h \in M : \E n \in ListOf(i) : hash[n] = h
    BY <1>4 DEF ListOf, Listed, Present
  <1>7. \A m, n \in ListOf(i) : hash[m] = hash[n] => m = n
    BY DEF ListOf, Listed, ShapeInv
  <1> HIDE DEF M
  <1>8. f \in Bijection(ListOf(i), M)
    <2>1. f \in [ListOf(i) -> M]
      BY <1>5
    <2>2. \A m, n \in ListOf(i) : f[m] = f[n] => m = n
      BY <1>7
    <2>3. \A h \in M : \E n \in ListOf(i) : f[n] = h
      BY <1>6
    <2> HIDE DEF f
    <2> QED
      BY <2>1, <2>2, <2>3, Fun_IsBij
  <1>9. ExistsBijection(ListOf(i), M)
    BY <1>8 DEF ExistsBijection
  <1>10. ~destroyed
    BY <1>2 DEF EndInv
  <1>11. IsFiniteSet(ListOf(i)) /\ bin_size[i] = Cardinality(ListOf(i))
    BY <1>2, <1>10 DEF CountInv
  <1>12. Cardinality(M) = bin_size[i]
    BY <1>9, <1>11, FS_Bijection
  <1> QED
    BY <1>1, <1>12 DEF M

LEMMA ContentsIsFunction ==
  /\ Contents = [h \in Hashes |-> Contents[h]]
  /\ Contents' = [h \in Hashes |-> Contents'[h]]
  BY DEF Contents

LEMMA AbstractInit == Init => Abstract!Init
  <1> SUFFICES ASSUME Init PROVE Abstract!Init
    OBVIOUS
  <1>1. IInv /\ ProtocolInv
    BY InitInv, InitProtocolInv
  <1>2. ASSUME NEW h \in Hashes PROVE Contents[h] = NULL
    <2>1. Cell(h, NULL)
      BY NullIsNoHash DEF Init, Cell, Adding, Removing, Present
    <2> QED
      BY <1>1, <2>1, ContentsIs
  <1>3. Contents = [h \in Hashes |-> NULL]
    BY <1>2, ContentsIsFunction
  <1> QED
    BY <1>3 DEF Init, Abstract!Init

\* Steps of the code inside an operation are invisible.
LEMMA SilentStep ==
  ASSUME IInv, IInv', ProtocolInv, ProtocolInv', NEW t \in Threads, Thread(t), UNCHANGED <<op, res>>,
         ~Replace(t), ~Count(t), ~Uncount(t)
  PROVE  UNCHANGED Abstract!vars
  <1>1. \A h \in Hashes : Contents'[h] = Contents[h]
    BY CellKept, CellOfStep DEF Stirring
  <1>2. Contents' = Contents
    BY <1>1, ContentsIsFunction
  <1> QED
    BY <1>2 DEF Abstract!vars

\* An answer that leaves the map as it is.
LEMMA SameMap ==
  ASSUME IInv, IInv', ProtocolInv, ProtocolInv', NEW t \in Threads, Thread(t), ~Stirring(t)
  PROVE  Contents' = Contents
  <1>1. \A h \in Hashes : Contents'[h] = Contents[h]
    BY CellKept
  <1> QED
    BY <1>1, ContentsIsFunction

\* An answer that changes it for one hash.
LEMMA NewCell ==
  ASSUME IInv, IInv', ProtocolInv, ProtocolInv', NEW t \in Threads, Thread(t),
         op[t].hash \in Hashes, NEW v, Contents'[op[t].hash] = v
  PROVE  Contents' = [Contents EXCEPT ![op[t].hash] = v]
  <1>1. PICK h : h = op[t].hash
    OBVIOUS
  <1>2. \A g \in Hashes : g # h => Contents'[g] = Contents[g]
    BY <1>1, CellKept
  <1> QED
    BY <1>1, <1>2, ContentsIsFunction

LEMMA CallAbstract ==
  ASSUME IInv, IInv', ProtocolInv, ProtocolInv', NEW t \in Threads, Call(t) PROVE Abstract!Call(t)
  <1> USE DEF IInv, ProtocolInv, Types, MoreTypes
  <1>1. op[t] = NULL /\ res' = res
    BY DEF Call, CallSet, CallOther, CallForeach, Begin, CallInv, CallOK
  <1>2. Contents' = Contents
    BY SameMap DEF Thread, Stirring, Call, Replace, Count, Uncount, Link, Unlink, Doing
  <1>3. \E o \in Abstract!Ops : op' = [op EXCEPT ![t] = o]
    <2>1. CASE CallSet(t)
      <3>1. PICK h \in Hashes, v \in Values :
               op' = [op EXCEPT ![t] = [kind |-> "set", hash |-> h, value |-> v]]
        BY <2>1 DEF CallSet, Begin
      <3>2. [kind |-> "set", hash |-> h, value |-> v] \in Abstract!Ops
        BY DEF Abstract!Ops
      <3> QED
        BY <3>1, <3>2
    <2>2. ASSUME NEW h \in Hashes, NEW k \in {"get", "del"},
                 Begin(t, [kind |-> k, hash |-> h], "lock", Bin(h))
          PROVE  \E o \in Abstract!Ops : op' = [op EXCEPT ![t] = o]
      <3>1. [kind |-> k, hash |-> h] \in Abstract!Ops
        BY DEF Abstract!Ops
      <3> QED
        BY <2>2, <3>1 DEF Begin
    <2>3. ASSUME NEW i \in Bins, Begin(t, [kind |-> "bin_size", bin |-> i], "lock", i)
          PROVE  \E o \in Abstract!Ops : op' = [op EXCEPT ![t] = o]
      <3>1. [kind |-> "bin_size", bin |-> i] \in Abstract!Ops
        BY DEF Abstract!Ops, Bins
      <3> QED
        BY <2>3, <3>1 DEF Begin
    <2>4. CASE Begin(t, [kind |-> "size"], "size", 0) \/ CallForeach(t)
      <3>1. [kind |-> "size"] \in Abstract!Ops /\ [kind |-> "foreach"] \in Abstract!Ops
        BY DEF Abstract!Ops
      <3> QED
        BY <2>4, <3>1 DEF Begin, CallForeach
    <2> QED
      BY <2>1, <2>2, <2>3, <2>4 DEF Call, CallOther
  <1> QED
    BY <1>1, <1>2, <1>3 DEF Abstract!Call

LEMMA AbstractStep ==
  ASSUME IInv, IInv', ProtocolInv, ProtocolInv', NEW t \in Threads, Thread(t)
  PROVE  \/ Abstract!Call(t) \/ Abstract!Set(t) \/ Abstract!Get(t) \/ Abstract!Del(t)
         \/ Abstract!Size(t) \/ Abstract!BinSize(t) \/ Abstract!Foreach(t)
         \/ Abstract!Return(t) \/ UNCHANGED Abstract!vars
  <1>1. CallOK(t) /\ DOMAIN res = Threads
    BY DEF ProtocolInv, CallInv, MoreTypes
  <1>2. ASSUME NEW k, Doing(t, k) PROVE Abstract!Pending(t, k)
    BY <1>1, <1>2 DEF Doing, CallOK, Abstract!Pending
  <1>3. \A r : res' = [res EXCEPT ![t] = r] /\ op' = op => Abstract!Answer(t, r)
    BY DEF Abstract!Answer
  <1>4. CASE Lock(t) \/ Walk(t) \/ Visit(t) \/ (\E n \in Nodes : Link(t, n)) \/ Unlink(t)
    <2>1. UNCHANGED <<op, res>> /\ ~Replace(t) /\ ~Count(t) /\ ~Uncount(t)
      <3>1. CASE Lock(t)
        BY <3>1 DEF Lock, Replace, Count, Uncount, Doing
      <3>2. CASE Walk(t)
        BY <3>2 DEF Walk, Replace, Count, Uncount, Doing
      <3>3. CASE Visit(t)
        BY <3>3 DEF Visit, Replace, Count, Uncount, Doing
      <3>4. CASE (\E n \in Nodes : Link(t, n)) \/ Unlink(t)
        BY <3>4 DEF Link, Unlink, Replace, Count, Uncount, Doing, Missed, Found
      <3> QED
        BY <1>4, <3>1, <3>2, <3>3, <3>4
    <2> QED
      BY <2>1, SilentStep
  <1>5. CASE Call(t)
    BY <1>5, CallAbstract
  <1>6. CASE ReadSize(t)
    <2>1. res' = [res EXCEPT ![t] = size] /\ op' = op /\ pc[t] = "size"
      BY <1>6 DEF ReadSize
    <2>2. Abstract!Pending(t, "size")
      BY <1>1, <2>1 DEF CallOK, Abstract!Pending
    <2>3. Contents' = Contents
      BY <2>1, SameMap DEF Stirring, Replace, Count, Uncount, Link, Unlink, Doing
    <2>4. size = Cardinality(Counted)
      BY AliveStep DEF ProtocolInv, CountInv
    <2>5. Abstract!Mapped = Counted
      BY MappedIsCounted DEF Abstract!Mapped
    <2>6. Abstract!Answer(t, Cardinality(Abstract!Mapped))
      BY <2>1, <2>4, <2>5 DEF Abstract!Answer
    <2>7. Abstract!Size(t)
      BY <2>2, <2>3, <2>6, SameCardinality DEF Abstract!Size
    <2> QED
      BY <2>7
  <1>7. CASE Replace(t) \/ Count(t)
    <2>1. res' = [res EXCEPT ![t] = "ok"] /\ op' = op
      BY <1>7 DEF Replace, Count, Finish
    <2>2. Abstract!Pending(t, "set")
      BY <1>1, <1>2, <1>7 DEF Replace, Count, CallOK, Abstract!Pending
    <2>3. Contents' = [Contents EXCEPT ![op[t].hash] = op[t].value]
      BY <1>7, CellOfStep, NewCell
    <2>4. Abstract!Set(t)
      BY <1>3, <2>1, <2>2, <2>3 DEF Abstract!Set
    <2> QED
      BY <2>4
  <1>8. CASE SetFails(t)
    <2>1. res' = [res EXCEPT ![t] = "err"] /\ op' = op /\ Doing(t, "set") /\ Missed(t)
      BY <1>8 DEF SetFails, Finish
    <2>2. Contents[op[t].hash] = NULL
      BY <2>1, CellOfStep
    <2>3. ~Stirring(t)
      BY <1>8, <2>1 DEF SetFails, Stirring, Replace, Count, Uncount, Link, Unlink, Doing, Found,
         Missed, Finish, Goto, IInv, Types
    <2>4. Contents' = Contents
      BY <2>3, SameMap
    <2>5. Abstract!Set(t)
      BY <1>2, <1>3, <2>1, <2>2, <2>4 DEF Abstract!Set
    <2> QED
      BY <2>5
  <1>9. CASE GetAnswers(t)
    <2>1. Doing(t, "get") /\ op' = op
      BY <1>9 DEF GetAnswers, Finish
    <2>2. Contents' = Contents
      BY <2>1, SameMap DEF Stirring, Replace, Count, Uncount, Link, Unlink, Doing
    <2>3. CASE Found(t) /\ res' = [res EXCEPT ![t] = value[item[t]]]
      <3>1. Contents[op[t].hash] = value[item[t]] /\ value[item[t]] # NULL
        BY <2>1, <2>3, CellOfStep, NullAssumption
      <3>2. Abstract!Get(t)
        BY <1>2, <1>3, <2>1, <2>2, <2>3, <3>1 DEF Abstract!Get
      <3> QED
        BY <3>2
    <2>4. CASE Missed(t) /\ res' = [res EXCEPT ![t] = "not_found"]
      <3>1. Contents[op[t].hash] = NULL
        BY <2>1, <2>4, CellOfStep
      <3>2. Abstract!Get(t)
        BY <1>2, <1>3, <2>1, <2>2, <2>4, <3>1 DEF Abstract!Get
      <3> QED
        BY <3>2
    <2> QED
      BY <1>9, <2>3, <2>4 DEF GetAnswers, Finish
  <1>10. CASE Uncount(t)
    <2>1. res' = [res EXCEPT ![t] = "ok"] /\ op' = op
      BY <1>10 DEF Uncount, Finish
    <2>2. Abstract!Pending(t, "del")
      BY <1>1, <1>10 DEF Uncount, CallOK, Abstract!Pending
    <2>3. Contents[op[t].hash] # NULL
      BY <1>10, CellOfStep
    <2>4. Contents' = [Contents EXCEPT ![op[t].hash] = NULL]
      BY <1>10, CellOfStep, NewCell
    <2>5. Abstract!Del(t)
      BY <1>3, <2>1, <2>2, <2>3, <2>4 DEF Abstract!Del
    <2> QED
      BY <2>5
  <1>11. CASE DelMisses(t)
    <2>1. /\ res' = [res EXCEPT ![t] = "not_found"] /\ op' = op /\ Doing(t, "del") /\ Missed(t)
      BY <1>11 DEF DelMisses, Finish
    <2>2. op[t].hash \in Hashes /\ Contents[op[t].hash] = NULL
      BY <2>1, CellOfStep
    <2>3. ~Stirring(t)
      BY <2>1 DEF Stirring, Replace, Count, Uncount, Link, Unlink, Doing, Found, Missed
    <2>4. Contents' = Contents
      BY <2>3, SameMap
    <2>5. Contents' = [Contents EXCEPT ![op[t].hash] = NULL]
      BY <2>2, <2>4, NewCell
    <2>6. Abstract!Del(t)
      BY <1>2, <1>3, <2>1, <2>2, <2>5 DEF Abstract!Del
    <2> QED
      BY <2>6
  <1>12. CASE ReadBinSize(t)
    <2>1. /\ res' = [res EXCEPT ![t] = bin_size[bin[t]]] /\ op' = op /\ Doing(t, "bin_size")
      BY <1>12 DEF ReadBinSize, Finish
    <2>2. Contents' = Contents
      BY <2>1, SameMap DEF Stirring, Replace, Count, Uncount, Link, Unlink, Doing
    <2>3. op[t].bin = bin[t]
      BY <1>1, <2>1 DEF CallOK, Doing
    <2>4. {h \in Abstract!Mapped : Abstract!Bin(h) = op[t].bin}
             = {h \in Hashes : Contents[h] # NULL /\ Bin(h) = bin[t]}
      BY <2>3 DEF Abstract!Mapped, Abstract!Bin, Bin
    <2>5. Cardinality({h \in Abstract!Mapped : Abstract!Bin(h) = op[t].bin}) = bin_size[bin[t]]
      BY <2>1, <2>4, BinCounted
    <2>6. Abstract!Answer(t, Cardinality({h \in Abstract!Mapped : Abstract!Bin(h) = op[t].bin}))
      BY <2>1, <2>5 DEF Abstract!Answer
    <2>7. Abstract!BinSize(t)
      BY <1>2, <2>1, <2>2, <2>6, SameCardinality DEF Abstract!BinSize
    <2> QED
      BY <2>7
  <1>13. CASE BinVisited(t)
    <2>1. op' = op /\ Doing(t, "foreach")
      BY <1>13 DEF BinVisited
    <2>2. Contents' = Contents
      BY <2>1, SameMap DEF Stirring, Replace, Count, Uncount, Link, Unlink, Doing
    <2>3. CASE res' = res
      BY <2>1, <2>2, <2>3 DEF Abstract!vars
    <2>4. CASE res' = [res EXCEPT ![t] = "ok"]
      <3>1. Abstract!Foreach(t)
        BY <1>2, <1>3, <2>1, <2>2, <2>4 DEF Abstract!Foreach
      <3> QED
        BY <3>1
    <2> QED
      BY <1>13, <2>3, <2>4 DEF BinVisited
  <1>14. CASE Unlock(t) \/ Return(t)
    <2>1. /\ op' = [op EXCEPT ![t] = NULL] /\ res' = [res EXCEPT ![t] = NULL]
          /\ pc[t] \in {"unlock", "return"}
      BY <1>14 DEF Unlock, Return, Forget
    <2>2. op[t] # NULL /\ res[t] # NULL
      BY <1>1, <2>1 DEF CallOK
    <2>3. Contents' = Contents
      BY <2>1, SameMap DEF Stirring, Replace, Count, Uncount, Link, Unlink, Doing
    <2>4. Abstract!Return(t)
      BY <2>1, <2>2, <2>3 DEF Abstract!Return
    <2> QED
      BY <2>4
  <1> QED
    BY <1>4, <1>5, <1>6, <1>7, <1>8, <1>9, <1>10, <1>11, <1>12, <1>13, <1>14 DEF Thread

LEMMA AbstractDestroy ==
  ASSUME IInv, IInv', ProtocolInv, ProtocolInv', Destroy PROVE Abstract!Destroy
  <1>1. /\ \A t \in Threads : pc[t] = "idle"
        /\ hash' = [n \in Nodes |-> NULL] /\ UNCHANGED <<pc, op, res>>
    BY DEF Destroy
  <1>2. \A t \in Threads : op[t] = NULL
    BY <1>1 DEF ProtocolInv, CallInv, CallOK
  <1>3. ASSUME NEW h \in Hashes PROVE Contents'[h] = NULL
    <2>1. Cell(h, NULL)'
      BY <1>1, NullIsNoHash DEF Cell, Adding, Removing, Present
    <2> QED
      BY <2>1, ContentsBoth
  <1>4. Contents' = [h \in Hashes |-> NULL]
    BY <1>3, ContentsIsFunction
  <1> QED
    BY <1>1, <1>2, <1>4 DEF Abstract!Destroy

LEMMA AbstractNext ==
  IInv /\ IInv' /\ ProtocolInv /\ ProtocolInv' /\ [Next]_vars => [Abstract!Next]_Abstract!vars
  <1> SUFFICES ASSUME IInv, IInv', ProtocolInv, ProtocolInv', [Next]_vars
               PROVE  [Abstract!Next]_Abstract!vars
    OBVIOUS
  <1>1. CASE UNCHANGED vars \/ Gone
    <2>1. UNCHANGED <<pc, op, res, hash, value, gone>>
      BY <1>1 DEF vars, chains, Gone
    <2>2. \A h \in Hashes : \A v : Cell(h, v)' <=> Cell(h, v)
      BY <2>1 DEF Cell, Adding, Removing, Present
    <2>3. \A h \in Hashes : Contents'[h] = Contents[h]
      BY <2>2, ContentsBoth
    <2>4. Contents' = Contents
      BY <2>3, ContentsIsFunction
    <2> QED
      BY <2>1, <2>4 DEF Abstract!vars
  <1>2. CASE Destroy
    BY <1>2, AbstractDestroy DEF Abstract!Next
  <1>3. ASSUME NEW t \in Threads, Thread(t) PROVE [Abstract!Next]_Abstract!vars
    BY <1>3, AbstractStep DEF Abstract!Next
  <1> QED
    BY <1>1, <1>2, <1>3 DEF Next

(* Every operation but the traversal is linearizable, for any threads,      *)
(* hashes, bins and addresses: the behaviours of the table, seen through    *)
(* calls, answers and Contents, are behaviours of HashMap.                  *)
THEOREM LinearizabilityCorrect == Spec => Linearizable
  <1>1. IInv /\ ProtocolInv /\ (IInv /\ ProtocolInv)' /\ [Next]_vars => [Abstract!Next]_Abstract!vars
    BY AbstractNext
  <1> QED
    BY <1>1, AbstractInit, BothInvariants, PTL DEF Spec, Linearizable, Abstract!Spec
=============================================================================
