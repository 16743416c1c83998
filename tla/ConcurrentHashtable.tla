------------------------- MODULE ConcurrentHashtable -------------------------
(***************************************************************************)
(* concurrent_hashtable.c: a table of chains, a spinlock and a counter per *)
(* bin, and one atomic count of all elements that ht_size reads without a  *)
(* lock.  Chains are kept as the code keeps them, by head and next         *)
(* pointers; an item is found by its hash alone.  Each value handed to     *)
(* ht_set is a block of its own that the table must release in the end;    *)
(* the key shares the fate of its item.                                    *)
(***************************************************************************)
EXTENDS Naturals, FiniteSets

CONSTANTS
    Threads, Hashes, TableSize,
    Traversers,   \* the threads that call ht_foreach
    Nodes,    \* the addresses calloc may return for an item
    Values,   \* the blocks callers may pass as values
    MaxFailures,  \* bound on the calls of calloc that fail
    NULL

ASSUME TableAssumption == TableSize \in Nat \ {0} /\ Hashes \subseteq Nat
ASSUME NullAssumption  ==
    NULL \notin Nodes \cup Values \cup Nat \cup Threads \cup {"ok", "err", "not_found"}

VARIABLES
    table, bin_size, size,     \* ht->table, ht->bin_size, ht->size
    next, hash, value,         \* the fields of each item; hash is NULL if free
    lock,                      \* the owner of each bin's lock
    pc, op, res,               \* each thread's place, operation and answer
    bin, prev, item,           \* its local variables
    live,                      \* the value blocks allocated and not released
    lost,                      \* those left to nobody by a failed ht_set
    gone,                      \* the value a delete has unlinked, not yet counted
    seen, stable, ever,        \* of a traversal: the hashes it called back for,
                               \* those present all along, those present at some time
    destroyed

chains  == <<table, bin_size, next, hash, value>>
history == <<seen, stable, ever>>
vars == <<chains, size, lock, pc, op, res, bin, prev, item, live, lost, gone,
          history, destroyed>>

Bins == 0..TableSize - 1
Bin(h) == h % TableSize

Linked == {h \in Hashes : \E n \in Nodes : hash[n] = h}

PCs == {"idle", "size", "lock", "walk", "count", "uncount", "unlock", "return"}

Init ==
    /\ table = [i \in Bins |-> NULL] /\ bin_size = [i \in Bins |-> 0] /\ size = 0
    /\ next = [n \in Nodes |-> NULL]
    /\ hash = [n \in Nodes |-> NULL]
    /\ value = [n \in Nodes |-> NULL]
    /\ lock = [i \in Bins |-> NULL]
    /\ pc = [t \in Threads |-> "idle"]
    /\ op = [t \in Threads |-> NULL] /\ res = [t \in Threads |-> NULL]
    /\ bin = [t \in Threads |-> 0]
    /\ prev = [t \in Threads |-> NULL] /\ item = [t \in Threads |-> NULL]
    /\ live = {} /\ lost = {}
    /\ gone = [t \in Threads |-> NULL]
    /\ seen = [t \in Threads |-> {}]
    /\ stable = [t \in Threads |-> {}] /\ ever = [t \in Threads |-> {}]
    /\ destroyed = FALSE

-----------------------------------------------------------------------------
Traversing(t) == op[t] # NULL /\ op[t].kind = "foreach"

Goto(t, l) == pc' = [pc EXCEPT ![t] = l]

\* A finished walk: the item of this hash, or NULL at the end of the chain.
Found(t)  == item[t] # NULL /\ hash[item[t]] = op[t].hash
Missed(t) == item[t] = NULL
Doing(t, kind) == pc[t] = "walk" /\ op[t].kind = kind

Begin(t, o, l, i) ==
    /\ op' = [op EXCEPT ![t] = o]
    /\ bin' = [bin EXCEPT ![t] = i]
    /\ Goto(t, l)
    /\ UNCHANGED <<chains, size, lock, res, prev, item, lost, gone, destroyed>>

CallSet(t) == \E h \in Hashes, v \in Values \ live :
    /\ Begin(t, [kind |-> "set", hash |-> h, value |-> v], "lock", Bin(h))
    /\ live' = live \cup {v}
    /\ UNCHANGED history

CallOther(t) == /\ \/ \E h \in Hashes, k \in {"get", "del"} :
                         Begin(t, [kind |-> k, hash |-> h], "lock", Bin(h))
                   \/ \E i \in Bins : Begin(t, [kind |-> "bin_size", bin |-> i], "lock", i)
                   \/ Begin(t, [kind |-> "size"], "size", 0)
                /\ UNCHANGED <<live, history>>

CallForeach(t) ==
    /\ Begin(t, [kind |-> "foreach"], "lock", 0)
    /\ seen' = [seen EXCEPT ![t] = {}]
    /\ stable' = [stable EXCEPT ![t] = Linked] /\ ever' = [ever EXCEPT ![t] = Linked]
    /\ UNCHANGED live

Call(t) == /\ ~destroyed /\ pc[t] = "idle"
           /\ CallSet(t) \/ CallOther(t) \/ (t \in Traversers /\ CallForeach(t))

\* atomic_load, without any lock.
ReadSize(t) ==
    /\ pc[t] = "size"
    /\ res' = [res EXCEPT ![t] = size]
    /\ Goto(t, "return")
    /\ UNCHANGED <<chains, size, lock, op, bin, prev, item, live, lost, gone,
                   history, destroyed>>

Lock(t) ==
    /\ pc[t] = "lock" /\ lock[bin[t]] = NULL
    /\ lock' = [lock EXCEPT ![bin[t]] = t]
    /\ item' = [item EXCEPT ![t] = table[bin[t]]] /\ prev' = [prev EXCEPT ![t] = NULL]
    /\ Goto(t, "walk")
    /\ UNCHANGED <<chains, size, op, res, bin, live, lost, gone, history, destroyed>>

Walk(t) ==
    /\ pc[t] = "walk" /\ op[t].kind \in {"set", "get", "del"}
    /\ ~Found(t) /\ ~Missed(t)
    /\ prev' = [prev EXCEPT ![t] = item[t]]
    /\ item' = [item EXCEPT ![t] = next[item[t]]]
    /\ UNCHANGED <<chains, size, lock, pc, op, res, bin, live, lost, gone,
                   history, destroyed>>

Visit(t) ==
    /\ Doing(t, "foreach") /\ ~Missed(t)
    /\ seen' = [seen EXCEPT ![t] = @ \cup {hash[item[t]]}]
    /\ item' = [item EXCEPT ![t] = next[item[t]]]
    /\ UNCHANGED <<chains, size, lock, pc, op, res, bin, prev, live, lost, gone,
                   stable, ever, destroyed>>

\* Leave the walk with an answer; the lock is still held.
Finish(t, r) ==
    /\ res' = [res EXCEPT ![t] = r]
    /\ Goto(t, "unlock")
    /\ UNCHANGED <<lock, op, bin, prev, item, history, destroyed>>

\* Mutant of Replace: the old value is not released.
ReplaceLeaks(t) ==
    /\ Doing(t, "set") /\ Found(t)
    /\ value' = [value EXCEPT ![item[t]] = op[t].value]
    /\ Finish(t, "ok")
    /\ UNCHANGED <<table, bin_size, next, hash, size, live, lost, gone>>

Replace(t) ==
    /\ Doing(t, "set") /\ Found(t)
    /\ live' = live \ {value[item[t]]}
    /\ value' = [value EXCEPT ![item[t]] = op[t].value]
    /\ Finish(t, "ok")
    /\ UNCHANGED <<table, bin_size, next, hash, size, lost, gone>>

\* calloc fails: the key and the value stay with nobody.
SetFails(t) ==
    /\ Doing(t, "set") /\ Missed(t) /\ Cardinality(lost) < MaxFailures
    /\ lost' = lost \cup {op[t].value}
    /\ Finish(t, "err")
    /\ UNCHANGED <<chains, size, live, gone>>

Link(t, n) ==
    /\ Doing(t, "set") /\ Missed(t)
    /\ hash[n] = NULL
    /\ hash' = [hash EXCEPT ![n] = op[t].hash]
    /\ value' = [value EXCEPT ![n] = op[t].value]
    /\ \/ prev[t] # NULL /\ next' = [next EXCEPT ![prev[t]] = n] /\ UNCHANGED table
       \/ prev[t] = NULL /\ table' = [table EXCEPT ![bin[t]] = n] /\ UNCHANGED next
    /\ bin_size' = [bin_size EXCEPT ![bin[t]] = @ + 1]
    /\ ever' = [s \in Threads |-> IF Traversing(s) THEN ever[s] \cup {op[t].hash} ELSE {}]
    /\ Goto(t, "count")
    /\ UNCHANGED <<size, lock, op, res, bin, prev, item, live, lost, gone, seen,
                   stable, destroyed>>

\* Mutant of Count: a new item is not counted.
CountForgotten(t) ==
    /\ pc[t] = "count"
    /\ Finish(t, "ok")
    /\ UNCHANGED <<chains, size, live, lost, gone>>

Count(t) ==
    /\ pc[t] = "count"
    /\ size' = size + 1
    /\ Finish(t, "ok")
    /\ UNCHANGED <<chains, live, lost, gone>>

GetAnswers(t) ==
    /\ Doing(t, "get")
    /\ \/ Found(t)  /\ Finish(t, value[item[t]])
       \/ Missed(t) /\ Finish(t, "not_found")
    /\ UNCHANGED <<chains, size, live, lost, gone>>

\* Mutant of Unlink: deleting the head drops the rest of the chain.
UnlinkDropsRest(t) ==
    /\ Doing(t, "del") /\ Found(t)
    /\ LET i == item[t]
           after == [next EXCEPT ![i] = NULL]
       IN  /\ \/ /\ prev[t] # NULL
                 /\ next' = [after EXCEPT ![prev[t]] = next[i]]
                 /\ UNCHANGED table
              \/ /\ prev[t] = NULL
                 /\ table' = [table EXCEPT ![bin[t]] = NULL]
                 /\ next' = after
           /\ hash' = [hash EXCEPT ![i] = NULL]
           /\ value' = [value EXCEPT ![i] = NULL]
           /\ live' = live \ {value[i]}
           /\ gone' = [gone EXCEPT ![t] = value[i]]
    /\ bin_size' = [bin_size EXCEPT ![bin[t]] = @ - 1]
    /\ stable' = [s \in Threads |-> stable[s] \ {op[t].hash}]
    /\ Goto(t, "uncount")
    /\ UNCHANGED <<size, lock, op, res, bin, prev, item, lost, seen, ever, destroyed>>

\* The item leaves the chain; its key and value are released with it.
Unlink(t) ==
    /\ Doing(t, "del") /\ Found(t)
    /\ LET i == item[t]
           after == [next EXCEPT ![i] = NULL]
       IN  /\ \/ /\ prev[t] # NULL
                 /\ next' = [after EXCEPT ![prev[t]] = next[i]]
                 /\ UNCHANGED table
              \/ /\ prev[t] = NULL
                 /\ table' = [table EXCEPT ![bin[t]] = next[i]]
                 /\ next' = after
           /\ hash' = [hash EXCEPT ![i] = NULL]
           /\ value' = [value EXCEPT ![i] = NULL]
           /\ live' = live \ {value[i]}
           /\ gone' = [gone EXCEPT ![t] = value[i]]
    /\ bin_size' = [bin_size EXCEPT ![bin[t]] = @ - 1]
    /\ stable' = [s \in Threads |-> stable[s] \ {op[t].hash}]
    /\ Goto(t, "uncount")
    /\ UNCHANGED <<size, lock, op, res, bin, prev, item, lost, seen, ever, destroyed>>

Uncount(t) ==
    /\ pc[t] = "uncount"
    /\ size' = size - 1
    /\ gone' = [gone EXCEPT ![t] = NULL]
    /\ Finish(t, "ok")
    /\ UNCHANGED <<chains, live, lost>>

\* Mutant of DelMisses: a hash that is not there is counted off all the same.
DelMissesUncounts(t) ==
    /\ Doing(t, "del") /\ Missed(t)
    /\ size' = size - 1
    /\ Finish(t, "not_found")
    /\ UNCHANGED <<chains, live, lost, gone>>

DelMisses(t) ==
    /\ Doing(t, "del") /\ Missed(t)
    /\ Finish(t, "not_found")
    /\ UNCHANGED <<chains, size, live, lost, gone>>

ReadBinSize(t) ==
    /\ Doing(t, "bin_size")
    /\ Finish(t, bin_size[bin[t]])
    /\ UNCHANGED <<chains, size, live, lost, gone>>

\* Mutant of BinVisited: the last bin is left out.
BinVisitedButLast(t) ==
    /\ Doing(t, "foreach") /\ Missed(t)
    /\ lock' = [lock EXCEPT ![bin[t]] = NULL]
    /\ \/ /\ bin[t] + 2 < TableSize
          /\ bin' = [bin EXCEPT ![t] = @ + 1] /\ Goto(t, "lock") /\ UNCHANGED res
       \/ /\ bin[t] + 2 >= TableSize
          /\ res' = [res EXCEPT ![t] = "ok"] /\ Goto(t, "return") /\ UNCHANGED bin
    /\ UNCHANGED <<chains, size, op, prev, item, live, lost, gone, history, destroyed>>

\* The traversal goes on to the next bin, and answers after the last.
BinVisited(t) ==
    /\ Doing(t, "foreach") /\ Missed(t)
    /\ lock' = [lock EXCEPT ![bin[t]] = NULL]
    /\ \/ /\ bin[t] + 1 < TableSize
          /\ bin' = [bin EXCEPT ![t] = @ + 1] /\ Goto(t, "lock") /\ UNCHANGED res
       \/ /\ bin[t] + 1 = TableSize
          /\ res' = [res EXCEPT ![t] = "ok"] /\ Goto(t, "return") /\ UNCHANGED bin
    /\ UNCHANGED <<chains, size, op, prev, item, live, lost, gone, history, destroyed>>

\* Back in the caller the local variables are gone.
Forget(t) ==
    /\ op' = [op EXCEPT ![t] = NULL] /\ res' = [res EXCEPT ![t] = NULL]
    /\ bin' = [bin EXCEPT ![t] = 0]
    /\ prev' = [prev EXCEPT ![t] = NULL] /\ item' = [item EXCEPT ![t] = NULL]
    /\ Goto(t, "idle")
    /\ UNCHANGED <<chains, size, live, lost, gone, destroyed>>

Unlock(t) ==
    /\ pc[t] = "unlock"
    /\ lock' = [lock EXCEPT ![bin[t]] = NULL]
    /\ Forget(t) /\ UNCHANGED history

\* From the operations that end without a lock: ht_size and ht_foreach.
Return(t) ==
    /\ pc[t] = "return"
    /\ seen' = [seen EXCEPT ![t] = {}]
    /\ stable' = [stable EXCEPT ![t] = {}] /\ ever' = [ever EXCEPT ![t] = {}]
    /\ Forget(t) /\ UNCHANGED lock

\* ht_destroy takes no lock: main calls it when the other threads are gone.
Destroy ==
    /\ ~destroyed /\ \A t \in Threads : pc[t] = "idle"
    /\ destroyed' = TRUE
    /\ live' = live \ {value[n] : n \in {m \in Nodes : hash[m] # NULL}}
    /\ table' = [i \in Bins |-> NULL]
    /\ next' = [n \in Nodes |-> NULL]
    /\ hash' = [n \in Nodes |-> NULL] /\ value' = [n \in Nodes |-> NULL]
    /\ UNCHANGED <<bin_size, size, lock, pc, op, res, bin, prev, item, lost, gone, history>>

Gone == destroyed /\ UNCHANGED vars

Thread(t) ==
    \/ Call(t) \/ ReadSize(t) \/ Lock(t) \/ Walk(t) \/ Visit(t) \/ Replace(t)
    \/ SetFails(t) \/ (\E n \in Nodes : Link(t, n)) \/ Count(t) \/ GetAnswers(t) \/ Unlink(t)
    \/ Uncount(t) \/ DelMisses(t) \/ ReadBinSize(t) \/ BinVisited(t)
    \/ Unlock(t) \/ Return(t)

Next == (\E t \in Threads : Thread(t)) \/ Destroy \/ Gone

Spec == Init /\ [][Next]_vars

-----------------------------------------------------------------------------
TypeOK ==
    /\ table \in [Bins -> Nodes \cup {NULL}]
    /\ bin_size \in [Bins -> Nat] /\ size \in Nat
    /\ next \in [Nodes -> Nodes \cup {NULL}]
    /\ hash \in [Nodes -> Hashes \cup {NULL}]
    /\ value \in [Nodes -> Values \cup {NULL}]
    /\ lock \in [Bins -> Threads \cup {NULL}]
    /\ pc \in [Threads -> PCs] /\ bin \in [Threads -> Bins]
    /\ prev \in [Threads -> Nodes \cup {NULL}]
    /\ item \in [Threads -> Nodes \cup {NULL}]
    /\ live \subseteq Values /\ lost \subseteq Values
    /\ gone \in [Threads -> Values \cup {NULL}]
    /\ \A t \in Threads : seen[t] \cup stable[t] \cup ever[t] \subseteq Hashes
    /\ destroyed \in BOOLEAN

Allocated == {n \in Nodes : hash[n] # NULL}

\* n is met on the way from x along the pointers nx: it is in every set that
\* holds x and is closed under nx.
Reaches(nx, x, n) ==
    \A S \in SUBSET Nodes :
        (x # NULL => x \in S) /\ (\A m \in S : nx[m] # NULL => nx[m] \in S) => n \in S

\* The items of a chain.
Chain(i) == {n \in Nodes : Reaches(next, table[i], n)}

(* Whatever threads insert and delete, in whichever of the four positions, *)
(* each chain holds exactly the allocated items of its bin, no hash twice, *)
(* no pointer leads to a released item or back into the chain, and the     *)
(* bin's counter agrees.                                                   *)
ChainsSound ==
    /\ \A i \in Bins : ~destroyed =>
          /\ Chain(i) = {n \in Allocated : Bin(hash[n]) = i}
          /\ bin_size[i] = Cardinality(Chain(i))
    /\ \A m, n \in Allocated :
          /\ hash[m] = hash[n] => m = n
          /\ next[m] # NULL => next[m] \in Allocated
          /\ next[m] # NULL /\ next[m] = next[n] => m = n
    /\ \A i \in Bins, n \in Allocated : table[i] # next[n] \/ table[i] = NULL

InHand(t) == IF pc[t] \in {"lock", "walk"} /\ op[t].kind = "set" THEN {op[t].value} ELSE {}
Stored == {value[n] : n \in Allocated}

(* A value block is released exactly once: while it is allocated it is     *)
(* either with the caller of ht_set, or in one item, or lost by a failed   *)
(* ht_set, and after ht_destroy only lost ones remain.                     *)
ReleasedOnce ==
    /\ live = Stored \cup lost \cup UNION {InHand(t) : t \in Threads}
    /\ \A m, n \in Allocated : value[m] = value[n] => m = n
    /\ Stored \cap lost = {}
    /\ \A t \in Threads : InHand(t) \cap (Stored \cup lost) = {}
    /\ destroyed => live = lost

(* A traversal running against inserts and deletes calls back for every    *)
(* hash present throughout it and for none that was absent throughout.     *)
TraversalWeaklyConsistent ==
    \A t \in Threads :
        Traversing(t) =>
            /\ seen[t] \subseteq ever[t]
            /\ pc[t] = "return" => stable[t] \subseteq seen[t]

Holder(h, kind) == {t \in Threads : pc[t] = kind /\ op[t].hash = h}

\* An insert takes effect when it is counted, a delete too.
Contents == [h \in Hashes |->
    IF Holder(h, "count") # {} THEN NULL
    ELSE IF Holder(h, "uncount") # {} THEN gone[CHOOSE t \in Holder(h, "uncount") : TRUE]
    ELSE IF h \in Linked THEN value[CHOOSE n \in Nodes : hash[n] = h]
    ELSE NULL]

Abstract == INSTANCE HashMap WITH map <- Contents

ASSUME CallAssumption == NULL \notin Abstract!Ops

(* Every operation but the traversal is linearizable, the lock-free size   *)
(* included.                                                               *)
Linearizable == Abstract!Spec
=============================================================================
