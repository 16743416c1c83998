------------------------------- MODULE HashMap -------------------------------
(***************************************************************************)
(* What concurrent_hashtable.c promises its callers: a map from hashes to  *)
(* values on which every operation but the traversal takes effect at one   *)
(* instant between its call and its return, the exact size included.       *)
(***************************************************************************)
EXTENDS Naturals, FiniteSets

CONSTANTS Threads, Hashes, Values, TableSize, NULL

VARIABLES
    map,   \* the value stored for each hash, NULL for none
    op,    \* the operation each thread is in, NULL for none
    res    \* what its last operation answered, NULL until it is known

vars == <<map, op, res>>

Bin(h) == h % TableSize

Ops == [kind : {"set"}, hash : Hashes, value : Values]
       \cup [kind : {"get", "del"}, hash : Hashes]
       \cup [kind : {"size", "foreach"}]
       \cup [kind : {"bin_size"}, bin : 0..TableSize - 1]

Mapped == {h \in Hashes : map[h] # NULL}

Init ==
    /\ map = [h \in Hashes |-> NULL]
    /\ op = [t \in Threads |-> NULL]
    /\ res = [t \in Threads |-> NULL]

Call(t) ==
    /\ op[t] = NULL
    /\ \E o \in Ops : op' = [op EXCEPT ![t] = o]
    /\ UNCHANGED <<map, res>>

Pending(t, kind) == op[t] # NULL /\ op[t].kind = kind /\ res[t] = NULL
Answer(t, r)     == res' = [res EXCEPT ![t] = r] /\ UNCHANGED op

Set(t) ==
    /\ Pending(t, "set")
    /\ \/ Answer(t, "ok") /\ map' = [map EXCEPT ![op[t].hash] = op[t].value]
       \/ Answer(t, "err") /\ map[op[t].hash] = NULL /\ UNCHANGED map

Get(t) ==
    /\ Pending(t, "get")
    /\ Answer(t, IF map[op[t].hash] = NULL THEN "not_found" ELSE map[op[t].hash])
    /\ UNCHANGED map

Del(t) ==
    /\ Pending(t, "del")
    /\ Answer(t, IF map[op[t].hash] = NULL THEN "not_found" ELSE "ok")
    /\ map' = [map EXCEPT ![op[t].hash] = NULL]

Size(t) ==
    /\ Pending(t, "size")
    /\ Answer(t, Cardinality(Mapped))
    /\ UNCHANGED map

BinSize(t) ==
    /\ Pending(t, "bin_size")
    /\ Answer(t, Cardinality({h \in Mapped : Bin(h) = op[t].bin}))
    /\ UNCHANGED map

\* The traversal sees the bins one after the other: no single instant.
Foreach(t) ==
    /\ Pending(t, "foreach")
    /\ Answer(t, "ok")
    /\ UNCHANGED map

Return(t) ==
    /\ op[t] # NULL /\ res[t] # NULL
    /\ op' = [op EXCEPT ![t] = NULL] /\ res' = [res EXCEPT ![t] = NULL]
    /\ UNCHANGED map

Destroy ==
    /\ \A t \in Threads : op[t] = NULL
    /\ map' = [h \in Hashes |-> NULL]
    /\ UNCHANGED <<op, res>>

Next ==
    \/ Destroy
    \/ \E t \in Threads :
          \/ Call(t) \/ Set(t) \/ Get(t) \/ Del(t) \/ Size(t) \/ BinSize(t)
          \/ Foreach(t) \/ Return(t)

Spec == Init /\ [][Next]_vars
=============================================================================
