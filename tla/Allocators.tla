------------------------------ MODULE Allocators ------------------------------
(***************************************************************************)
(* The debug build's allocators.c: zalloc, zrealloc and zfree around the C *)
(* heap and the registry g_alloc_ht, which alloc_dump_summary reports as   *)
(* the currently allocated memory.  The heap and the registry change in    *)
(* separate steps, and the threads run at any speed between them.  One     *)
(* call on the registry is one step (ConcurrentHashtable is linearizable). *)
(***************************************************************************)
EXTENDS Naturals

CONSTANTS
    Threads,
    Addrs,      \* the addresses the heap may return
    Sizes,      \* the sizes callers ask for
    CanFail,    \* whether realloc and the registry's own calloc may fail
    NULL

ASSUME SizesAssumption == Sizes \subseteq Nat \ {0}
ASSUME NullAssumption  == NULL \notin Addrs
ASSUME FailAssumption  == CanFail \in BOOLEAN

VARIABLES
    heap,       \* the size of the block at each address, 0 if there is none
    reg,        \* the size registered for each address, 0 if there is none
    own,        \* the blocks each thread holds and may resize or release
    pc, old, new, len,   \* each thread's place in its call, p, v and size
    excused     \* blocks without an entry that a failure or a race explains

locals == <<pc, old, new, len>>
vars   == <<heap, reg, own, locals, excused>>

Init ==
    /\ heap = [p \in Addrs |-> 0] /\ reg = [p \in Addrs |-> 0]
    /\ own = [t \in Threads |-> {}]
    /\ pc = [t \in Threads |-> "idle"]
    /\ old = [t \in Threads |-> NULL] /\ new = [t \in Threads |-> NULL]
    /\ len = [t \in Threads |-> 0]
    /\ excused = {}

\* Thread t goes on to l, with p the block it gives up and v the one it gets.
Step(t, l, p, v, n) ==
    /\ pc'  = [pc EXCEPT ![t] = l]
    /\ old' = [old EXCEPT ![t] = p]
    /\ new' = [new EXCEPT ![t] = v]
    /\ len' = [len EXCEPT ![t] = n]

Done(t) == Step(t, "idle", NULL, NULL, 0)

\* malloc and memset; the entry is still to come.  zrealloc(NULL, n) does the
\* same: the entry of NULL that it deletes first does not exist.
Zalloc(t, v, n) ==
    /\ pc[t] = "idle" /\ heap[v] = 0
    /\ heap' = [heap EXCEPT ![v] = n]
    /\ Step(t, "set", NULL, v, n)
    /\ UNCHANGED <<reg, own, excused>>

\* malloc finds no room: the caller gets NULL and nothing is registered.
ZallocFails(t) ==
    /\ pc[t] = "idle" /\ \A v \in Addrs : heap[v] # 0
    /\ UNCHANGED vars

\* realloc keeps the block where it is: p = v, the old entry is not deleted.
ReallocInPlace(t, p, n) ==
    /\ pc[t] = "idle" /\ p \in own[t]
    /\ heap' = [heap EXCEPT ![p] = n]
    /\ own' = [own EXCEPT ![t] = @ \ {p}]
    /\ Step(t, "set", p, p, n)
    /\ UNCHANGED <<reg, excused>>

\* realloc moves it: p is free from here on, its entry is deleted later.
ReallocMoves(t, p, v, n) ==
    /\ pc[t] = "idle" /\ p \in own[t] /\ heap[v] = 0
    /\ heap' = [heap EXCEPT ![p] = 0, ![v] = n]
    /\ own' = [own EXCEPT ![t] = @ \ {p}]
    /\ excused' = excused \ {p}
    /\ Step(t, "del", p, v, n)
    /\ UNCHANGED reg

\* Resizing to 0 releases p and returns NULL.
ReallocToZero(t, p) ==
    /\ pc[t] = "idle" /\ p \in own[t]
    /\ heap' = [heap EXCEPT ![p] = 0]
    /\ own' = [own EXCEPT ![t] = @ \ {p}]
    /\ excused' = excused \ {p}
    /\ Step(t, "del", p, NULL, 0)
    /\ UNCHANGED reg

\* realloc fails: p is still allocated, but NULL # p, so its entry goes too,
\* and the caller (da_realloc) stores the NULL over its pointer.
ReallocFails(t, p) ==
    /\ CanFail /\ pc[t] = "idle" /\ p \in own[t]
    /\ own' = [own EXCEPT ![t] = @ \ {p}]
    /\ excused' = excused \cup {p}
    /\ Step(t, "del", p, NULL, 0)
    /\ UNCHANGED <<heap, reg>>

\* Mutant of DelInfo: realloc's result is registered even if it is NULL.
DelInfoUnchecked(t) ==
    /\ pc[t] = "del"
    /\ reg' = [reg EXCEPT ![old[t]] = 0]
    /\ excused' = IF heap[old[t]] = 0 THEN excused ELSE excused \cup {old[t]}
    /\ Step(t, "set", old[t], new[t], len[t])
    /\ UNCHANGED <<heap, own>>

\* Mutant of DelInfo: a block that moved is not registered.
DelInfoOnly(t) ==
    /\ pc[t] = "del"
    /\ reg' = [reg EXCEPT ![old[t]] = 0]
    /\ excused' = IF heap[old[t]] = 0 THEN excused ELSE excused \cup {old[t]}
    /\ Done(t)
    /\ UNCHANGED <<heap, own>>

\* alloc_del_info(p) in zrealloc, whatever is at p by now.
DelInfo(t) ==
    /\ pc[t] = "del"
    /\ reg' = [reg EXCEPT ![old[t]] = 0]
    /\ excused' = IF heap[old[t]] = 0 THEN excused ELSE excused \cup {old[t]}
    /\ \/ new[t] = NULL /\ Done(t)
       \/ new[t] # NULL /\ Step(t, "set", old[t], new[t], len[t])
    /\ UNCHANGED <<heap, own>>

\* Mutant of SetInfo: an entry that is there is not replaced.
SetInfoIfAbsent(t) ==
    /\ pc[t] = "set"
    /\ reg' = IF reg[new[t]] = 0 THEN [reg EXCEPT ![new[t]] = len[t]] ELSE reg
    /\ excused' = excused \ {new[t]}
    /\ own' = [own EXCEPT ![t] = @ \cup {new[t]}]
    /\ Done(t)
    /\ UNCHANGED heap

\* alloc_set_info(v, size, size): replaces an entry or adds one.
SetInfo(t) ==
    /\ pc[t] = "set"
    /\ reg' = [reg EXCEPT ![new[t]] = len[t]]
    /\ excused' = excused \ {new[t]}
    /\ own' = [own EXCEPT ![t] = @ \cup {new[t]}]
    /\ Done(t)
    /\ UNCHANGED heap

\* Adding fails in ht_set; the caller gets its block all the same.
SetInfoFails(t) ==
    /\ CanFail /\ pc[t] = "set" /\ reg[new[t]] = 0
    /\ excused' = excused \cup {new[t]}
    /\ own' = [own EXCEPT ![t] = @ \cup {new[t]}]
    /\ Done(t)
    /\ UNCHANGED <<heap, reg>>

\* Mutant of ZfreeDelInfo: the entry stays.
ZfreeKeepsInfo(t, p) ==
    /\ pc[t] = "idle" /\ p \in own[t]
    /\ own' = [own EXCEPT ![t] = @ \ {p}]
    /\ Step(t, "free", p, NULL, 0)
    /\ UNCHANGED <<heap, reg, excused>>

\* zfree deletes the entry first and releases the block after.
ZfreeDelInfo(t, p) ==
    /\ pc[t] = "idle" /\ p \in own[t]
    /\ reg' = [reg EXCEPT ![p] = 0]
    /\ own' = [own EXCEPT ![t] = @ \ {p}]
    /\ Step(t, "free", p, NULL, 0)
    /\ UNCHANGED <<heap, excused>>

ZfreeRelease(t) ==
    /\ pc[t] = "free"
    /\ heap' = [heap EXCEPT ![old[t]] = 0]
    /\ excused' = excused \ {old[t]}
    /\ Done(t)
    /\ UNCHANGED <<reg, own>>

Thread(t) ==
    \/ \E v \in Addrs, n \in Sizes : Zalloc(t, v, n)
    \/ \E p \in Addrs, n \in Sizes : ReallocInPlace(t, p, n)
    \/ \E p, v \in Addrs, n \in Sizes : ReallocMoves(t, p, v, n)
    \/ \E p \in Addrs : \/ ReallocToZero(t, p) \/ ReallocFails(t, p)
                        \/ ZfreeDelInfo(t, p)
    \/ ZallocFails(t) \/ DelInfo(t) \/ SetInfo(t) \/ SetInfoFails(t) \/ ZfreeRelease(t)

Next == \E t \in Threads : Thread(t)

Spec == Init /\ [][Next]_vars

-----------------------------------------------------------------------------
TypeOK ==
    /\ heap \in [Addrs -> Nat] /\ reg \in [Addrs -> Nat]
    /\ own \in [Threads -> SUBSET Addrs]
    /\ pc \in [Threads -> {"idle", "set", "del", "free"}]
    /\ old \in [Threads -> Addrs \cup {NULL}]
    /\ new \in [Threads -> Addrs \cup {NULL}]
    /\ len \in [Threads -> Nat]
    /\ excused \subseteq Addrs

\* Thread t is about to set, or to delete in zrealloc, the entry of p.
Acquiring(t, p) == pc[t] \in {"set", "del"} /\ new[t] = p
Deleting(t, p)  == pc[t] = "del" /\ old[t] = p
Releasing(t, p) == pc[t] = "free" /\ old[t] = p

(* The registry never reports memory that was given back: an entry without *)
(* a block is one that a zrealloc under way is about to delete.            *)
NoPhantom ==
    \A p \in Addrs : reg[p] # 0 /\ heap[p] = 0 => \E t \in Threads : Deleting(t, p)

(* A block that no call is working on has the entry of its own size, never *)
(* that of the block that had its address before.                          *)
SizesAgree ==
    \A p \in Addrs :
        reg[p] # 0 /\ heap[p] # 0 /\ reg[p] # heap[p] =>
            \E t \in Threads : Acquiring(t, p)

(* A block is missing from the registry only while its call is under way,  *)
(* after a failure, or when another thread's zrealloc deleted its entry.   *)
AccountedUnlessExcused ==
    \A p \in Addrs :
        heap[p] # 0 /\ reg[p] = 0 =>
            \/ p \in excused
            \/ \E t \in Threads : Acquiring(t, p) \/ Releasing(t, p)

(* What alloc_dump_summary reports as the currently allocated memory: when *)
(* no call is under way, every allocated block is registered.              *)
RegistryCoversLive ==
    (\A t \in Threads : pc[t] = "idle") => \A p \in Addrs : heap[p] # 0 => reg[p] # 0
=============================================================================
