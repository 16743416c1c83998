------------------------------ MODULE DebugLocks ------------------------------
(***************************************************************************)
(* The locks below the debug build: one spinlock per bin of the allocation *)
(* registry, stdlog_spinlock of log.c, and the lock of libc's heap, which  *)
(* whoever holds it cannot take again either.  A call is the list of locks *)
(* it takes one after the other: an insertion or deletion takes its bin's  *)
(* and goes to the heap under it, a message takes the log's, malloc, free, *)
(* fopen and popen take the heap's.  alloc_dump_summary takes every bin's  *)
(* (ht_foreach), the log's, the heap's (fopen), every bin's again, and the *)
(* heap's (fclose).  SIGUSR1 runs that dump on top of whatever the thread  *)
(* was doing, and a failing time() makes _log call itself with its lock    *)
(* held.  At the end main joins the samplers and destroys the registry;    *)
(* the keypad's thread is detached and stays: it calls nothing, but        *)
(* signals may run on it.                                                  *)
(***************************************************************************)
EXTENDS Naturals, Sequences

CONSTANTS
    Joined,           \* the samplers' threads
    Main, Keypad,     \* the thread of main and the detached one
    NBins, Log, Heap, Free,
    MaxInside,        \* bound on the visits to the heap under one bin's lock
    MaxSignals,       \* bound on the SIGUSR1 delivered
    MaxTimeFailures   \* bound on the calls of time() that fail

ASSUME BoundsAssumption == /\ NBins \in Nat \ {0} /\ MaxInside \in Nat
                           /\ MaxSignals \in Nat /\ MaxTimeFailures \in Nat
ASSUME NamesAssumption  == /\ Free \notin Joined \cup {Main, Keypad} /\ Log # Heap
                           /\ {Log, Heap} \cap Nat = {}
                           /\ Main # Keypad /\ {Main, Keypad} \cap Joined = {}

VARIABLES
    owner,     \* the thread that owns each lock
    stack,     \* each thread's calls, the running one first
    signals, timeFailures,   \* how many there have been
    interrupted,  \* threads whose handler, or whose _log within _log, began
                  \* while they held a lock
    registry,     \* "up", "going" in ht_destroy, "gone" after it
    ended,        \* the samplers' threads that returned
    victim        \* the thread that took a lock of the registry when there
                  \* was none and crashed the process, or Free

lockVars == <<owner, stack, signals, timeFailures, interrupted>>
lifeVars == <<registry, ended, victim>>
vars     == <<lockVars, lifeVars>>

Threads == Joined \cup {Main, Keypad}

Bins  == 0..NBins - 1
Locks == Bins \cup {Log, Heap}

EveryBin == [i \in 1..NBins |-> i - 1]
Dump     == EveryBin \o <<Log, Heap>> \o EveryBin \o <<Heap>>

\* A call: the locks still to take, whether it holds the first of them, and
\* how often it went to the heap meanwhile.
BinCalls == {<<i>> : i \in Bins}
Calls    == BinCalls \cup {<<Log>>, <<Heap>>, Dump}
Frame(call) == [todo |-> call, held |-> FALSE, handler |-> FALSE, inside |-> 0]

Init ==
    /\ owner = [l \in Locks |-> Free]
    /\ stack = [t \in Threads |-> <<>>]
    /\ signals = 0 /\ timeFailures = 0
    /\ interrupted = {}
    /\ registry = "up" /\ ended = {} /\ victim = Free

Running(t) == stack[t] # <<>>
Top(t)     == Head(stack[t])
Lock(t)    == Head(Top(t).todo)
Push(t, frame) == stack' = [stack EXCEPT ![t] = <<frame>> \o @]

Holding(t) == Running(t) /\ Top(t).held
HeldBy(t)  == {Head(stack[t][i].todo) : i \in {j \in 1..Len(stack[t]) : stack[t][j].held}}
Handling(t) == \E i \in 1..Len(stack[t]) : stack[t][i].handler

\* Nobody calls on the keypad's thread.  Main dumps after the joins; once it
\* shuts down it only releases memory.
Alive(t) == t \notin ended /\ victim = Free
MayCall(t, call) ==
    /\ Alive(t) /\ t # Keypad
    /\ call = Dump => t = Main /\ ended = Joined
    /\ t = Main /\ registry # "up" => call = <<Heap>>

\* Mutant of Call: a message is logged under the lock of a bin.
CallNested(t) ==
    /\ \/ ~Running(t) /\ \E call \in Calls : MayCall(t, call) /\ Push(t, Frame(call))
       \/ Alive(t) /\ Holding(t) /\ Lock(t) \in Bins /\ Push(t, Frame(<<Log>>))
    /\ UNCHANGED <<owner, signals, timeFailures, interrupted, lifeVars>>

\* libc's malloc or free, ht_set or ht_del, _log, or alloc_dump_summary begins.
Call(t) ==
    /\ ~Running(t)
    /\ \E call \in Calls : MayCall(t, call) /\ Push(t, Frame(call))
    /\ UNCHANGED <<owner, signals, timeFailures, interrupted, lifeVars>>

\* ht_set allocates the item, or releases the old value and the key; ht_del
\* releases key, value and item: all of it with the bin's lock held.
EnterHeap(t) ==
    /\ Alive(t) /\ Holding(t) /\ Top(t).todo \in BinCalls /\ Top(t).inside < MaxInside
    /\ LET holder == [stack[t] EXCEPT ![1].inside = Top(t).inside + 1]
       IN  stack' = [stack EXCEPT ![t] = <<Frame(<<Heap>>)>> \o holder]
    /\ UNCHANGED <<owner, signals, timeFailures, interrupted, lifeVars>>

\* Mutant of Acquire: a try that is taken for a success.
AcquireAlways(t) ==
    /\ Alive(t) /\ Running(t) /\ ~Top(t).held
    /\ owner' = [owner EXCEPT ![Lock(t)] = t]
    /\ stack' = [stack EXCEPT ![t][1].held = TRUE]
    /\ UNCHANGED <<signals, timeFailures, interrupted, lifeVars>>

\* Once the registry goes the lock of a bin is freed memory, and taking it
\* may still go well; Crash is the other outcome.
Acquire(t) ==
    /\ Alive(t) /\ Running(t) /\ ~Top(t).held /\ owner[Lock(t)] = Free
    /\ owner' = [owner EXCEPT ![Lock(t)] = t]
    /\ stack' = [stack EXCEPT ![t][1].held = TRUE]
    /\ UNCHANGED <<signals, timeFailures, interrupted, lifeVars>>

\* Mutant of Release: a call that ends leaves its last lock taken.
ReleaseForgets(t) ==
    /\ Alive(t) /\ Holding(t)
    /\ \/ /\ Len(Top(t).todo) > 1
          /\ owner' = [owner EXCEPT ![Lock(t)] = Free]
          /\ stack' = [stack EXCEPT ![t][1].todo = Tail(@), ![t][1].held = FALSE]
       \/ /\ Len(Top(t).todo) = 1
          /\ stack' = [stack EXCEPT ![t] = Tail(@)]
          /\ UNCHANGED owner
    /\ UNCHANGED <<signals, timeFailures, interrupted, lifeVars>>

\* Mutant of Release: a loop over the bins that does not know its end.
ReleaseEndless(t) ==
    /\ Alive(t) /\ Holding(t)
    /\ owner' = [owner EXCEPT ![Lock(t)] = Free]
    /\ stack' = [stack EXCEPT ![t][1].todo = Tail(@), ![t][1].held = FALSE]
    /\ UNCHANGED <<signals, timeFailures, interrupted, lifeVars>>

\* Mutant of Release: a loop over the bins that does not advance.
ReleaseStays(t) ==
    /\ Alive(t) /\ Holding(t)
    /\ owner' = [owner EXCEPT ![Lock(t)] = Free]
    /\ \/ /\ Len(Top(t).todo) > 1
          /\ stack' = [stack EXCEPT ![t][1].held = FALSE]
       \/ Len(Top(t).todo) = 1 /\ stack' = [stack EXCEPT ![t] = Tail(@)]
    /\ UNCHANGED <<signals, timeFailures, interrupted, lifeVars>>

\* The lock is released; after its last one the call returns to the caller.
Release(t) ==
    /\ Alive(t) /\ Holding(t)
    /\ owner' = [owner EXCEPT ![Lock(t)] = Free]
    /\ \/ /\ Len(Top(t).todo) > 1
          /\ stack' = [stack EXCEPT ![t][1].todo = Tail(@), ![t][1].held = FALSE]
       \/ Len(Top(t).todo) = 1 /\ stack' = [stack EXCEPT ![t] = Tail(@)]
    /\ UNCHANGED <<signals, timeFailures, interrupted, lifeVars>>

\* sig_handler on SIGUSR1; the signal is blocked until the handler returns.
Signal(t) ==
    /\ Alive(t) /\ signals < MaxSignals /\ ~Handling(t)
    /\ signals' = signals + 1
    /\ Push(t, [Frame(Dump) EXCEPT !.handler = TRUE])
    /\ interrupted' = IF HeldBy(t) # {} THEN interrupted \cup {t} ELSE interrupted
    /\ UNCHANGED <<owner, timeFailures, lifeVars>>

\* time() fails in _log: LOG_ERROR, with the lock held.
TimeFails(t) ==
    /\ Alive(t) /\ timeFailures < MaxTimeFailures /\ Holding(t) /\ Lock(t) = Log
    /\ timeFailures' = timeFailures + 1
    /\ Push(t, Frame(<<Log>>))
    /\ interrupted' = interrupted \cup {t}
    /\ UNCHANGED <<owner, signals, lifeVars>>

-----------------------------------------------------------------------------
(* The end of main.                                                        *)

\* A sampler's thread returns from its loop; a handler returns first.
Return(t) ==
    /\ Alive(t) /\ t \in Joined /\ ~Running(t)
    /\ ended' = ended \cup {t}
    /\ UNCHANGED <<lockVars, registry, victim>>

\* Mutant of Shutdown: main does not wait for the samplers.
ShutdownUnjoined ==
    /\ Alive(Main) /\ registry = "up" /\ ~Running(Main)
    /\ registry' = "going"
    /\ UNCHANGED <<lockVars, ended, victim>>

\* After the joins (and the dump, a Call of Main) ht_destroy begins.
Shutdown ==
    /\ Alive(Main) /\ registry = "up" /\ ~Running(Main) /\ ended = Joined
    /\ registry' = "going"
    /\ UNCHANGED <<lockVars, ended, victim>>

\* g_alloc_ht = NULL.
Destroyed ==
    /\ Alive(Main) /\ registry = "going" /\ ~Running(Main)
    /\ registry' = "gone"
    /\ UNCHANGED <<lockVars, ended, victim>>

\* A bin's lock is looked for in freed memory or behind the NULL pointer.
Crash(t) ==
    /\ Alive(t) /\ registry # "up"
    /\ Running(t) /\ ~Top(t).held /\ Lock(t) \in Bins
    /\ victim' = t
    /\ UNCHANGED <<lockVars, registry, ended>>

Work(t) == Acquire(t) \/ Release(t)

Next ==
    \/ \E t \in Threads : \/ Call(t) \/ EnterHeap(t) \/ Work(t) \/ Signal(t)
                          \/ TimeFails(t) \/ Return(t) \/ Crash(t)
    \/ Shutdown \/ Destroyed

Spec == Init /\ [][Next]_vars

\* A call that can go on does; nobody need call, and signals need not come.
\* Who holds a bin's lock and waits for the heap gets it between the others'
\* calls, since these sleep in each round.
FairSpec ==
    Spec /\ \A t \in Threads : WF_vars(Work(t)) /\ SF_vars(HeldBy(t) # {} /\ Acquire(t))
-----------------------------------------------------------------------------
TypeOK ==
    /\ owner \in [Locks -> Threads \cup {Free}]
    /\ \A t \in Threads : \A i \in 1..Len(stack[t]) :
          /\ stack[t][i].todo \in Seq(Locks) \ {<<>>}
          /\ stack[t][i].held \in BOOLEAN /\ stack[t][i].handler \in BOOLEAN
          /\ stack[t][i].inside \in 0..MaxInside
    /\ signals \in 0..MaxSignals /\ timeFailures \in 0..MaxTimeFailures
    /\ interrupted \subseteq Threads
    /\ registry \in {"up", "going", "gone"} /\ ended \subseteq Joined
    /\ victim \in Threads \cup {Free}

(* The owner of a lock is exactly the thread with a call between taking it *)
(* and giving it back, under any number of handlers; two calls of one      *)
(* thread never hold the same lock.                                        *)
OwnersHold ==
    /\ \A t \in Threads, l \in Locks : owner[l] = t <=> l \in HeldBy(t)
    /\ \A t \in Threads : \A i, j \in 1..Len(stack[t]) :
          stack[t][i].held /\ stack[t][j].held
              /\ Head(stack[t][i].todo) = Head(stack[t][j].todo) => i = j

(* Holding one lock while waiting for another, the first half of every     *)
(* deadlock, has one order: a bin's lock and then the heap's, nothing else *)
(* and nothing under the heap's.  Otherwise it only happens to a thread    *)
(* that a SIGUSR1 interrupted with a lock held, be it in malloc, or whose  *)
(* _log met a failing time().                                              *)
HoldAndWaitExplained ==
    \A t \in Threads :
        HeldBy(t) # {} /\ ~Holding(t) =>
            \/ t \in interrupted
            \/ Lock(t) = Heap /\ HeldBy(t) \subseteq Bins

(* A lock that is taken is released, a bin's also when its owner has to    *)
(* wait for the heap, unless some thread was interrupted while it held a   *)
(* lock, libc's heap lock included, or the process crashed: these locks    *)
(* cause no deadlock in any other way.                                     *)
LocksReleased ==
    \A t \in Threads, l \in Locks :
        owner[l] = t ~> (owner[l] # t \/ interrupted # {} \/ victim # Free)

(* The dump that a SIGUSR1 asks for takes each of its locks again, the     *)
(* heap's for fopen and fclose included, and comes to its end, if no       *)
(* thread was interrupted while it held one of them (a plain malloc or     *)
(* free is such a case), the others come to rest and the registry does not *)
(* go under it: it leaves no lock behind that it needs later.              *)
HandlerReturns ==
    \A t \in Threads :
        [](interrupted = {} /\ victim = Free) /\ <>[](\A u \in Threads \ {t} : ~Running(u))
            => [](Handling(t) => <>~Handling(t))

(* The registry goes after the last allocation that uses it: who needs     *)
(* it then is the dump of a SIGUSR1, on main because the signal came after *)
(* the shutdown began, or on the keypad's thread, which nobody joins; what *)
(* the dump came on top of are messages and main's own calls of free.      *)
RegistryOutlivesUse ==
    victim # Free =>
        /\ victim \notin Joined /\ Handling(victim)
        /\ \A i \in 1..Len(stack[victim]) : ~stack[victim][i].handler =>
              stack[victim][i].todo \in {<<Log>>, <<Heap>>}
=============================================================================
