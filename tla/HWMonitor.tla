------------------------------ MODULE HWMonitor ------------------------------
(***************************************************************************)
(* The process of main.c: four sampler threads (block devices, network     *)
(* devices, processor, memory), the UI loop run by the main thread, the    *)
(* detached keypad thread and the signals that ask the process to leave.   *)
(*                                                                         *)
(* A sampler owns the snapshots it allocates until it installs one in a    *)
(* global pointer (ldevices, lnet_devs, g_cpu_info, g_mem_info), which the *)
(* UI follows.  Both sides hold the mutex of that global while they look   *)
(* at it or change it.  A snapshot is one block of a small pool: what      *)
(* matters of its contents is whether the UI may show it.                  *)
(***************************************************************************)
EXTENDS Naturals, Sequences, FiniteSets

CONSTANTS
    Devs,      \* the sampler threads, one global and one mutex each
    Rebuilt,   \* those that rebuild their global in place: cpu and mem
    Diffed,    \* those that take two readings and compare them: blk, net, cpu
    Blocks,    \* the addresses malloc may return to one sampler
    Panels,    \* the order in which a frame draws the globals
    MaxMul,    \* bound on sample_rate_mul, a u64 in the code
    UI,        \* the main thread, as the owner of a mutex
    Free,      \* the mutex that nobody owns
    NULL

ASSUME KindsAssumption    == Rebuilt \subseteq Devs /\ Diffed \subseteq Devs
                             /\ Rebuilt \cup Diffed = Devs
ASSUME PanelsAssumption   == Panels \in Seq(Devs) /\ Len(Panels) > 0
ASSUME MaxMulAssumption   == MaxMul \in Nat /\ MaxMul >= 1
ASSUME DistinctAssumption == UI \notin Devs /\ Free \notin Devs /\ UI # Free
                             /\ NULL \notin Blocks

VARIABLES
    programm_exit,    \* atomic_bool, set by F10 and by SIGINT/SIGTERM
    sample_rate_mul,  \* atomic_u64, moved by UP and DOWN
    keypad,           \* the keypad thread
    pc,               \* where each sampler is
    rate,             \* the sample_rate each sampler read for this round, 0
                      \* once the round has no more use for it
    window,           \* how long it slept between its two readings, or 0
    a, b,             \* its two readings (devs_a, devs_b / cpu_a, cpu_b)
    global,           \* the pointer the UI follows
    mtx,              \* the owner of each mutex
    heap,             \* what each block holds
    ui, panel, shown  \* the main thread, its current panel, what it looks at

samplerVars == <<pc, rate, window, a, b>>
uiVars      == <<ui, panel, shown>>
vars == <<programm_exit, sample_rate_mul, keypad, samplerVars, global, mtx,
          heap, uiVars>>

SamplerPC == {"check", "scan_a", "sleep", "scan_b", "diff", "enter", "retire",
              "build", "fill", "publish", "leave", "done"}
UIPC      == {"start", "check", "lock", "look", "draw", "unlock", "sleep",
              "join", "destroy", "dump", "returned", "exited"}

\* "partial": raw counters or half-filled fields; "skewed": speeds computed
\* with another interval than the one that was slept; "ready": may be shown.
BlockState == {"free", "partial", "ready", "skewed"}

Alive == ui \notin {"returned", "exited"}

Init ==
    /\ programm_exit = FALSE
    /\ sample_rate_mul \in 1..MaxMul
    /\ keypad = "absent"
    /\ pc = [d \in Devs |-> "check"]
    /\ rate = [d \in Devs |-> 0]
    /\ window = [d \in Devs |-> 0]
    /\ a = [d \in Devs |-> NULL]
    /\ b = [d \in Devs |-> NULL]
    /\ global = [d \in Devs |-> NULL]
    /\ mtx = [d \in Devs |-> Free]
    /\ heap = [d \in Devs |-> [p \in Blocks |-> "free"]]
    /\ ui = "start" /\ panel = 1 /\ shown = NULL

-----------------------------------------------------------------------------
(* The samplers.  goto is the thread's next program point; each kind of    *)
(* sampler visits the steps in its own order.                              *)

At(d, l)   == Alive /\ pc[d] = l
Goto(d, l) == pc' = [pc EXCEPT ![d] = l]

HasRoom(d) == \E p \in Blocks : heap[d][p] = "free"
Malloc(d)  == CHOOSE p \in Blocks : heap[d][p] = "free"

AfterCheck(d)  == IF d \in Rebuilt THEN "enter" ELSE "scan_a"
AfterRetire(d) == IF d \in Rebuilt THEN "build" ELSE "publish"
AfterLeave(d)  == IF d \notin Rebuilt THEN "check"
                  ELSE IF d \in Diffed THEN "scan_a" ELSE "sleep"
AfterSleep(d)  == IF d \in Diffed THEN "scan_b" ELSE "check"
AfterDiff(d)   == IF d \in Rebuilt THEN "check" ELSE "enter"

\* The head of the thread's loop: leave, or read the rate for this round.
CheckExit(d) ==
    /\ At(d, "check")
    /\ \/ programm_exit /\ Goto(d, "done") /\ UNCHANGED rate
       \/ /\ ~programm_exit /\ Goto(d, AfterCheck(d))
          /\ rate' = [rate EXCEPT ![d] = sample_rate_mul]
    /\ UNCHANGED <<programm_exit, sample_rate_mul, keypad, window, a, b, global,
                   mtx, heap, uiVars>>

ScanA(d) ==
    /\ At(d, "scan_a") /\ HasRoom(d)
    /\ a' = [a EXCEPT ![d] = Malloc(d)]
    /\ heap' = [heap EXCEPT ![d][Malloc(d)] = "partial"]
    /\ Goto(d, "sleep")
    /\ UNCHANGED <<programm_exit, sample_rate_mul, keypad, rate, window, b,
                   global, mtx, uiVars>>

\* nsleepd(sample_size_sec): all of it, since nsleep resumes after EINTR.
Sleep(d) ==
    /\ At(d, "sleep")
    /\ \/ d \in Diffed /\ window' = [window EXCEPT ![d] = rate[d]] /\ UNCHANGED rate
       \/ d \notin Diffed /\ rate' = [rate EXCEPT ![d] = 0] /\ UNCHANGED window
    /\ Goto(d, AfterSleep(d))
    /\ UNCHANGED <<programm_exit, sample_rate_mul, keypad, a, b, global, mtx,
                   heap, uiVars>>

ScanB(d) ==
    /\ At(d, "scan_b") /\ HasRoom(d)
    /\ b' = [b EXCEPT ![d] = Malloc(d)]
    /\ heap' = [heap EXCEPT ![d][Malloc(d)] = "partial"]
    /\ Goto(d, "diff")
    /\ UNCHANGED <<programm_exit, sample_rate_mul, keypad, rate, window, a,
                   global, mtx, uiVars>>

Compared(d) == IF d \in Rebuilt THEN "free"
               ELSE IF rate[d] = window[d] THEN "ready" ELSE "skewed"

\* The comparison turns devs_b into something to show and releases devs_a.
\* The processor's readings only yield cpu_usage, and both are released.
Diff(d) ==
    /\ At(d, "diff")
    /\ heap' = [heap EXCEPT ![d] = [@ EXCEPT ![a[d]] = "free", ![b[d]] = Compared(d)]]
    /\ a' = [a EXCEPT ![d] = NULL]
    /\ b' = IF d \in Rebuilt THEN [b EXCEPT ![d] = NULL] ELSE b
    /\ rate' = [rate EXCEPT ![d] = 0] /\ window' = [window EXCEPT ![d] = 0]
    /\ Goto(d, AfterDiff(d))
    /\ UNCHANGED <<programm_exit, sample_rate_mul, keypad, global, mtx, uiVars>>

\* Mutant of Enter: the mutex is not waited for.
EnterUnlocked(d) ==
    /\ At(d, "enter")
    /\ mtx' = [mtx EXCEPT ![d] = d]
    /\ Goto(d, "retire")
    /\ UNCHANGED <<programm_exit, sample_rate_mul, keypad, rate, window, a, b,
                   global, heap, uiVars>>

Enter(d) ==
    /\ At(d, "enter") /\ mtx[d] = Free
    /\ mtx' = [mtx EXCEPT ![d] = d]
    /\ Goto(d, "retire")
    /\ UNCHANGED <<programm_exit, sample_rate_mul, keypad, rate, window, a, b,
                   global, heap, uiVars>>

\* Mutant of Retire: what the global points to is not released.
RetireLeaks(d) ==
    /\ At(d, "retire")
    /\ global' = IF d \in Rebuilt THEN [global EXCEPT ![d] = NULL] ELSE global
    /\ Goto(d, AfterRetire(d))
    /\ UNCHANGED <<programm_exit, sample_rate_mul, keypad, rate, window, a, b,
                   mtx, heap, uiVars>>

\* Release what the global points to.  cpu and mem then reset the pointer;
\* blk and net leave it dangling until the next step overwrites it.
Retire(d) ==
    /\ At(d, "retire")
    /\ heap' = IF global[d] = NULL THEN heap
               ELSE [heap EXCEPT ![d][global[d]] = "free"]
    /\ global' = IF d \in Rebuilt THEN [global EXCEPT ![d] = NULL] ELSE global
    /\ Goto(d, AfterRetire(d))
    /\ UNCHANGED <<programm_exit, sample_rate_mul, keypad, rate, window, a, b,
                   mtx, uiVars>>

\* cpu_info_get(&g_cpu_info) stores the pointer before it fills the block.
Build(d) ==
    /\ At(d, "build") /\ HasRoom(d)
    /\ global' = [global EXCEPT ![d] = Malloc(d)]
    /\ heap' = [heap EXCEPT ![d][Malloc(d)] = "partial"]
    /\ Goto(d, "fill")
    /\ UNCHANGED <<programm_exit, sample_rate_mul, keypad, rate, window, a, b,
                   mtx, uiVars>>

Fill(d) ==
    /\ At(d, "fill")
    /\ heap' = [heap EXCEPT ![d][global[d]] = "ready"]
    /\ Goto(d, "leave")
    /\ UNCHANGED <<programm_exit, sample_rate_mul, keypad, rate, window, a, b,
                   global, mtx, uiVars>>

Publish(d) ==
    /\ At(d, "publish")
    /\ global' = [global EXCEPT ![d] = b[d]]
    /\ b' = [b EXCEPT ![d] = NULL]
    /\ Goto(d, "leave")
    /\ UNCHANGED <<programm_exit, sample_rate_mul, keypad, rate, window, a, mtx,
                   heap, uiVars>>

Leave(d) ==
    /\ At(d, "leave")
    /\ mtx' = [mtx EXCEPT ![d] = Free]
    /\ Goto(d, AfterLeave(d))
    /\ UNCHANGED <<programm_exit, sample_rate_mul, keypad, rate, window, a, b,
                   global, heap, uiVars>>

Sampler(d) ==
    \/ CheckExit(d) \/ ScanA(d) \/ Sleep(d) \/ ScanB(d) \/ Diff(d)
    \/ Enter(d) \/ Retire(d) \/ Build(d) \/ Fill(d) \/ Publish(d) \/ Leave(d)

-----------------------------------------------------------------------------
(* The main thread: ncurses_window, then the end of main.                  *)

Panel == Panels[panel]

UIUnchanged == UNCHANGED <<programm_exit, sample_rate_mul, samplerVars, global, heap>>

\* A terminal without colours ends the process at once, samplers and all.
NoColours ==
    /\ ui = "start" /\ ui' = "exited"
    /\ UIUnchanged /\ UNCHANGED <<keypad, mtx, panel, shown>>

StartKeypad ==
    /\ ui = "start" /\ ui' = "check"
    /\ keypad' = "reading"
    /\ UIUnchanged /\ UNCHANGED <<mtx, panel, shown>>

CheckFrame ==
    /\ ui = "check"
    /\ ui' = IF programm_exit THEN "join" ELSE "lock"
    /\ panel' = 1
    /\ UIUnchanged /\ UNCHANGED <<keypad, mtx, shown>>

LockPanel ==
    /\ ui = "lock" /\ mtx[Panel] = Free
    /\ mtx' = [mtx EXCEPT ![Panel] = UI]
    /\ ui' = "look"
    /\ UIUnchanged /\ UNCHANGED <<keypad, panel, shown>>

\* if (ldevices) ...: an empty global is skipped, otherwise it is followed.
LookPanel ==
    /\ ui = "look"
    /\ shown' = global[Panel]
    /\ ui' = IF global[Panel] = NULL THEN "unlock" ELSE "draw"
    /\ UIUnchanged /\ UNCHANGED <<keypad, mtx, panel>>

DrawPanel ==
    /\ ui = "draw" /\ ui' = "unlock"
    /\ shown' = NULL
    /\ UIUnchanged /\ UNCHANGED <<keypad, mtx, panel>>

UnlockPanel ==
    /\ ui = "unlock"
    /\ mtx' = [mtx EXCEPT ![Panel] = Free]
    /\ \/ panel < Len(Panels) /\ ui' = "lock" /\ panel' = panel + 1
       \/ panel = Len(Panels) /\ ui' = "sleep" /\ UNCHANGED panel
    /\ UIUnchanged /\ UNCHANGED <<keypad, shown>>

\* Mutant of SleepFrame: the loop condition is not tested again.
SleepFrameUnchecked ==
    /\ ui = "sleep" /\ ui' = "lock"
    /\ panel' = 1
    /\ UIUnchanged /\ UNCHANGED <<keypad, mtx, shown>>

SleepFrame ==
    /\ ui = "sleep" /\ ui' = "check"
    /\ UIUnchanged /\ UNCHANGED <<keypad, mtx, panel, shown>>

\* Mutant of Join: one of the threads is not joined.
JoinSome ==
    /\ ui = "join" /\ \E d \in Devs : pc[d] = "done"
    /\ ui' = "destroy"
    /\ UIUnchanged /\ UNCHANGED <<keypad, mtx, panel, shown>>

\* The four pthread_join calls.
Join ==
    /\ ui = "join" /\ \A d \in Devs : pc[d] = "done"
    /\ ui' = "destroy"
    /\ UIUnchanged /\ UNCHANGED <<keypad, mtx, panel, shown>>

DestroyMutexes ==
    /\ ui = "destroy" /\ ui' = "dump"
    /\ UIUnchanged /\ UNCHANGED <<keypad, mtx, panel, shown>>

\* alloc_dump_summary, shutdown_allocators, log_shutdown, return 0.
Return ==
    /\ ui = "dump" /\ ui' = "returned"
    /\ UIUnchanged /\ UNCHANGED <<keypad, mtx, panel, shown>>

Main ==
    \/ NoColours \/ StartKeypad \/ CheckFrame \/ LockPanel \/ LookPanel
    \/ DrawPanel \/ UnlockPanel \/ SleepFrame \/ Join \/ DestroyMutexes \/ Return

-----------------------------------------------------------------------------
(* The keypad thread and the signals.                                      *)

Reading == Alive /\ keypad = "reading"

KeyF10 ==
    /\ Reading
    /\ programm_exit' = TRUE /\ keypad' = "done"
    /\ UNCHANGED <<sample_rate_mul, samplerVars, global, mtx, heap, uiVars>>

KeyUp ==
    /\ Reading /\ sample_rate_mul < MaxMul
    /\ sample_rate_mul' = sample_rate_mul + 1
    /\ UNCHANGED <<programm_exit, keypad, samplerVars, global, mtx, heap, uiVars>>

\* Mutant of KeyDown: the test for 1 is missing.
KeyDownUnguarded ==
    /\ Reading /\ sample_rate_mul > 0
    /\ sample_rate_mul' = sample_rate_mul - 1
    /\ UNCHANGED <<programm_exit, keypad, samplerVars, global, mtx, heap, uiVars>>

\* The compare-and-swap loop ends at once: no other thread writes the rate.
KeyDown ==
    /\ Reading /\ sample_rate_mul > 1
    /\ sample_rate_mul' = sample_rate_mul - 1
    /\ UNCHANGED <<programm_exit, keypad, samplerVars, global, mtx, heap, uiVars>>

\* SIGINT or SIGTERM: from now on sig_handler has run.
SigExit ==
    /\ Alive /\ ~programm_exit
    /\ programm_exit' = TRUE
    /\ UNCHANGED <<sample_rate_mul, keypad, samplerVars, global, mtx, heap, uiVars>>

Environment == KeyF10 \/ KeyUp \/ KeyDown \/ SigExit

\* The process is gone; nothing of it runs any more.
Gone == ~Alive /\ UNCHANGED vars

Next == (\E d \in Devs : Sampler(d)) \/ Main \/ Environment \/ Gone

Spec == Init /\ [][Next]_vars

\* Each thread that can run is run in the end; keys and signals need not come.
FairSpec == Spec /\ WF_vars(Main) /\ \A d \in Devs : WF_vars(Sampler(d))

-----------------------------------------------------------------------------
TypeOK ==
    /\ programm_exit \in BOOLEAN
    /\ sample_rate_mul \in 1..MaxMul
    /\ keypad \in {"absent", "reading", "done"}
    /\ pc \in [Devs -> SamplerPC]
    /\ rate \in [Devs -> 0..MaxMul] /\ window \in [Devs -> 0..MaxMul]
    /\ a \in [Devs -> Blocks \cup {NULL}] /\ b \in [Devs -> Blocks \cup {NULL}]
    /\ global \in [Devs -> Blocks \cup {NULL}]
    /\ mtx \in [Devs -> Devs \cup {UI, Free}]
    /\ heap \in [Devs -> [Blocks -> BlockState]]
    /\ ui \in UIPC /\ panel \in 1..Len(Panels) /\ shown \in Blocks \cup {NULL}

(* While the UI draws a panel, the snapshot it follows is the one the      *)
(* global still points to, has not been released, and is complete: no      *)
(* half-filled cpu_info, no raw counters, and speeds computed over the     *)
(* interval that was really slept, whatever keys were pressed meanwhile    *)
(* (ncurses_window against the samplers and *_set_globals).                *)
ReaderSeesComplete ==
    ui = "draw" => /\ shown = global[Panel]
                   /\ shown # NULL /\ heap[Panel][shown] = "ready"

\* The global is a stale address between list_release(ldevices) and
\* ldevices = devs.
Dangling(d) == pc[d] = "publish"

Claims(d, p) == {o \in {"global", "a", "b"} :
    \/ o = "global" /\ global[d] = p /\ ~Dangling(d)
    \/ o = "a" /\ a[d] = p
    \/ o = "b" /\ b[d] = p}

(* A block in use is reachable from exactly one place, a released one from *)
(* none: nothing a sampler allocates leaks, is released twice or is used   *)
(* after its release, at every interleaving and at any exit.               *)
OwnedOnce ==
    \A d \in Devs, p \in Blocks :
        IF heap[d][p] = "free" THEN Claims(d, p) = {}
        ELSE \E o \in {"global", "a", "b"} : Claims(d, p) = {o}

(* Once main destroys the mutexes and dumps the allocations, no sampler    *)
(* can take a mutex or change the heap any more, no mutex is destroyed     *)
(* while it is held, and all that is left allocated is what the globals    *)
(* point to.                                                               *)
TeardownIsQuiet ==
    ui \in {"destroy", "dump", "returned"} =>
        \A d \in Devs :
            /\ pc[d] = "done" /\ mtx[d] = Free
            /\ \A p \in Blocks : heap[d][p] # "free" => p = global[d]

(* Asked to leave, by key or by signal, the process does: every sampler    *)
(* passes the head of its loop, the joins return, main returns.  No thread *)
(* waits for a mutex for ever on the way.                                  *)
ExitCompletes == programm_exit ~> ~Alive
=============================================================================
