--------------------------- MODULE HWMonitorProofs ---------------------------
(***************************************************************************)
(* Proofs about HWMonitor for any number of samplers of each kind, any     *)
(* drawing order of the panels, any pool of blocks and any bound on the    *)
(* rate.  The inductive invariant says of each sampler who owns its mutex, *)
(* which of its three pointers are set at each program point and what they *)
(* point to; the properties the runs check are consequences of it.         *)
(***************************************************************************)
EXTENDS HWMonitor, TLAPS

Critical(d) == pc[d] \in {"retire", "build", "fill", "publish", "leave"}
UIHolds(d)  == ui \in {"look", "draw", "unlock"} /\ Panel = d

\* The owner of a mutex is the thread between its lock and its unlock.
MutexInv(d) ==
    /\ mtx[d] \in {d, UI, Free}
    /\ mtx[d] = d <=> Critical(d)
    /\ mtx[d] = UI <=> UIHolds(d)

\* Which steps each kind of sampler takes.
KindInv(d) ==
    /\ pc[d] \in {"build", "fill"} => d \in Rebuilt
    /\ pc[d] = "publish" => d \notin Rebuilt
    /\ pc[d] \in {"scan_a", "scan_b", "diff"} => d \in Diffed

\* Which pointers are set where, and what they point to.
PointerInv(d) ==
    /\ a[d] # NULL <=> d \in Diffed /\ pc[d] \in {"sleep", "scan_b", "diff"}
    /\ b[d] # NULL <=> \/ pc[d] = "diff"
                       \/ d \notin Rebuilt /\ pc[d] \in {"enter", "retire", "publish"}
    /\ pc[d] \in {"scan_b", "diff"} => rate[d] = window[d]
    /\ b[d] # NULL /\ pc[d] # "diff" => heap[d][b[d]] = "ready"
    /\ pc[d] = "build" => global[d] = NULL
    /\ pc[d] = "fill"  => global[d] # NULL
    /\ global[d] # NULL /\ pc[d] \notin {"fill", "publish"} =>
         heap[d][global[d]] = "ready"

\* A block is in use exactly when one of the pointers has it, and no two do.
HeapInv(d) ==
    /\ \A p \in Blocks : heap[d][p] # "free" <=>
         \/ global[d] = p /\ ~Dangling(d)
         \/ a[d] = p
         \/ b[d] = p
    /\ a[d] # NULL => a[d] # b[d]
    /\ global[d] # NULL /\ ~Dangling(d) => global[d] # a[d] /\ global[d] # b[d]

DevInv(d) == MutexInv(d) /\ KindInv(d) /\ PointerInv(d) /\ HeapInv(d)

DrawInv == ui = "draw" => shown = global[Panel] /\ shown # NULL
DoneInv == ui \in {"destroy", "dump", "returned"} => \A d \in Devs : pc[d] = "done"

IInv == TypeOK /\ (\A d \in Devs : DevInv(d)) /\ DrawInv /\ DoneInv

-----------------------------------------------------------------------------
LEMMA PanelType == TypeOK => Panel \in Devs
  BY PanelsAssumption DEF TypeOK, Panel

\* malloc returns a free block as long as there is one.
LEMMA MallocFree ==
  ASSUME NEW d \in Devs, HasRoom(d)
  PROVE  Malloc(d) \in Blocks /\ heap[d][Malloc(d)] = "free"
  BY DEF HasRoom, Malloc

\* A sampler's step keeps every variable in its type.
LEMMA SamplerType ==
  ASSUME TypeOK, NEW e \in Devs, Sampler(e) PROVE TypeOK'
  <1> USE KindsAssumption, MaxMulAssumption DEF TypeOK, SamplerPC, At, Goto, uiVars
  <1>1. CASE CheckExit(e)
    <2>1. rate' \in [Devs -> 0..MaxMul]
      <3>1. rate \in [Devs -> 0..MaxMul] /\ sample_rate_mul \in 0..MaxMul
        OBVIOUS
      <3>2. rate' = rate \/ rate' = [rate EXCEPT ![e] = sample_rate_mul]
        BY <1>1 DEF CheckExit
      <3> QED
        BY <3>1, <3>2
    <2>2. pc' \in [Devs -> SamplerPC]
      BY <1>1 DEF CheckExit, AfterCheck
    <2> QED
      BY <1>1, <2>1, <2>2 DEF CheckExit
  <1>2. CASE ScanA(e)
    BY <1>2, MallocFree DEF ScanA, BlockState
  <1>3. CASE Sleep(e)
    <2>1. 0 \in 0..MaxMul
      OBVIOUS
    <2>2. rate' = rate \/ rate' = [rate EXCEPT ![e] = 0]
      BY <1>3 DEF Sleep
    <2>3. window' = window \/ window' = [window EXCEPT ![e] = rate[e]]
      BY <1>3 DEF Sleep
    <2>4. pc' \in [Devs -> SamplerPC]
      BY <1>3 DEF Sleep, AfterSleep
    <2>5. rate' \in [Devs -> 0..MaxMul]
      BY <2>1, <2>2
    <2>6. window' \in [Devs -> 0..MaxMul]
      BY <2>3
    <2> QED
      BY <1>3, <2>4, <2>5, <2>6 DEF Sleep
  <1>4. CASE ScanB(e)
    BY <1>4, MallocFree DEF ScanB, BlockState
  <1>5. CASE Diff(e)
    <2>1. [heap[e] EXCEPT ![a[e]] = "free", ![b[e]] = Compared(e)]
            \in [Blocks -> BlockState]
      BY DEF BlockState, Compared
    <2>2. rate' \in [Devs -> 0..MaxMul] /\ window' \in [Devs -> 0..MaxMul]
      BY <1>5 DEF Diff
    <2>3. pc' \in [Devs -> SamplerPC]
      BY <1>5 DEF Diff, AfterDiff
    <2> QED
      BY <1>5, <2>1, <2>2, <2>3 DEF Diff
  <1>6. CASE Enter(e)
    BY <1>6 DEF Enter
  <1>7. CASE Retire(e)
    BY <1>7 DEF Retire, AfterRetire, BlockState
  <1>8. CASE Build(e)
    BY <1>8, MallocFree DEF Build, BlockState
  <1>9. CASE Fill(e)
    BY <1>9 DEF Fill, BlockState
  <1>10. CASE Publish(e)
    BY <1>10 DEF Publish
  <1>11. CASE Leave(e)
    BY <1>11 DEF Leave, AfterLeave
  <1> QED
    BY <1>1, <1>2, <1>3, <1>4, <1>5, <1>6, <1>7, <1>8, <1>9, <1>10, <1>11 DEF Sampler

\* So does a step of the main thread.
LEMMA MainType ==
  ASSUME TypeOK, Main PROVE TypeOK'
  <1> USE PanelsAssumption DEF TypeOK, UIPC, UIUnchanged, samplerVars
  <1>1. CASE NoColours
    BY <1>1 DEF NoColours
  <1>2. CASE StartKeypad
    BY <1>2 DEF StartKeypad
  <1>3. CASE CheckFrame
    BY <1>3 DEF CheckFrame
  <1>4. CASE LockPanel
    BY <1>4, PanelType DEF LockPanel
  <1>5. CASE LookPanel
    BY <1>5, PanelType DEF LookPanel
  <1>6. CASE DrawPanel
    BY <1>6, PanelType DEF DrawPanel
  <1>7. CASE UnlockPanel
    <2>1. panel' \in 1..Len(Panels)
      BY <1>7 DEF UnlockPanel
    <2>2. mtx' \in [Devs -> Devs \cup {UI, Free}]
      BY <1>7 DEF UnlockPanel
    <2> QED
      BY <1>7, <2>1, <2>2 DEF UnlockPanel
  <1>8. CASE SleepFrame
    BY <1>8 DEF SleepFrame
  <1>9. CASE Join
    BY <1>9 DEF Join
  <1>10. CASE DestroyMutexes
    BY <1>10 DEF DestroyMutexes
  <1>11. CASE Return
    BY <1>11 DEF Return
  <1> QED
    BY <1>1, <1>2, <1>3, <1>4, <1>5, <1>6, <1>7, <1>8, <1>9, <1>10, <1>11 DEF Main

\* Keys and signals too: UP stops at the bound and DOWN at 1.
LEMMA EnvironmentType ==
  ASSUME TypeOK, Environment PROVE TypeOK'
  <1> USE MaxMulAssumption DEF TypeOK, samplerVars, uiVars
  <1>1. CASE KeyF10 \/ SigExit
    BY <1>1 DEF KeyF10, SigExit
  <1>2. CASE KeyUp
    BY <1>2 DEF KeyUp
  <1>3. CASE KeyDown
    BY <1>3 DEF KeyDown
  <1> QED
    BY <1>1, <1>2, <1>3 DEF Environment

LEMMA StutterType ==
  ASSUME TypeOK, UNCHANGED vars PROVE TypeOK'
  BY DEF TypeOK, vars, samplerVars, uiVars

LEMMA InitType == Init => TypeOK
  <1> SUFFICES ASSUME Init PROVE TypeOK
    OBVIOUS
  <1> USE DEF Init
  <1>1. panel \in 1..Len(Panels) /\ sample_rate_mul \in 1..MaxMul
    BY PanelsAssumption
  <1>2. rate \in [Devs -> 0..MaxMul] /\ window \in [Devs -> 0..MaxMul]
    BY MaxMulAssumption
  <1>3. heap \in [Devs -> [Blocks -> BlockState]]
    BY DEF BlockState
  <1>4. pc \in [Devs -> SamplerPC] /\ ui \in UIPC
    BY DEF SamplerPC, UIPC
  <1> QED
    BY <1>1, <1>2, <1>3, <1>4 DEF TypeOK

(* Every variable stays in its type, for any samplers and any bounds.       *)
THEOREM TypeCorrect == Spec => []TypeOK
  <1>1. Init => TypeOK
    BY InitType
  <1>2. TypeOK /\ [Next]_vars => TypeOK'
    BY SamplerType, MainType, EnvironmentType, StutterType DEF Next, Gone
  <1> QED
    BY <1>1, <1>2, PTL DEF Spec

-----------------------------------------------------------------------------
\* A sampler's invariant only speaks of its own components.
LEMMA Untouched ==
  ASSUME NEW d \in Devs, DevInv(d),
         pc'[d] = pc[d], rate'[d] = rate[d], window'[d] = window[d],
         a'[d] = a[d], b'[d] = b[d], global'[d] = global[d],
         mtx'[d] = mtx[d], heap'[d] = heap[d], UIHolds(d)' <=> UIHolds(d)
  PROVE  DevInv(d)'
  BY DEF DevInv, MutexInv, KindInv, PointerInv, HeapInv, Critical, Dangling

\* A sampler's step leaves the components of the others alone.
LEMMA SamplerFrame ==
  ASSUME TypeOK, NEW e \in Devs, Sampler(e), NEW d \in Devs, d # e
  PROVE  /\ pc'[d] = pc[d] /\ rate'[d] = rate[d] /\ window'[d] = window[d]
         /\ a'[d] = a[d] /\ b'[d] = b[d] /\ global'[d] = global[d]
         /\ mtx'[d] = mtx[d] /\ heap'[d] = heap[d]
  <1> USE DEF TypeOK, At, Goto
  <1>1. CASE CheckExit(e)
    BY <1>1 DEF CheckExit
  <1>2. CASE ScanA(e)
    BY <1>2 DEF ScanA
  <1>3. CASE Sleep(e)
    BY <1>3 DEF Sleep
  <1>4. CASE ScanB(e)
    BY <1>4 DEF ScanB
  <1>5. CASE Diff(e)
    BY <1>5 DEF Diff
  <1>6. CASE Enter(e)
    BY <1>6 DEF Enter
  <1>7. CASE Retire(e)
    BY <1>7 DEF Retire
  <1>8. CASE Build(e)
    BY <1>8 DEF Build
  <1>9. CASE Fill(e)
    BY <1>9 DEF Fill
  <1>10. CASE Publish(e)
    BY <1>10 DEF Publish
  <1>11. CASE Leave(e)
    BY <1>11 DEF Leave
  <1> QED
    BY <1>1, <1>2, <1>3, <1>4, <1>5, <1>6, <1>7, <1>8, <1>9, <1>10, <1>11 DEF Sampler

\* No sampler's step moves the main thread.
LEMMA SamplerKeepsUI ==
  ASSUME NEW e \in Devs, Sampler(e) PROVE UNCHANGED <<ui, panel, shown>>
  BY DEF Sampler, CheckExit, ScanA, Sleep, ScanB, Diff, Enter, Retire, Build,
         Fill, Publish, Leave, uiVars

\* The step of a sampler keeps its own invariant.
LEMMA SamplerStep ==
  ASSUME TypeOK, NEW e \in Devs, DevInv(e), Sampler(e) PROVE DevInv(e)'
  <1> USE KindsAssumption, DistinctAssumption
      DEF TypeOK, DevInv, Dangling, At, Goto
  <1>0. UIHolds(e)' <=> UIHolds(e)
    BY SamplerKeepsUI DEF UIHolds, Panel
  <1>1. CASE CheckExit(e)
    <2>1. MutexInv(e)'
      BY <1>0, <1>1 DEF MutexInv, Critical, CheckExit, AfterCheck
    <2>2. KindInv(e)'
      BY <1>1 DEF KindInv, CheckExit, AfterCheck
    <2>3. PointerInv(e)'
      BY <1>1 DEF KindInv, PointerInv, HeapInv, CheckExit, AfterCheck
    <2>4. HeapInv(e)'
      BY <1>1 DEF KindInv, PointerInv, HeapInv, CheckExit, AfterCheck
    <2> QED
      BY <2>1, <2>2, <2>3, <2>4
  <1>2. CASE ScanA(e)
    <2>1. MutexInv(e)'
      BY <1>0, <1>2 DEF MutexInv, Critical, ScanA
    <2>2. KindInv(e)'
      BY <1>2 DEF KindInv, ScanA
    <2>3. PointerInv(e)'
      BY <1>2, MallocFree DEF KindInv, PointerInv, HeapInv, ScanA
    <2>4. HeapInv(e)'
      BY <1>2, MallocFree DEF KindInv, PointerInv, HeapInv, ScanA
    <2> QED
      BY <2>1, <2>2, <2>3, <2>4
  <1>3. CASE Sleep(e)
    <2>1. MutexInv(e)'
      BY <1>0, <1>3 DEF MutexInv, Critical, Sleep, AfterSleep
    <2>2. KindInv(e)'
      BY <1>3 DEF KindInv, Sleep, AfterSleep
    <2>3. PointerInv(e)'
      BY <1>3 DEF KindInv, PointerInv, HeapInv, Sleep, AfterSleep
    <2>4. HeapInv(e)'
      BY <1>3 DEF KindInv, PointerInv, HeapInv, Sleep, AfterSleep
    <2> QED
      BY <2>1, <2>2, <2>3, <2>4
  <1>4. CASE ScanB(e)
    <2>1. MutexInv(e)'
      BY <1>0, <1>4 DEF MutexInv, Critical, ScanB
    <2>2. KindInv(e)'
      BY <1>4 DEF KindInv, ScanB
    <2>3. PointerInv(e)'
      BY <1>4, MallocFree DEF KindInv, PointerInv, HeapInv, ScanB
    <2>4. HeapInv(e)'
      BY <1>4, MallocFree DEF KindInv, PointerInv, HeapInv, ScanB
    <2> QED
      BY <2>1, <2>2, <2>3, <2>4
  <1>5. CASE Diff(e)
    <2>1. MutexInv(e)'
      BY <1>0, <1>5 DEF MutexInv, Critical, Diff, AfterDiff, Compared
    <2>2. KindInv(e)'
      BY <1>5 DEF KindInv, Diff, AfterDiff, Compared
    <2>3. PointerInv(e)'
      BY <1>5 DEF KindInv, PointerInv, HeapInv, Diff, AfterDiff, Compared
    <2>4. HeapInv(e)'
      BY <1>5 DEF KindInv, PointerInv, HeapInv, Diff, AfterDiff, Compared
    <2> QED
      BY <2>1, <2>2, <2>3, <2>4
  <1>6. CASE Enter(e)
    <2>1. MutexInv(e)'
      BY <1>0, <1>6 DEF MutexInv, Critical, Enter
    <2>2. KindInv(e)'
      BY <1>6 DEF KindInv, Enter
    <2>3. PointerInv(e)'
      BY <1>6 DEF KindInv, PointerInv, HeapInv, Enter
    <2>4. HeapInv(e)'
      BY <1>6 DEF KindInv, PointerInv, HeapInv, Enter
    <2> QED
      BY <2>1, <2>2, <2>3, <2>4
  <1>7. CASE Retire(e)
    <2>1. MutexInv(e)'
      BY <1>0, <1>7 DEF MutexInv, Critical, Retire, AfterRetire
    <2>2. KindInv(e)'
      BY <1>7 DEF KindInv, Retire, AfterRetire
    <2>3. PointerInv(e)'
      BY <1>7 DEF KindInv, PointerInv, HeapInv, Retire, AfterRetire
    <2>4. HeapInv(e)'
      BY <1>7 DEF KindInv, PointerInv, HeapInv, Retire, AfterRetire
    <2> QED
      BY <2>1, <2>2, <2>3, <2>4
  <1>8. CASE Build(e)
    <2>1. MutexInv(e)'
      BY <1>0, <1>8 DEF MutexInv, Critical, Build
    <2>2. KindInv(e)'
      BY <1>8 DEF KindInv, Build
    <2>3. PointerInv(e)'
      BY <1>8, MallocFree DEF KindInv, PointerInv, HeapInv, Build
    <2>4. HeapInv(e)'
      BY <1>8, MallocFree DEF KindInv, PointerInv, HeapInv, Build
    <2> QED
      BY <2>1, <2>2, <2>3, <2>4
  <1>9. CASE Fill(e)
    <2>1. MutexInv(e)'
      BY <1>0, <1>9 DEF MutexInv, Critical, Fill
    <2>2. KindInv(e)'
      BY <1>9 DEF KindInv, Fill
    <2>3. PointerInv(e)'
      BY <1>9 DEF KindInv, PointerInv, HeapInv, Fill
    <2>4. HeapInv(e)'
      BY <1>9 DEF KindInv, PointerInv, HeapInv, Fill
    <2> QED
      BY <2>1, <2>2, <2>3, <2>4
  <1>10. CASE Publish(e)
    <2>1. MutexInv(e)'
      BY <1>0, <1>10 DEF MutexInv, Critical, Publish
    <2>2. KindInv(e)'
      BY <1>10 DEF KindInv, Publish
    <2>3. PointerInv(e)'
      BY <1>10 DEF KindInv, PointerInv, HeapInv, Publish
    <2>4. HeapInv(e)'
      BY <1>10 DEF KindInv, PointerInv, HeapInv, Publish
    <2> QED
      BY <2>1, <2>2, <2>3, <2>4
  <1>11. CASE Leave(e)
    <2>1. MutexInv(e)'
      BY <1>0, <1>11 DEF MutexInv, Critical, Leave, AfterLeave
    <2>2. KindInv(e)'
      BY <1>11 DEF KindInv, Leave, AfterLeave
    <2>3. PointerInv(e)'
      BY <1>11 DEF KindInv, PointerInv, HeapInv, Leave, AfterLeave
    <2>4. HeapInv(e)'
      BY <1>11 DEF KindInv, PointerInv, HeapInv, Leave, AfterLeave
    <2> QED
      BY <2>1, <2>2, <2>3, <2>4
  <1> QED
    BY <1>1, <1>2, <1>3, <1>4, <1>5, <1>6, <1>7, <1>8, <1>9, <1>10, <1>11 DEF Sampler

-----------------------------------------------------------------------------
\* The main thread only changes the mutex of the panel it locks or unlocks.
LEMMA MainStep ==
  ASSUME TypeOK, NEW d \in Devs, DevInv(d), Main PROVE DevInv(d)'
  <1> USE DEF UIUnchanged, samplerVars
  <1>1. CASE LockPanel
    <2>1. MutexInv(d)'
      BY <1>1, PanelType, DistinctAssumption
      DEF DevInv, MutexInv, Critical, UIHolds, LockPanel, Panel, TypeOK
    <2> QED
      BY <1>1, <2>1 DEF DevInv, KindInv, PointerInv, HeapInv, Dangling, LockPanel
  <1>2. CASE UnlockPanel
    <2>1. MutexInv(d)'
      BY <1>2, PanelType, DistinctAssumption
      DEF DevInv, MutexInv, Critical, UIHolds, UnlockPanel, Panel, TypeOK
    <2> QED
      BY <1>2, <2>1 DEF DevInv, KindInv, PointerInv, HeapInv, Dangling, UnlockPanel
  <1>3. CASE ~LockPanel /\ ~UnlockPanel
    <2>1. mtx' = mtx /\ UNCHANGED samplerVars /\ global' = global /\ heap' = heap
      BY <1>3 DEF Main, NoColours, StartKeypad, CheckFrame, LookPanel, DrawPanel,
                  SleepFrame, Join, DestroyMutexes, Return
    <2>2. UIHolds(d)' <=> UIHolds(d)
      BY <1>3 DEF Main, NoColours, StartKeypad, CheckFrame, LookPanel, DrawPanel,
                  SleepFrame, Join, DestroyMutexes, Return, UIHolds, Panel
    <2> QED
      BY <2>1, <2>2, Untouched
  <1> QED
    BY <1>1, <1>2, <1>3

\* While the UI draws a panel its sampler is outside the critical section, so
\* the global cannot move and what it points to is complete.
LEMMA DrawStep ==
  ASSUME TypeOK, \A d \in Devs : DevInv(d), DrawInv, [Next]_vars PROVE DrawInv'
  <1>1. CASE Main
    BY <1>1 DEF DrawInv, Main, NoColours, StartKeypad, CheckFrame, LockPanel,
                LookPanel, DrawPanel, UnlockPanel, SleepFrame, Join,
                DestroyMutexes, Return, UIUnchanged, Panel
  <1>2. ASSUME NEW e \in Devs, Sampler(e) PROVE DrawInv'
    <2>1. UNCHANGED <<ui, panel, shown>>
      BY <1>2, SamplerKeepsUI
    <2>2. ASSUME ui = "draw", e = Panel PROVE global'[e] = global[e]
      <3>1. mtx[e] = UI /\ ~Critical(e)
        BY <2>2, DistinctAssumption DEF DevInv, MutexInv, UIHolds
      <3> QED
        BY <1>2, <3>1 DEF Critical, At, Sampler, CheckExit, ScanA, Sleep, ScanB, Diff,
             Enter, Retire, Build, Fill, Publish, Leave
    <2>3. ASSUME ui = "draw", e # Panel PROVE global'[Panel] = global[Panel]
      BY <1>2, <2>3, PanelType, SamplerFrame
    <2> QED
      BY <2>1, <2>2, <2>3 DEF DrawInv, Panel
  <1>3. CASE Environment \/ UNCHANGED vars
    BY <1>3 DEF DrawInv, Environment, KeyF10, KeyUp, KeyDown, SigExit, Panel, vars, uiVars
  <1> QED
    BY <1>1, <1>2, <1>3 DEF Next, Gone

\* Past the joins no sampler has a step left.
LEMMA DoneStep ==
  ASSUME TypeOK, DoneInv, [Next]_vars PROVE DoneInv'
  <1>1. CASE Main
    BY <1>1 DEF DoneInv, Main, NoColours, StartKeypad, CheckFrame, LockPanel,
                LookPanel, DrawPanel, UnlockPanel, SleepFrame, Join,
                DestroyMutexes, Return, UIUnchanged, samplerVars
  <1>2. ASSUME NEW e \in Devs, Sampler(e) PROVE DoneInv'
    <2>1. pc[e] # "done" /\ UNCHANGED ui
      BY <1>2, SamplerKeepsUI DEF At, Sampler, CheckExit, ScanA, Sleep, ScanB, Diff,
           Enter, Retire, Build, Fill, Publish, Leave
    <2> QED
      BY <2>1 DEF DoneInv
  <1>3. CASE Environment \/ UNCHANGED vars
    BY <1>3 DEF DoneInv, Environment, KeyF10, KeyUp, KeyDown, SigExit, samplerVars,
                vars, uiVars
  <1> QED
    BY <1>1, <1>2, <1>3 DEF Next, Gone

LEMMA InitInv == Init => IInv
  <1> SUFFICES ASSUME Init PROVE IInv
    OBVIOUS
  <1>1. TypeOK
    BY InitType
  <1>2. ASSUME NEW d \in Devs PROVE DevInv(d)
    BY <1>2, DistinctAssumption
    DEF Init, DevInv, MutexInv, KindInv, PointerInv, HeapInv, Critical, UIHolds, Dangling
  <1>3. DrawInv /\ DoneInv
    BY DEF Init, DrawInv, DoneInv
  <1> QED
    BY <1>1, <1>2, <1>3 DEF IInv

LEMMA NextInv == IInv /\ [Next]_vars => IInv'
  <1> SUFFICES ASSUME IInv, [Next]_vars PROVE IInv'
    OBVIOUS
  <1>1. TypeOK'
    BY SamplerType, MainType, EnvironmentType, StutterType DEF IInv, Next, Gone
  <1>2. ASSUME NEW d \in Devs PROVE DevInv(d)'
    <2>1. CASE Main
      BY <2>1, MainStep DEF IInv
    <2>2. ASSUME NEW e \in Devs, Sampler(e) PROVE DevInv(d)'
      <3>1. CASE d = e
        BY <2>2, <3>1, SamplerStep DEF IInv
      <3>2. CASE d # e
        <4>1. UIHolds(d)' <=> UIHolds(d)
          BY <2>2, SamplerKeepsUI DEF UIHolds, Panel
        <4> QED
          BY <2>2, <3>2, <4>1, SamplerFrame, Untouched DEF IInv
      <3> QED
        BY <3>1, <3>2
    <2>3. CASE Environment \/ UNCHANGED vars
      <3>1. UNCHANGED <<samplerVars, global, mtx, heap, uiVars>>
        BY <2>3 DEF Environment, KeyF10, KeyUp, KeyDown, SigExit, vars
      <3> QED
        BY <3>1, Untouched DEF IInv, samplerVars, uiVars, UIHolds, Panel
    <2> QED
      BY <2>1, <2>2, <2>3 DEF Next, Gone
  <1>3. DrawInv'
    BY DrawStep DEF IInv
  <1>4. DoneInv'
    BY DoneStep DEF IInv
  <1> QED
    BY <1>1, <1>2, <1>3, <1>4 DEF IInv

(* The inductive invariant holds in every reachable state.                  *)
THEOREM Invariance == Spec => []IInv
  <1> QED
    BY InitInv, NextInv, PTL DEF Spec

-----------------------------------------------------------------------------
(* The snapshot the UI draws is the current one, allocated and complete,   *)
(* whatever the samplers and the keys do (ncurses_window, *_set_globals).  *)
THEOREM DrawsComplete == Spec => []ReaderSeesComplete
  <1>1. IInv => ReaderSeesComplete
    <2> SUFFICES ASSUME IInv, ui = "draw"
                 PROVE  /\ shown = global[Panel]
                        /\ shown # NULL /\ heap[Panel][shown] = "ready"
      BY DEF ReaderSeesComplete
    <2>1. shown = global[Panel] /\ shown # NULL
      BY DEF IInv, DrawInv
    <2>2. Panel \in Devs /\ DevInv(Panel)
      BY PanelType DEF IInv
    <2>3. ~Critical(Panel)
      BY <2>2, DistinctAssumption DEF DevInv, MutexInv, UIHolds
    <2> QED
      BY <2>1, <2>2, <2>3 DEF DevInv, PointerInv, Critical
  <1> QED
    BY <1>1, Invariance, PTL

(* Every block in use has one owner and a released one has none: the       *)
(* samplers neither leak a snapshot nor release or publish one twice.      *)
THEOREM OneOwner == Spec => []OwnedOnce
  <1>1. IInv => OwnedOnce
    <2> SUFFICES ASSUME IInv, NEW d \in Devs, NEW p \in Blocks
                 PROVE  IF heap[d][p] = "free" THEN Claims(d, p) = {}
                        ELSE \E o \in {"global", "a", "b"} : Claims(d, p) = {o}
      BY DEF OwnedOnce
    <2>1. HeapInv(d) /\ p # NULL
      BY DistinctAssumption DEF IInv, DevInv
    <2>2. CASE heap[d][p] = "free"
      BY <2>1, <2>2 DEF HeapInv, Claims
    <2>3. CASE global[d] = p /\ ~Dangling(d)
      BY <2>1, <2>3 DEF HeapInv, Claims
    <2>4. CASE a[d] = p
      BY <2>1, <2>4 DEF HeapInv, Claims
    <2>5. CASE b[d] = p
      BY <2>1, <2>5 DEF HeapInv, Claims
    <2> QED
      BY <2>1, <2>2, <2>3, <2>4, <2>5 DEF HeapInv
  <1> QED
    BY <1>1, Invariance, PTL

(* When main destroys the mutexes every sampler is done, no mutex is held  *)
(* and what remains allocated is what the globals point to.                *)
THEOREM QuietTeardown == Spec => []TeardownIsQuiet
  <1>1. IInv => TeardownIsQuiet
    <2> SUFFICES ASSUME IInv, ui \in {"destroy", "dump", "returned"}, NEW d \in Devs
                 PROVE  /\ pc[d] = "done" /\ mtx[d] = Free
                        /\ \A p \in Blocks : heap[d][p] # "free" => p = global[d]
      BY DEF TeardownIsQuiet
    <2>1. pc[d] = "done" /\ DevInv(d)
      BY DEF IInv, DoneInv
    <2>2. mtx[d] = Free
      BY <2>1 DEF DevInv, MutexInv, Critical, UIHolds
    <2>3. a[d] = NULL /\ b[d] = NULL
      BY <2>1 DEF DevInv, PointerInv
    <2> QED
      BY <2>1, <2>2, <2>3, DistinctAssumption DEF DevInv, HeapInv
  <1> QED
    BY <1>1, Invariance, PTL
=============================================================================
