--------------------------- MODULE AllocatorsProofs ---------------------------
(***************************************************************************)
(* Proofs about the allocation registry for any number of threads,         *)
(* addresses and sizes.  The heart of the invariant is that a block has at *)
(* most one holder: the thread that owns it or whose call is setting up or *)
(* releasing it.  The race on a moved block's old address escapes it only  *)
(* because the mover no longer holds that address.                         *)
(***************************************************************************)
EXTENDS Allocators, TLAPS

Holds(t, p) == p \in own[t] \/ Acquiring(t, p) \/ Releasing(t, p)

\* The local variables each program point relies on.
LocalInv ==
    \A t \in Threads :
        /\ pc[t] = "set"  => new[t] \in Addrs
        /\ pc[t] = "del"  => old[t] \in Addrs /\ new[t] # old[t]
        /\ pc[t] = "free" => old[t] \in Addrs

HolderInv ==
    /\ \A s, t \in Threads, p \in Addrs : Holds(s, p) /\ Holds(t, p) => s = t
    /\ \A t \in Threads, p \in Addrs :
          /\ Holds(t, p) => heap[p] # 0
          /\ Acquiring(t, p) => p \notin own[t] /\ heap[p] = len[t]
          /\ Releasing(t, p) => p \notin own[t] /\ reg[p] = 0

IInv == /\ TypeOK /\ LocalInv /\ HolderInv
        /\ NoPhantom /\ SizesAgree /\ AccountedUnlessExcused

-----------------------------------------------------------------------------
LEMMA InitInv == Init => IInv
  BY NullAssumption DEF Init, IInv, TypeOK, LocalInv, HolderInv, Holds, Acquiring,
     Releasing, NoPhantom, SizesAgree, AccountedUnlessExcused

\* Every step of a thread keeps the invariant.
LEMMA ThreadStep ==
  ASSUME IInv, NEW t \in Threads, Thread(t) PROVE IInv'
  <1> USE SizesAssumption, NullAssumption DEF IInv, Step, Done
  <1>1. ASSUME NEW v \in Addrs, NEW n \in Sizes, Zalloc(t, v, n) PROVE IInv'
    <2>1. TypeOK'
      BY <1>1 DEF Zalloc, TypeOK
    <2>2. LocalInv'
      BY <1>1 DEF Zalloc, TypeOK, LocalInv, HolderInv, Holds, Acquiring
    <2>3. HolderInv'
      BY <1>1 DEF Zalloc, TypeOK, LocalInv, HolderInv, Holds,
                    Acquiring, Releasing
    <2>4. NoPhantom'
      BY <1>1 DEF Zalloc, TypeOK, LocalInv, HolderInv, Holds,
                    Acquiring, Releasing, NoPhantom, Deleting
    <2>5. SizesAgree'
      BY <1>1 DEF Zalloc, TypeOK, LocalInv, HolderInv, Holds,
                    Acquiring, Releasing, SizesAgree
    <2>6. AccountedUnlessExcused'
      BY <1>1 DEF Zalloc, TypeOK, LocalInv, HolderInv, Holds,
                    Acquiring, Releasing,
                    AccountedUnlessExcused
    <2> QED
      BY <2>1, <2>2, <2>3, <2>4, <2>5, <2>6
  <1>2. ASSUME NEW p \in Addrs, NEW n \in Sizes, ReallocInPlace(t, p, n) PROVE IInv'
    <2>1. TypeOK'
      BY <1>2 DEF ReallocInPlace, TypeOK
    <2>2. LocalInv'
      BY <1>2 DEF ReallocInPlace, TypeOK, LocalInv, HolderInv, Holds, Acquiring
    <2>3. HolderInv'
      BY <1>2 DEF ReallocInPlace, TypeOK, LocalInv, HolderInv, Holds,
                    Acquiring, Releasing
    <2>4. NoPhantom'
      BY <1>2 DEF ReallocInPlace, TypeOK, LocalInv, HolderInv, Holds,
                    Acquiring, Releasing, NoPhantom, Deleting
    <2>5. SizesAgree'
      BY <1>2 DEF ReallocInPlace, TypeOK, LocalInv, HolderInv, Holds,
                    Acquiring, Releasing, SizesAgree
    <2>6. AccountedUnlessExcused'
      BY <1>2 DEF ReallocInPlace, TypeOK, LocalInv, HolderInv, Holds,
                    Acquiring, Releasing,
                    AccountedUnlessExcused
    <2> QED
      BY <2>1, <2>2, <2>3, <2>4, <2>5, <2>6
  <1>3. ASSUME NEW p \in Addrs, NEW v \in Addrs, NEW n \in Sizes, ReallocMoves(t, p, v, n) PROVE IInv'
    <2>1. TypeOK'
      BY <1>3 DEF ReallocMoves, TypeOK
    <2>2. LocalInv'
      BY <1>3 DEF ReallocMoves, TypeOK, LocalInv, HolderInv, Holds, Acquiring
    <2>3. HolderInv'
      BY <1>3 DEF ReallocMoves, TypeOK, LocalInv, HolderInv, Holds,
                    Acquiring, Releasing
    <2>4. NoPhantom'
      BY <1>3 DEF ReallocMoves, TypeOK, LocalInv, HolderInv, Holds,
                    Acquiring, Releasing, NoPhantom, Deleting
    <2>5. SizesAgree'
      BY <1>3 DEF ReallocMoves, TypeOK, LocalInv, HolderInv, Holds,
                    Acquiring, Releasing, SizesAgree
    <2>6. AccountedUnlessExcused'
      BY <1>3 DEF ReallocMoves, TypeOK, LocalInv, HolderInv, Holds,
                    Acquiring, Releasing,
                    AccountedUnlessExcused
    <2> QED
      BY <2>1, <2>2, <2>3, <2>4, <2>5, <2>6
  <1>4. ASSUME NEW p \in Addrs, ReallocToZero(t, p) PROVE IInv'
    <2>1. TypeOK'
      BY <1>4 DEF ReallocToZero, TypeOK
    <2>2. LocalInv'
      BY <1>4 DEF ReallocToZero, TypeOK, LocalInv, HolderInv, Holds, Acquiring
    <2>3. HolderInv'
      BY <1>4 DEF ReallocToZero, TypeOK, LocalInv, HolderInv, Holds,
                    Acquiring, Releasing
    <2>4. NoPhantom'
      BY <1>4 DEF ReallocToZero, TypeOK, LocalInv, HolderInv, Holds,
                    Acquiring, Releasing, NoPhantom, Deleting
    <2>5. SizesAgree'
      BY <1>4 DEF ReallocToZero, TypeOK, LocalInv, HolderInv, Holds,
                    Acquiring, Releasing, SizesAgree
    <2>6. AccountedUnlessExcused'
      BY <1>4 DEF ReallocToZero, TypeOK, LocalInv, HolderInv, Holds,
                    Acquiring, Releasing,
                    AccountedUnlessExcused
    <2> QED
      BY <2>1, <2>2, <2>3, <2>4, <2>5, <2>6
  <1>5. ASSUME NEW p \in Addrs, ReallocFails(t, p) PROVE IInv'
    <2>1. TypeOK'
      BY <1>5 DEF ReallocFails, TypeOK
    <2>2. LocalInv'
      BY <1>5 DEF ReallocFails, TypeOK, LocalInv, HolderInv, Holds, Acquiring
    <2>3. HolderInv'
      BY <1>5 DEF ReallocFails, TypeOK, LocalInv, HolderInv, Holds,
                    Acquiring, Releasing
    <2>4. NoPhantom'
      BY <1>5 DEF ReallocFails, TypeOK, LocalInv, HolderInv, Holds,
                    Acquiring, Releasing, NoPhantom, Deleting
    <2>5. SizesAgree'
      BY <1>5 DEF ReallocFails, TypeOK, LocalInv, HolderInv, Holds,
                    Acquiring, Releasing, SizesAgree
    <2>6. AccountedUnlessExcused'
      BY <1>5 DEF ReallocFails, TypeOK, LocalInv, HolderInv, Holds,
                    Acquiring, Releasing,
                    AccountedUnlessExcused
    <2> QED
      BY <2>1, <2>2, <2>3, <2>4, <2>5, <2>6
  <1>6. ASSUME NEW p \in Addrs, ZfreeDelInfo(t, p) PROVE IInv'
    <2>1. TypeOK'
      BY <1>6 DEF ZfreeDelInfo, TypeOK
    <2>2. LocalInv'
      BY <1>6 DEF ZfreeDelInfo, TypeOK, LocalInv, HolderInv, Holds, Acquiring
    <2>3. HolderInv'
      BY <1>6 DEF ZfreeDelInfo, TypeOK, LocalInv, HolderInv, Holds,
                    Acquiring, Releasing
    <2>4. NoPhantom'
      BY <1>6 DEF ZfreeDelInfo, TypeOK, LocalInv, HolderInv, Holds,
                    Acquiring, Releasing, NoPhantom, Deleting
    <2>5. SizesAgree'
      BY <1>6 DEF ZfreeDelInfo, TypeOK, LocalInv, HolderInv, Holds,
                    Acquiring, Releasing, SizesAgree
    <2>6. AccountedUnlessExcused'
      BY <1>6 DEF ZfreeDelInfo, TypeOK, LocalInv, HolderInv, Holds,
                    Acquiring, Releasing,
                    AccountedUnlessExcused
    <2> QED
      BY <2>1, <2>2, <2>3, <2>4, <2>5, <2>6
  <1>7. ASSUME DelInfo(t) PROVE IInv'
    <2>1. old[t] \in Addrs
      BY <1>7 DEF DelInfo, LocalInv
    <2>2. reg' = [reg EXCEPT ![old[t]] = 0] /\ UNCHANGED <<heap, own>>
      BY <1>7 DEF DelInfo
    <2>3. CASE new[t] = NULL /\ Done(t)
      <3>1. TypeOK'
        BY <1>7, <2>1, <2>3 DEF DelInfo, TypeOK
      <3>2. LocalInv'
        BY <1>7, <2>3 DEF DelInfo, TypeOK, LocalInv
      <3>3. HolderInv'
        BY <1>7, <2>1, <2>2, <2>3 DEF DelInfo, TypeOK, HolderInv, Holds, Acquiring, Releasing
      <3>4. NoPhantom'
        BY <1>7, <2>1, <2>2, <2>3 DEF DelInfo, TypeOK, NoPhantom, Deleting
      <3>5. SizesAgree'
        BY <1>7, <2>1, <2>2, <2>3 DEF DelInfo, TypeOK, SizesAgree, Acquiring
      <3>6. AccountedUnlessExcused'
        BY <1>7, <2>1, <2>2, <2>3
        DEF DelInfo, TypeOK, AccountedUnlessExcused, Acquiring, Releasing
      <3> QED
        BY <3>1, <3>2, <3>3, <3>4, <3>5, <3>6
    <2>4. CASE new[t] # NULL /\ Step(t, "set", old[t], new[t], len[t])
      <3>1. TypeOK'
        BY <1>7, <2>1, <2>4 DEF DelInfo, TypeOK
      <3>2. LocalInv'
        BY <1>7, <2>4 DEF DelInfo, TypeOK, LocalInv
      <3>3. HolderInv'
        BY <1>7, <2>1, <2>2, <2>4 DEF DelInfo, TypeOK, HolderInv, Holds, Acquiring, Releasing
      <3>4. NoPhantom'
        BY <1>7, <2>1, <2>2, <2>4 DEF DelInfo, TypeOK, NoPhantom, Deleting
      <3>5. SizesAgree'
        BY <1>7, <2>1, <2>2, <2>4 DEF DelInfo, TypeOK, SizesAgree, Acquiring
      <3>6. AccountedUnlessExcused'
        BY <1>7, <2>1, <2>2, <2>4
        DEF DelInfo, TypeOK, AccountedUnlessExcused, Acquiring, Releasing
      <3> QED
        BY <3>1, <3>2, <3>3, <3>4, <3>5, <3>6
    <2> QED
      BY <1>7, <2>3, <2>4 DEF DelInfo
  <1>8. ASSUME SetInfo(t) PROVE IInv'
    <2>1. TypeOK'
      BY <1>8 DEF SetInfo, TypeOK, LocalInv
    <2>2. LocalInv'
      BY <1>8 DEF SetInfo, TypeOK, LocalInv, HolderInv, Holds, Acquiring
    <2>3. HolderInv'
      BY <1>8 DEF SetInfo, TypeOK, LocalInv, HolderInv, Holds,
                    Acquiring, Releasing
    <2>4. NoPhantom'
      BY <1>8 DEF SetInfo, TypeOK, LocalInv, HolderInv, Holds,
                    Acquiring, Releasing, NoPhantom, Deleting
    <2>5. SizesAgree'
      BY <1>8 DEF SetInfo, TypeOK, LocalInv, HolderInv, Holds,
                    Acquiring, Releasing, SizesAgree
    <2>6. AccountedUnlessExcused'
      BY <1>8 DEF SetInfo, TypeOK, LocalInv, HolderInv, Holds,
                    Acquiring, Releasing,
                    AccountedUnlessExcused
    <2> QED
      BY <2>1, <2>2, <2>3, <2>4, <2>5, <2>6
  <1>9. ASSUME SetInfoFails(t) PROVE IInv'
    <2>1. TypeOK'
      BY <1>9 DEF SetInfoFails, TypeOK, LocalInv
    <2>2. LocalInv'
      BY <1>9 DEF SetInfoFails, TypeOK, LocalInv, HolderInv, Holds, Acquiring
    <2>3. HolderInv'
      BY <1>9 DEF SetInfoFails, TypeOK, LocalInv, HolderInv, Holds,
                    Acquiring, Releasing
    <2>4. NoPhantom'
      BY <1>9 DEF SetInfoFails, TypeOK, LocalInv, HolderInv, Holds,
                    Acquiring, Releasing, NoPhantom, Deleting
    <2>5. SizesAgree'
      BY <1>9 DEF SetInfoFails, TypeOK, LocalInv, HolderInv, Holds,
                    Acquiring, Releasing, SizesAgree
    <2>6. AccountedUnlessExcused'
      BY <1>9 DEF SetInfoFails, TypeOK, LocalInv, HolderInv, Holds,
                    Acquiring, Releasing,
                    AccountedUnlessExcused
    <2> QED
      BY <2>1, <2>2, <2>3, <2>4, <2>5, <2>6
  <1>10. ASSUME ZfreeRelease(t) PROVE IInv'
    <2>1. TypeOK'
      BY <1>10 DEF ZfreeRelease, TypeOK
    <2>2. LocalInv'
      BY <1>10 DEF ZfreeRelease, TypeOK, LocalInv, HolderInv, Holds, Acquiring
    <2>3. HolderInv'
      BY <1>10 DEF ZfreeRelease, TypeOK, LocalInv, HolderInv, Holds,
                    Acquiring, Releasing
    <2>4. NoPhantom'
      BY <1>10 DEF ZfreeRelease, TypeOK, LocalInv, HolderInv, Holds,
                    Acquiring, Releasing, NoPhantom, Deleting
    <2>5. SizesAgree'
      BY <1>10 DEF ZfreeRelease, TypeOK, LocalInv, HolderInv, Holds,
                    Acquiring, Releasing, SizesAgree
    <2>6. AccountedUnlessExcused'
      BY <1>10 DEF ZfreeRelease, TypeOK, LocalInv, HolderInv, Holds,
                    Acquiring, Releasing,
                    AccountedUnlessExcused
    <2> QED
      BY <2>1, <2>2, <2>3, <2>4, <2>5, <2>6
  <1>11. CASE ZallocFails(t)
    BY <1>11 DEF ZallocFails, vars, locals, TypeOK, LocalInv, HolderInv, Holds,
         Acquiring, Releasing, NoPhantom, Deleting, SizesAgree, AccountedUnlessExcused
  <1> QED
    BY <1>1, <1>2, <1>3, <1>4, <1>5, <1>6, <1>7, <1>8, <1>9, <1>10, <1>11 DEF Thread

(* The inductive invariant holds in every reachable state.                  *)
THEOREM Invariance == Spec => []IInv
  <1>1. IInv /\ [Next]_vars => IInv'
    <2>1. CASE UNCHANGED vars
      BY <2>1 DEF vars, locals, IInv, TypeOK, LocalInv, HolderInv, Holds,
           Acquiring, Releasing, NoPhantom, Deleting, SizesAgree, AccountedUnlessExcused
    <2> QED
      BY <2>1, ThreadStep DEF Next
  <1> QED
    BY InitInv, <1>1, PTL DEF Spec

(* Every variable of the allocators stays in its type.                      *)
THEOREM TypeCorrect == Spec => []TypeOK
  <1>1. IInv => TypeOK
    BY DEF IInv
  <1> QED
    BY <1>1, Invariance, PTL

(* The registry reports no memory that was given back, but for the entry   *)
(* of a block a zrealloc under way has just moved (allocators.c).          *)
THEOREM NothingPhantom == Spec => []NoPhantom
  <1>1. IInv => NoPhantom
    BY DEF IInv
  <1> QED
    BY <1>1, Invariance, PTL

(* A block that no call is working on is reported with its own size.        *)
THEOREM SizesCorrect == Spec => []SizesAgree
  <1>1. IInv => SizesAgree
    BY DEF IInv
  <1> QED
    BY <1>1, Invariance, PTL

(* A block is missing from the report only during its own call, after a    *)
(* failure, or because a zrealloc deleted the entry of its address late.   *)
THEOREM MissingExplained == Spec => []AccountedUnlessExcused
  <1>1. IInv => AccountedUnlessExcused
    BY DEF IInv
  <1> QED
    BY <1>1, Invariance, PTL
=============================================================================
