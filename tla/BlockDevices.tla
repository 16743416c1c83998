----------------------------- MODULE BlockDevices -----------------------------
(***************************************************************************)
(* One sampler of blk_dev.c against a kernel that goes on meanwhile:       *)
(* blkdev_sample takes two readings of /sys/block, each completed by df    *)
(* and lsblk, and turns the difference of the sector counters into speeds. *)
(* Between any two of its steps disks transfer sectors, are mounted, are   *)
(* pulled out or plugged in.  net_dev.c samples the same way without df    *)
(* and lsblk.  HWMonitor holds the steps of all samplers against the UI;   *)
(* here is what one of them reads.                                         *)
(***************************************************************************)
EXTENDS Naturals, FiniteSets

CONSTANTS
    Disks,      \* the names matching sd.*, disks and partitions
    Modulus,    \* 2^64 in the code: the sector counters are u64
    Space,      \* what df reports as the size of a mounted disk
    Capacity,   \* what lsblk reports as the size of a disk
    ABSENT, REPLACED

ASSUME ModulusAssumption == Modulus \in Nat \ {0}
ASSUME SizesAssumption   == /\ Space \in [Disks -> Nat \ {0}]
                            /\ Capacity \in [Disks -> Nat \ {0}]
                            /\ ABSENT # REPLACED /\ {ABSENT, REPLACED} \cap Nat = {}
                            /\ ABSENT \notin Nat \X Nat

VARIABLES
    attached,   \* the disks the kernel knows
    counter,    \* sectors transferred by each since it was attached, or 0
    used,       \* bytes used on each mounted disk, or ABSENT
    pc, turn,   \* the sampler's place, and the reading it takes: "a" or "b"
    cur,        \* the directory entry at hand
    devs,       \* devs_a and devs_b: a record per disk read
    constant,   \* history: the disks attached since the directory was opened
    traffic     \* history: sectors each disk really transferred between its
                \* two readings, ABSENT without a first one, REPLACED if
                \* another disk has its name since

kernel == <<attached, counter, used>>
blkVars   == <<kernel, pc, turn, cur, devs, constant, traffic>>

Empty == [d \in {} |-> ABSENT]
Fresh == [stat |-> 0, size |-> 0, used |-> 0, perc |-> ABSENT, perf |-> 0]

BlkInit ==
    /\ attached = Disks
    /\ counter = [d \in Disks |-> 0] /\ used = [d \in Disks |-> ABSENT]
    /\ pc = "scan" /\ turn = "a" /\ cur = ABSENT
    /\ devs = [a |-> Empty, b |-> Empty]
    /\ constant = Disks
    /\ traffic = [d \in Disks |-> ABSENT]

-----------------------------------------------------------------------------
(* The kernel.                                                             *)

Followed(d) == traffic[d] \notin {ABSENT, REPLACED} /\ d \notin DOMAIN devs.b

\* A window sees fewer than Modulus sectors, or no counter could tell.
Transfer(d) ==
    /\ d \in attached
    /\ Followed(d) => traffic[d] + 1 < Modulus
    /\ counter' = [counter EXCEPT ![d] = (@ + 1) % Modulus]
    /\ traffic' = IF Followed(d) THEN [traffic EXCEPT ![d] = @ + 1] ELSE traffic
    /\ UNCHANGED <<attached, used, pc, turn, cur, devs, constant>>

Mount(d) ==
    /\ d \in attached /\ used[d] = ABSENT
    /\ \E u \in 1..Space[d] : used' = [used EXCEPT ![d] = u]
    /\ UNCHANGED <<attached, counter, pc, turn, cur, devs, constant, traffic>>

Unmount(d) ==
    /\ used[d] # ABSENT
    /\ used' = [used EXCEPT ![d] = ABSENT]
    /\ UNCHANGED <<attached, counter, pc, turn, cur, devs, constant, traffic>>

Unplug(d) ==
    /\ d \in attached
    /\ attached' = attached \ {d}
    /\ counter' = [counter EXCEPT ![d] = 0]
    /\ used' = [used EXCEPT ![d] = ABSENT]
    /\ constant' = constant \ {d}
    /\ traffic' = IF Followed(d) THEN [traffic EXCEPT ![d] = REPLACED] ELSE traffic
    /\ UNCHANGED <<pc, turn, cur, devs>>

\* The disk under this name is a new one to the kernel: it counts from 0.
Plug(d) ==
    /\ d \notin attached
    /\ attached' = attached \cup {d}
    /\ UNCHANGED <<counter, used, pc, turn, cur, devs, constant, traffic>>

Kernel(d) == Transfer(d) \/ Mount(d) \/ Unmount(d) \/ Unplug(d) \/ Plug(d)

-----------------------------------------------------------------------------
(* blkdev_get: blk_dev_scan, df_execute, sblk_execute.                     *)

Add(d, r) == [devs EXCEPT ![turn] = [e \in DOMAIN @ \cup {d} |-> IF e = d THEN r ELSE @[e]]]

ReadDir(d) ==
    /\ pc = "scan" /\ d \in attached \ DOMAIN devs[turn]
    /\ cur' = d /\ pc' = "stat"
    /\ UNCHANGED <<kernel, turn, devs, constant, traffic>>

\* If the disk is gone by now, fopen returns NULL and fseek ends the process.
ReadStat ==
    /\ pc = "stat" /\ cur' = ABSENT
    /\ \/ /\ cur \in attached /\ pc' = "scan"
          /\ devs' = Add(cur, [Fresh EXCEPT !.stat = counter[cur]])
          /\ traffic' = IF turn = "a" THEN [traffic EXCEPT ![cur] = 0] ELSE traffic
       \/ cur \notin attached /\ pc' = "crashed" /\ UNCHANGED <<devs, traffic>>
    /\ UNCHANGED <<kernel, turn, constant>>

\* readdir has returned every entry that was there all along, and those of
\* the disks plugged in meanwhile or not.
EndDir ==
    /\ pc = "scan" /\ constant \subseteq DOMAIN devs[turn]
    /\ pc' = "df"
    /\ UNCHANGED <<kernel, turn, cur, devs, constant, traffic>>

\* df_callback fills the disks of the list that df reports; used and size
\* come from one line, and the percentage from these two.
Df ==
    /\ pc = "df" /\ pc' = "lsblk"
    /\ devs' = [devs EXCEPT ![turn] = [d \in DOMAIN @ |->
                   IF used[d] = ABSENT THEN @[d]
                   ELSE [@[d] EXCEPT !.size = Space[d], !.used = used[d],
                                     !.perc = <<used[d], Space[d]>>]]]
    /\ UNCHANGED <<kernel, turn, cur, constant, traffic>>

AfterGet == IF turn = "a" THEN "sleep" ELSE "diff"

\* Mutant of Lsblk: lsblk's size replaces the one of df.
LsblkOverwrites ==
    /\ pc = "lsblk" /\ pc' = AfterGet
    /\ devs' = [devs EXCEPT ![turn] = [d \in DOMAIN @ |->
                   IF d \in attached THEN [@[d] EXCEPT !.size = Capacity[d]] ELSE @[d]]]
    /\ UNCHANGED <<kernel, turn, cur, constant, traffic>>

\* sblk_callback sets the size of the disks that df left without one.
Lsblk ==
    /\ pc = "lsblk" /\ pc' = AfterGet
    /\ devs' = [devs EXCEPT ![turn] = [d \in DOMAIN @ |->
                   IF d \in attached /\ @[d].size = 0
                   THEN [@[d] EXCEPT !.size = Capacity[d]] ELSE @[d]]]
    /\ UNCHANGED <<kernel, turn, cur, constant, traffic>>

-----------------------------------------------------------------------------
(* blkdev_sample.                                                          *)

Sleep ==
    /\ pc = "sleep" /\ pc' = "scan" /\ turn' = "b"
    /\ constant' = attached
    /\ UNCHANGED <<kernel, cur, devs, traffic>>

\* Mutant of Compared: the difference is signed.
ComparedSigned(a, b) ==
    [b EXCEPT !.stat = b.stat - a.stat, !.perf = b.stat - a.stat]

\* blk_dev_diff; perf is the number of sectors, a constant factor aside.
Compared(a, b) ==
    LET sectors == (b.stat + Modulus - a.stat) % Modulus
    IN  [b EXCEPT !.stat = sectors, !.perf = sectors]

\* Disks are matched by name; one that is new in devs_b is left as it is,
\* one that is only in devs_a goes with list_release(devs_a).
Diff ==
    /\ pc = "diff" /\ pc' = "show"
    /\ devs' = [a |-> Empty, b |-> [d \in DOMAIN devs.b |->
                   IF d \in DOMAIN devs.a THEN Compared(devs.a[d], devs.b[d])
                   ELSE devs.b[d]]]
    /\ UNCHANGED <<kernel, turn, cur, constant, traffic>>

\* The callback takes devs_b, and the next round begins.
Publish ==
    /\ pc = "show" /\ pc' = "scan" /\ turn' = "a"
    /\ devs' = [a |-> Empty, b |-> Empty]
    /\ constant' = attached
    /\ traffic' = [d \in Disks |-> ABSENT]
    /\ UNCHANGED <<kernel, cur>>

Sampler ==
    \/ \E d \in Disks : ReadDir(d)
    \/ ReadStat \/ EndDir \/ Df \/ Lsblk \/ Sleep \/ Diff \/ Publish

Gone == pc = "crashed" /\ UNCHANGED blkVars

BlkNext == IF pc = "crashed" THEN Gone ELSE Sampler \/ \E d \in Disks : Kernel(d)

BlkSpec == BlkInit /\ [][BlkNext]_blkVars
-----------------------------------------------------------------------------
Device == [stat : 0..Modulus - 1, size : Nat, used : Nat,
           perc : {ABSENT} \cup (Nat \X Nat), perf : 0..Modulus - 1]

BlkTypeOK ==
    /\ attached \subseteq Disks /\ constant \subseteq attached
    /\ counter \in [Disks -> 0..Modulus - 1]
    /\ \A d \in Disks : used[d] = ABSENT \/ used[d] \in 1..Space[d]
    /\ pc \in {"scan", "stat", "df", "lsblk", "sleep", "diff", "show", "crashed"}
    /\ turn \in {"a", "b"} /\ cur \in Disks \cup {ABSENT}
    /\ \A r \in {"a", "b"} :
          DOMAIN devs[r] \subseteq Disks /\ \A d \in DOMAIN devs[r] : devs[r][d] \in Device
    /\ traffic \in [Disks -> 0..Modulus - 1 \cup {ABSENT, REPLACED}]

(* The speed handed on for a disk is what it transferred between its two   *)
(* readings, even if its counter wrapped in between, and nothing for a     *)
(* disk that was plugged in after the first reading; only a disk replaced  *)
(* by another under the same name shows a meaningless one.                 *)
SpeedsAreTraffic ==
    pc = "show" =>
        \A d \in DOMAIN devs.b :
            \/ traffic[d] = REPLACED
            \/ devs.b[d].perf = IF traffic[d] = ABSENT THEN 0 ELSE traffic[d]

(* The percentage, the used bytes and the size handed on for a disk belong *)
(* together, whatever df and lsblk said one after the other about a disk   *)
(* mounted, unmounted or pulled out between them.                          *)
UsageMatchesSize ==
    pc = "show" =>
        \A d \in DOMAIN devs.b :
            LET dev == devs.b[d]
            IN  IF dev.perc = ABSENT THEN dev.used = 0
                ELSE dev.perc = <<dev.used, dev.size>> /\ dev.used <= dev.size
=============================================================================
