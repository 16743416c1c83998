------------------------------ MODULE ProcFiles ------------------------------
(***************************************************************************)
(* The two loops that take the text of a /proc file apart: cpu_info_get    *)
(* over the lines of /proc/cpuinfo and mem_info_get over the pairs that    *)
(* its regular expression finds in /proc/meminfo.  Each fills a global     *)
(* that the sampler releases first (main.c); HWMonitor shows that nobody   *)
(* looks meanwhile.  A string is known by the line it was copied from.     *)
(***************************************************************************)
EXTENDS Naturals, Sequences

CONSTANTS
    CpuFiles,   \* texts of /proc/cpuinfo: sequences of kinds of lines
    MemFiles,   \* texts of /proc/meminfo: sequences of keys with numbers
    Keys        \* the keys that have a field in mem_info_t

ASSUME CpuFilesAssumption ==
    \A file \in CpuFiles : file \in Seq({"model name", "cpu MHz", "other"})
ASSUME MemFilesAssumption ==
    \A file \in MemFiles : file \in Seq([key : STRING, val : Nat])

VARIABLES
    info_pc, line,   \* cpu_info_get: its place, the line at hand
    cpuinfo,         \* the text it reads
    g_cpu_info,      \* name and clock by the line they copy, 0 for NULL
    dubbed,          \* the lines copied by string_dub and not released
    mem_pc,          \* mem_info_get: its place
    meminfo,         \* the text it reads
    i, popped,       \* its index, and how many pairs it took from the list
    g_mem_info,      \* the fields of mem_info_t, in kB
    matched          \* the pairs of strings of the search, not yet released

infoVars == <<info_pc, line, cpuinfo, g_cpu_info, dubbed>>
memVars  == <<mem_pc, meminfo, i, popped, g_mem_info, matched>>
fileVars == <<infoVars, memVars>>

NoInfo  == [name |-> 0, clock |-> 0, cores |-> 0]
NoMem   == [k \in Keys |-> 0]

FileInit ==
    /\ info_pc = "idle" /\ line = 0 /\ cpuinfo = <<>>
    /\ g_cpu_info = NoInfo /\ dubbed = {}
    /\ mem_pc = "idle" /\ meminfo = <<>> /\ i = 0 /\ popped = 0
    /\ g_mem_info = NoMem /\ matched = {}

-----------------------------------------------------------------------------
(* cpu_info_get.                                                           *)

\* cpu_info_release_cb on the old global, then the file as a list of lines.
\* A file without text, or one that fopen refuses, makes string_split refuse
\* too, and the iterator follows the list that was not made.  The copies that
\* an earlier round lost are not counted again.
OpenCpuInfo ==
    /\ info_pc = "idle"
    /\ cpuinfo' \in CpuFiles /\ line' = 1
    /\ info_pc' = IF cpuinfo' = <<>> THEN "crashed" ELSE "line"
    /\ g_cpu_info' = NoInfo
    /\ dubbed' = {}
    /\ UNCHANGED memVars

Current(kind) ==
    /\ info_pc = "line" /\ line <= Len(cpuinfo) /\ cpuinfo[line] = kind
    /\ line' = line + 1

\* Mutant of ModelName: the name of the last processor is kept.
ModelNameAlways ==
    /\ Current("model name")
    /\ g_cpu_info' = [g_cpu_info EXCEPT !.name = line]
    /\ dubbed' = dubbed \cup {line}
    /\ UNCHANGED <<info_pc, cpuinfo, memVars>>

\* The name is copied until a clock was seen: name = NULL is not asked.
ModelName ==
    /\ Current("model name")
    /\ IF g_cpu_info.cores > 0 THEN UNCHANGED <<g_cpu_info, dubbed>>
       ELSE /\ g_cpu_info' = [g_cpu_info EXCEPT !.name = line]
            /\ dubbed' = dubbed \cup {line}
    /\ UNCHANGED <<info_pc, cpuinfo, memVars>>

\* n_cpu counts these lines; the first one has the clock that is shown.
CpuMHz ==
    /\ Current("cpu MHz")
    /\ IF g_cpu_info.cores > 0
       THEN g_cpu_info' = [g_cpu_info EXCEPT !.cores = @ + 1] /\ UNCHANGED dubbed
       ELSE /\ g_cpu_info' = [g_cpu_info EXCEPT !.cores = 1, !.clock = line]
            /\ dubbed' = dubbed \cup {line}
    /\ UNCHANGED <<info_pc, cpuinfo, memVars>>

OtherLine ==
    /\ Current("other")
    /\ UNCHANGED <<info_pc, cpuinfo, g_cpu_info, dubbed, memVars>>

CloseCpuInfo ==
    /\ info_pc = "line" /\ line > Len(cpuinfo)
    /\ info_pc' = "idle"
    /\ UNCHANGED <<line, cpuinfo, g_cpu_info, dubbed, memVars>>

-----------------------------------------------------------------------------
(* mem_info_get.                                                           *)

Size == 2 * (Len(meminfo) - popped)   \* pairs->size: two strings a pair

\* The global is released and made anew, all zero; the search gives a list
\* of the keys and numbers of all the lines.
OpenMemInfo ==
    /\ mem_pc = "idle" /\ mem_pc' = "pair"
    /\ meminfo' \in MemFiles
    /\ i' = 0 /\ popped' = 0
    /\ g_mem_info' = NoMem
    /\ matched' = DOMAIN meminfo'
    /\ UNCHANGED infoVars

\* Mutant of Pair: the two strings that end the loop are not released.
PairLosesLast ==
    /\ mem_pc = "pair" /\ i < Size
    /\ LET p == meminfo[popped + 1]
       IN  /\ g_mem_info' = IF p.key \in Keys THEN [g_mem_info EXCEPT ![p.key] = p.val]
                            ELSE g_mem_info
           /\ mem_pc' = IF p.key = "SwapFree" THEN "close" ELSE "pair"
           /\ matched' = IF p.key = "SwapFree" THEN matched ELSE matched \ {popped + 1}
    /\ i' = i + 1 /\ popped' = popped + 1
    /\ UNCHANGED <<meminfo, infoVars>>

\* i goes up by one while the list gets two shorter.
Pair ==
    /\ mem_pc = "pair" /\ i < Size
    /\ LET p == meminfo[popped + 1]
       IN  /\ g_mem_info' = IF p.key \in Keys THEN [g_mem_info EXCEPT ![p.key] = p.val]
                            ELSE g_mem_info
           /\ mem_pc' = IF p.key = "SwapFree" THEN "close" ELSE "pair"
    /\ matched' = matched \ {popped + 1}
    /\ i' = i + 1 /\ popped' = popped + 1
    /\ UNCHANGED <<meminfo, infoVars>>

\* The loop ends by its condition or by the break; list_release releases
\* the pairs that are still in the list.
CloseMemInfo ==
    /\ mem_pc = "close" \/ (mem_pc = "pair" /\ i >= Size)
    /\ mem_pc' = "idle"
    /\ matched' = matched \ (popped + 1..Len(meminfo))
    /\ UNCHANGED <<meminfo, i, popped, g_mem_info, infoVars>>

InfoGone == info_pc = "crashed" /\ UNCHANGED fileVars

CpuInfoNext == InfoGone \/ OpenCpuInfo \/ ModelName \/ CpuMHz \/ OtherLine \/ CloseCpuInfo
MemInfoNext == OpenMemInfo \/ Pair \/ CloseMemInfo

FileNext == CpuInfoNext \/ MemInfoNext

FileSpec == FileInit /\ [][FileNext]_fileVars
-----------------------------------------------------------------------------
FileTypeOK ==
    /\ info_pc \in {"idle", "line", "crashed"} /\ line \in 0..Len(cpuinfo) + 1
    /\ \A f \in {"name", "clock"} : g_cpu_info[f] \in 0..Len(cpuinfo)
    /\ g_cpu_info.cores \in 0..Len(cpuinfo)
    /\ dubbed \subseteq DOMAIN cpuinfo
    /\ mem_pc \in {"idle", "pair", "close"}
    /\ i \in 0..Len(meminfo) /\ popped = i /\ matched \subseteq DOMAIN meminfo
    /\ g_mem_info \in [Keys -> Nat]

Named(k)   == cpuinfo[k] = "model name"
Clocked(k) == cpuinfo[k] = "cpu MHz"
Clocks     == {k \in DOMAIN cpuinfo : Clocked(k)}
Unclocked  == {k \in DOMAIN cpuinfo : Named(k) /\ \A c \in Clocks : k < c}

(* Between two rounds cpu_info has the name and the clock of the first     *)
(* processor, each the only copy there is, and none where the kernel       *)
(* prints no such line.  Only if several names come before the first clock *)
(* (kernels that print no clock) it has the last of them, and the copies   *)
(* of the others are lost.                                                 *)
InfoOfFirstProcessor ==
    info_pc = "idle" =>
        /\ \A c \in Clocks : g_cpu_info.clock \in Clocks /\ g_cpu_info.clock <= c
        /\ \A k \in Unclocked : g_cpu_info.name \in Unclocked /\ k <= g_cpu_info.name
        /\ dubbed \ {g_cpu_info.name, g_cpu_info.clock}
             = {k \in Unclocked : k < g_cpu_info.name}
        /\ {g_cpu_info.name, g_cpu_info.clock} \ {0} \subseteq dubbed

\* As many pairs are looked at as two thirds of the pairs are, rounded up.
Reached == (2 * Len(meminfo) + 2) \div 3

Ended(k) == \E e \in 1..k - 1 : meminfo[e].key = "SwapFree"

(* The fields hold the numbers of their own lines, as far as these are     *)
(* among the first two thirds of the pairs and not behind SwapFree; what   *)
(* is behind stays 0.  Every string that the search made is released, on   *)
(* both ways out of the loop.                                              *)
MemInfoOfTwoThirds ==
    mem_pc = "idle" =>
        /\ matched = {}
        /\ \A key \in Keys :
              LET lines == {k \in DOMAIN meminfo : /\ meminfo[k].key = key
                                                   /\ k <= Reached /\ ~Ended(k)}
              IN  IF lines = {} THEN g_mem_info[key] = 0
                  ELSE \E k \in lines : g_mem_info[key] = meminfo[k].val
=============================================================================
