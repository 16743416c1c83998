------------------------------- MODULE Meters -------------------------------
(***************************************************************************)
(* The bars of ncurses_window: the processor's from cpu_usage, the         *)
(* memory's and the swap's from mem_info.  A bar is lit from the left, 30  *)
(* cells green, 15 yellow and 5 red.                                       *)
(***************************************************************************)
EXTENDS Processor, ProcFiles, Integers

CONSTANT Lowest   \* INT64_MIN, what a cast of "not a number" to int64 gives

\* The kernel's numbers of kB are far below 2^63 / 50.
ASSUME LowestAssumption ==
    /\ Lowest \in Int /\ Lowest < 0
    /\ \A file \in MemFiles : \A k \in DOMAIN file : 50 * file[k].val < -Lowest
ASSUME KeysAssumption == {"MemTotal", "MemFree", "SwapTotal", "SwapFree"} \subseteq Keys

AtMost(x, y)  == IF x < y THEN x ELSE y
Iterations(n) == IF n > 0 THEN n ELSE 0

\* progress - 30 overflows for the lowest number: what comes of it is large
\* if it wraps, and negative if the compiler reasons that it cannot.
Less(progress, n) ==
    IF progress = Lowest THEN {Lowest, -Lowest - n} ELSE {progress - n}

\* Mutant of Lit: the red part is counted from where the yellow one begins.
LitFromYellow(progress) ==
    {[green  |-> Iterations(AtMost(progress, 30)),
      yellow |-> Iterations(AtMost(y, 15)),
      red    |-> Iterations(AtMost(r, 5))] :
        y \in Less(progress, 30), r \in Less(progress, 30)}

\* The three loops of ncurses_bar_render, as the cells they light.
Lit(progress) ==
    {[green  |-> Iterations(AtMost(progress, 30)),
      yellow |-> Iterations(AtMost(y, 15)),
      red    |-> Iterations(AtMost(r, 5))] :
        y \in Less(progress, 30), r \in Less(progress, 45)}

\* ncurses_cpu_bar_render: a number of 2^63 or more is negative as int64.
CpuProgress == IF cpu_usage >= Huge THEN Lowest \div 2 ELSE cpu_usage \div 2

\* 100 - free / total * 100, halved and cast; 0 / 0 is not a number.
LoadProgress(free, total) ==
    IF total = 0 THEN Lowest ELSE (50 * (total - free)) \div total

MemProgress  == LoadProgress(g_mem_info["MemFree"], g_mem_info["MemTotal"])
SwapProgress == LoadProgress(g_mem_info["SwapFree"], g_mem_info["SwapTotal"])

InOrder(bar) == /\ bar.yellow > 0 => bar.green = 30
                /\ bar.red > 0 => bar.yellow = 15

(* A bar is lit without a gap, whatever the usage is, even one far above   *)
(* 100 after the kernel lowered a counter.  The swap's bar is only excused *)
(* on a machine without swap, where 0 is divided by 0, and the memory's    *)
(* one before the first reading.                                           *)
BarsWithoutGap ==
    /\ \A bar \in Lit(CpuProgress) : InOrder(bar)
    /\ mem_pc = "idle" =>
          /\ g_mem_info["MemTotal"] = 0 \/ \A bar \in Lit(MemProgress) : InOrder(bar)
          /\ g_mem_info["SwapTotal"] = 0 \/ \A bar \in Lit(SwapProgress) : InOrder(bar)
=============================================================================
