------------------------------ MODULE Processor ------------------------------
(***************************************************************************)
(* The processor's meter: cpu_dev_sample of main.c reads the first line of *)
(* /proc/stat twice through cpu_dev_get, with a sleep in between, and      *)
(* turns the two readings into the percentage in cpu_usage.  The kernel    *)
(* counts ticks all the time, in one field per kind of work.               *)
(***************************************************************************)
EXTENDS Integers

CONSTANTS
    Fields,      \* the fields of cpu_dev_t whose counters move here
    Word,        \* 2^64 in the code: the fields are u64
    MaxTicks,    \* bound on the ticks between two readings
    Huge,        \* what a cast of "not a number" to ulong may give, 2^63
    NONE

Idle  == {"idle", "iowait"} \cap Fields
Busy  == {"user", "nice", "system", "irc", "softirc", "steal"} \cap Fields
Guest == {"guest", "guest_nice"} \cap Fields

\* The fields that a kernel printing seven numbers leaves out.
Late == {"steal", "guest", "guest_nice"} \cap Fields

ASSUME FieldsAssumption == Fields = Idle \cup Busy \cup Guest /\ "user" \in Busy
ASSUME WordAssumption   == /\ Word \in Nat /\ MaxTicks \in Nat /\ MaxTicks < Word
                           /\ Huge \in Nat /\ NONE \notin Nat

VARIABLES
    seven,      \* whether the kernel prints seven numbers instead of ten
    ticks,      \* the kernel's counters
    cpu_pc,     \* "check", or "sleep" between the two readings
    cpu_a,      \* the first reading, NONE before it
    cpu_usage,  \* the percentage, an atomic that the UI loads
    since,      \* history: what the kernel did since the first reading
    measured    \* history: since, as it was when cpu_usage was stored, until
                \* the next round begins

kernelVars == <<seven, ticks>>
cpuVars    == <<kernelVars, cpu_pc, cpu_a, cpu_usage, since, measured>>

Counter == 0..Word - 1
Nothing == [busy |-> 0, idle |-> 0, fell |-> FALSE]

CpuInit ==
    /\ seven \in BOOLEAN
    /\ ticks = [f \in Fields |-> 0]
    /\ cpu_pc = "check" /\ cpu_a = NONE
    /\ cpu_usage = 0
    /\ since = Nothing /\ measured = NONE

-----------------------------------------------------------------------------
(* The kernel.  A tick spent in a guest also counts as user time.  Ticks    *)
(* before the first reading only make the counters start elsewhere; here   *)
(* they start where the round before left them.                            *)

Tick(f) ==
    /\ cpu_pc = "sleep" /\ since.busy + since.idle < MaxTicks
    /\ LET counted == {f} \cup (IF f \in Guest THEN {"user"} ELSE {})
       IN  ticks' = [g \in Fields |-> IF g \in counted THEN (ticks[g] + 1) % Word
                                      ELSE ticks[g]]
    /\ since' = IF f \in Idle THEN [since EXCEPT !.idle = @ + 1]
                ELSE [since EXCEPT !.busy = @ + 1]
    /\ UNCHANGED <<seven, cpu_pc, cpu_a, cpu_usage, measured>>

\* The kernel corrects its estimate of the time spent waiting for disks.
Correct ==
    /\ cpu_pc = "sleep" /\ "iowait" \in Fields /\ ticks["iowait"] > 0 /\ ~since.fell
    /\ ticks' = [ticks EXCEPT !["iowait"] = @ - 1]
    /\ since' = [since EXCEPT !.fell = TRUE]
    /\ UNCHANGED <<seven, cpu_pc, cpu_a, cpu_usage, measured>>

-----------------------------------------------------------------------------
(* The sampler.                                                            *)

\* cpu_dev_get.  The numbers go into istats one after the other, and the
\* entries that the line has no number for are read all the same.
Readings ==
    IF ~seven THEN {ticks}
    ELSE {[f \in Fields |-> IF f \in Late THEN r[f] ELSE ticks[f]] :
             r \in [Late -> Counter]}

\* The sums of cpu_dev_diff_usage, in u64.
Field(r, f) == IF f \in Fields THEN r[f] ELSE 0
IdleSum(r)  == (Field(r, "idle") + Field(r, "iowait")) % Word
NonIdle(r)  == (Field(r, "user") + Field(r, "nice") + Field(r, "system") + Field(r, "irc")
                + Field(r, "softirc") + Field(r, "steal")) % Word
Total(r)    == (IdleSum(r) + NonIdle(r)) % Word

\* Mutant of Minus: the difference is signed.
MinusSigned(x, y) == x - y

Minus(x, y) == (x + Word - y) % Word

\* The share of totald that is not idled, times 100, cast to ulong.  Without
\* a tick the quotient is no number, and what the cast makes of it is undefined.
Share(totald, idled) ==
    IF totald = 0 THEN {0, Huge} ELSE {(100 * Minus(totald, idled)) \div totald}

\* Mutant of Usage: guest time, which user has, counts a second time.
UsageGuestTwice(a, b) ==
    LET Guests(r) == Field(r, "guest") + Field(r, "guest_nice")
    IN  Share(Minus((Total(b) + Guests(b)) % Word, (Total(a) + Guests(a)) % Word),
              Minus(IdleSum(b), IdleSum(a)))

\* cpu_dev_diff_usage of two readings.
Usage(a, b) == Share(Minus(Total(b), Total(a)), Minus(IdleSum(b), IdleSum(a)))

ReadFirst ==
    /\ cpu_pc = "check" /\ cpu_pc' = "sleep"
    /\ cpu_a' \in Readings
    /\ since' = Nothing /\ measured' = NONE
    /\ UNCHANGED <<kernelVars, cpu_usage>>

\* The second reading, the comparison and the atomic_store, of which the
\* other threads see only the last; then both readings are released.
ReadSecond ==
    /\ cpu_pc = "sleep" /\ cpu_pc' = "check"
    /\ \E cpu_b \in Readings : cpu_usage' \in Usage(cpu_a, cpu_b)
    /\ cpu_a' = NONE
    /\ since' = Nothing /\ measured' = since
    /\ UNCHANGED kernelVars

CpuNext == (\E f \in Fields : Tick(f)) \/ Correct \/ ReadFirst \/ ReadSecond

CpuSpec == CpuInit /\ [][CpuNext]_cpuVars
-----------------------------------------------------------------------------
History == [busy : 0..MaxTicks, idle : 0..MaxTicks, fell : BOOLEAN]

CpuTypeOK ==
    /\ seven \in BOOLEAN
    /\ ticks \in [Fields -> Counter]
    /\ cpu_pc \in {"check", "sleep"}
    /\ cpu_a \in [Fields -> Counter] \cup {NONE}
    /\ cpu_usage \in Nat
    /\ since \in History /\ measured \in History \cup {NONE}

Ticked(h) == h.busy + h.idle

(* What the UI shows is the share of the ticks between the two readings    *)
(* that were work, rounded down: waiting for a disk is idle, a guest's     *)
(* work counts once, and counters may wrap.  It is not promised when no    *)
(* tick passed, when the kernel lowered a counter, or when the kernel      *)
(* prints no steal time and istats[7] is read uninitialized.               *)
UsageIsBusyShare ==
    measured # NONE =>
        \/ seven /\ "steal" \in Fields
        \/ measured.fell \/ Ticked(measured) = 0
        \/ cpu_usage = (100 * measured.busy) \div Ticked(measured)
=============================================================================
