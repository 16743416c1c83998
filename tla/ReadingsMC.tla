------------------------------ MODULE ReadingsMC ------------------------------
(* What each sampler reads and the UI shows of it, one sampler at a time:   *)
(* the readings share nothing but what HWMonitor models.                    *)
EXTENDS Meters, NetDevices, TLC

VARIABLE sampler   \* the one that runs

vars == <<sampler, cpuVars, fileVars, netVars>>

MCLowest == -1000

MCFields == {"user", "steal", "iowait", "guest"}

\* The kernel prints its keys in this order, the middle ones or not.
Others(n) == [k \in 1..n |-> [key |-> "Cached", val |-> 1]]
Line(k, v) == [key |-> k, val |-> v]
MCMemFiles ==
    {<<Line("MemTotal", t), Line("MemFree", f)>> \o Others(n)
        \o <<Line("SwapTotal", s), Line("SwapFree", g)>> \o Others(m) :
            t \in {1, 3}, f \in 0..1, s \in {0, 2}, g \in 0..2, n \in 0..2, m \in 0..4}
MCKeys == {"MemTotal", "MemFree", "Cached", "SwapTotal", "SwapFree"}

MCCpuFiles == UNION {[1..n -> {"model name", "cpu MHz", "other"}] : n \in 0..4}

MCLinkTexts == ("eth0" :> {<<-3, 1>>, <<1, 0>>}) @@ ("lo" :> {<<>>})

Init ==
    /\ sampler \in {"cpu", "info", "mem", "net"}
    /\ CpuInit /\ FileInit /\ NetInit
    /\ seven => sampler = "cpu"

Next ==
    /\ UNCHANGED sampler
    /\ \/ sampler = "cpu"  /\ CpuNext     /\ UNCHANGED <<fileVars, netVars>>
       \/ sampler = "info" /\ CpuInfoNext /\ UNCHANGED <<cpuVars, netVars>>
       \/ sampler = "mem"  /\ MemInfoNext /\ UNCHANGED <<cpuVars, netVars>>
       \/ sampler = "net"  /\ NetNext     /\ UNCHANGED <<cpuVars, fileVars>>

Spec == Init /\ [][Next]_vars

(* The types of the four readings' states.                                  *)
TypeOK == CpuTypeOK /\ FileTypeOK /\ NetTypeOK
=============================================================================
