----------------------------- MODULE HWMonitorMC -----------------------------
(* HWMonitor with the processor's sampler, which rebuilds its global in     *)
(* place and also takes two readings, and the block devices' one, which     *)
(* publishes a list.  The memory's sampler takes the processor's steps      *)
(* without the readings, the network's takes the block devices' ones.       *)
EXTENDS HWMonitor

CONSTANTS cpu, blk, mem

MCPair   == {cpu, blk}
MCTriple == {cpu, blk, mem}
MCCpu    == {cpu}
MCCpuMem == {cpu, mem}
MCOrder     == <<cpu, blk>>
MCOrder3    == <<cpu, mem, blk>>
=============================================================================
