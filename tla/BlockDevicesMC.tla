---------------------------- MODULE BlockDevicesMC ----------------------------
(* Two disks of the same sizes; counters that wrap with the third sector,   *)
(* so that a difference differs from its opposite.                          *)
EXTENDS BlockDevices, TLC

CONSTANTS sda, sdb

MCDisks    == {sda, sdb}
MCSpace    == [d \in MCDisks |-> 1]
MCCapacity == [d \in MCDisks |-> 2]
Interchangeable == Permutations(MCDisks)
=============================================================================
