------------------------------ MODULE MCMachine ------------------------------
(* Instances of Machine for TLC. *)
EXTENDS Machine, TLC

OneDiskLayouts == {BlankDisk, UefiDisk, GptDisk, MbrDisk}
TwoDiskLayouts == {BlankDisk, GptDisk}

DiskSymmetry == Permutations(Disks)
=============================================================================
