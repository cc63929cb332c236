---------------------------- MODULE MCUdevQueue ----------------------------
(* A disk with a partition.                                                *)
EXTENDS UdevQueue

CONSTANTS disk, part

MCConflicts == {<<disk, part>>, <<part, disk>>}
MCMaxEvents == [d \in {disk, part} |-> IF d = disk THEN 2 ELSE 1]
=============================================================================
