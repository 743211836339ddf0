------------------------------- MODULE MCHeap -------------------------------
(* The heap serving the boot: the first call is bl_elf_load's              *)
(* bl_heap_alloc of a module record, later calls mix small records and    *)
(* the controllers' aligned pools (32, 64 and 4096-byte alignments, the   *)
(* last scaled to 256 with the sizes) with frees in any order.            *)
EXTENDS Heap

MCFirst == [sz |-> 24, align |-> 1]

MCRequests == {[sz |-> 8, align |-> 1], [sz |-> 40, align |-> 32],
               [sz |-> 24, align |-> 64], [sz |-> 16, align |-> 256]}
=============================================================================
