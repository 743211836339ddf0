------------------------------- MODULE Heap -------------------------------
(***************************************************************************)
(* The boot loader's heap, src/boot-loader/core/memory/heap.c (the BIOS   *)
(* build; UEFI uses the firmware's pools).  Blocks lie one after another  *)
(* from bl_heap, each a 16-byte header (next, magic, size) followed by    *)
(* its payload; next links them in address order.  An allocation reuses  *)
(* the first FREE block of the list, the last excepted, whose payload is  *)
(* aligned and large enough, else appends a block after the last one.    *)
(* Freeing marks the header FREE.  Nothing is split, merged or returned.  *)
(*                                                                         *)
(* Addresses are byte addresses; the list is a sequence of headers in     *)
(* list order, and what callers hold is the set of pointers they were     *)
(* given and have not freed, with the size and alignment they asked for.  *)
(***************************************************************************)
EXTENDS Naturals, Sequences, FiniteSets
LOCAL INSTANCE FiniteSetsExt

CONSTANTS HeapStart,  \* bl_heap as bl_heap_init leaves it (0x100000 on BIOS)
          Requests,   \* the [sz, align] pairs callers pass to bl_heap_alloc_align
          First,      \* the boot's first call: bl_elf_load's bl_heap_alloc
          MaxCalls    \* allocations one behaviour makes

HeadSize == 16        \* sizeof(struct bl_heap_block_head), packed, i386
MemAlign == 16        \* BL_HEAP_MEM_ALIGN

(* BL_MEMORY_ALIGN_UP for a power-of-two alignment. *)
AlignUp(x, a) == ((x + a - 1) \div a) * a

Aligned(x, a) == x % a = 0

IsPow2(a) == a \in {2^k : k \in 0 .. 12}

VARIABLES heap,      \* bl_heap
          blocks,    \* the block headers in list order: [addr, magic, size]
          occupied,  \* occupied_blocks
          freed,     \* free_blocks
          live,      \* [id, ptr, sz, align] of every block a caller holds
          calls      \* allocations made so far

vars == <<heap, blocks, occupied, freed, live, calls>>

Init == /\ heap = HeapStart /\ blocks = <<>> /\ occupied = 0 /\ freed = 0
        /\ live = {} /\ calls = 0

Payload(k) == blocks[k].addr + HeadSize

(* The loop of __bl_heap_alloc_align: q runs over every block whose next  *)
(* is not NULL, so the last block is never looked at.  The first FREE one *)
(* with an aligned payload of at least sz bytes is taken.  (A magic that  *)
(* is neither USED nor FREE makes it return NULL; only a caller writing   *)
(* past its block produces one, and callers are not modelled.)            *)
(* Variants of the test: without the alignment check, without the size   *)
(* check.                                                                  *)
ReusableAnyAlign(sz, align) ==
    {k \in 1 .. Len(blocks) - 1 : blocks[k].magic = "FREE" /\ blocks[k].size >= sz}

ReusableAnySize(sz, align) ==
    {k \in 1 .. Len(blocks) - 1 : blocks[k].magic = "FREE" /\ Aligned(Payload(k), align)}

Reusable(sz, align) ==
    {k \in 1 .. Len(blocks) - 1 : /\ blocks[k].magic = "FREE"
                                   /\ Aligned(Payload(k), align)
                                   /\ blocks[k].size >= sz}

(* A variant that aligns only to the caller's alignment. *)
NewPayloadUnrounded(align) ==
    LET q     == blocks[Len(blocks)]
        alloc == q.addr + HeadSize + q.size + HeadSize
    IN  IF Aligned(alloc, align) THEN alloc ELSE AlignUp(alloc, align)

(* Lines 68-72: past the last block and its header, aligned to 16, then   *)
(* to align if it is not already.                                          *)
NewPayload(align) ==
    LET q     == blocks[Len(blocks)]
        alloc == AlignUp(q.addr + HeadSize + q.size + HeadSize, MemAlign)
    IN  IF Aligned(alloc, align) THEN alloc ELSE AlignUp(alloc, align)

(* The caller now holds p; calls tells one holder from another. *)
Handed(p, r) == live' = live \cup {[id |-> calls, ptr |-> p, sz |-> r.sz, align |-> r.align]}

(* bl_heap_alloc_align's first call (no block used or freed yet): the     *)
(* header goes at bl_heap, moved up to align first (the `TODO' at line    *)
(* 102 aligns the header, not the payload behind it).                     *)
FirstAlloc(r) ==
    LET a     == IF r.align = 0 THEN 1 ELSE r.align
        start == IF Aligned(heap, a) THEN heap ELSE AlignUp(heap, a)
    IN  /\ occupied = 0 /\ freed = 0 /\ IsPow2(a)
        /\ heap' = start
        /\ blocks' = <<[addr |-> start, magic |-> "USED", size |-> r.sz]>>
        /\ occupied' = 1
        /\ Handed(start + HeadSize, r)
        /\ UNCHANGED freed

(* __bl_heap_alloc_align: reuse a block, else append one. *)
bl_heap_alloc_align(r) ==
    LET a == IF r.align = 0 THEN 1 ELSE r.align
        R == Reusable(r.sz, a)
    IN  /\ ~(occupied = 0 /\ freed = 0) /\ IsPow2(a)
        /\ IF R /= {}
           THEN /\ blocks' = [blocks EXCEPT ![Min(R)].magic = "USED"]
                /\ Handed(Payload(Min(R)), r)
           ELSE LET p == NewPayload(a)
                IN  /\ blocks' = Append(blocks, [addr |-> p - HeadSize, magic |-> "USED", size |-> r.sz])
                    /\ Handed(p, r)
        /\ UNCHANGED <<heap, occupied, freed>>

(* A call by the boot: the first is bl_elf_load's bl_heap_alloc of the    *)
(* module record, any later one any request.                              *)
Alloc(r) ==
    /\ calls < MaxCalls /\ calls' = calls + 1
    /\ IF calls = 0 THEN r = First /\ FirstAlloc(r) ELSE bl_heap_alloc_align(r)

(* bl_heap_free of a block a caller holds: ignored unless 16-aligned;     *)
(* the header 16 bytes before it is marked FREE if it was USED.           *)
bl_heap_free(l) ==
    /\ live' = live \ {l}
    /\ IF ~Aligned(l.ptr, MemAlign)
       THEN UNCHANGED <<blocks, freed>>
       ELSE LET k == CHOOSE j \in DOMAIN blocks : blocks[j].addr = l.ptr - HeadSize
            IN  IF blocks[k].magic = "USED"
                THEN blocks' = [blocks EXCEPT ![k].magic = "FREE"] /\ freed' = freed + 1
                ELSE UNCHANGED <<blocks, freed>>
    /\ UNCHANGED <<heap, occupied, calls>>

Next == \/ \E r \in Requests \cup {First} : Alloc(r)
        \/ \E l \in live : bl_heap_free(l)

Spec == Init /\ [][Next]_vars

-----------------------------------------------------------------------------
Held == [id : 0 .. MaxCalls, ptr : Nat, sz : Nat, align : Nat]

TypeOK ==
    /\ heap \in Nat /\ occupied \in {0, 1} /\ freed \in Nat /\ calls \in 0 .. MaxCalls
    /\ blocks \in Seq([addr : Nat, magic : {"USED", "FREE"}, size : Nat])
    /\ live \subseteq Held

(* Spec 6 (Allocator): alloc_aligned returns memory aligned as asked, and *)
(* the controllers' pools and rings rely on it.  Every block a caller     *)
(* holds is aligned as it asked, whether __bl_heap_alloc_align reused a  *)
(* freed block or appended one after blocks of other sizes and           *)
(* alignments, and whatever the boot's first call moved bl_heap to.       *)
AlignedAsRequested ==
    \A l \in live : Aligned(l.ptr, IF l.align = 0 THEN 1 ELSE l.align)

(* No byte is given to two holders and no header is overwritten: each     *)
(* block's header and payload end before the next header, the sz bytes a *)
(* caller holds lie in its block's payload, and the bytes two callers     *)
(* hold never overlap, across any mix of reuse of freed blocks (which     *)
(* keep their first size) and appends.                                    *)
OwnersExclusive ==
    /\ \A l \in live : \E k \in DOMAIN blocks : Payload(k) = l.ptr /\ l.sz <= blocks[k].size
    /\ \A k \in 1 .. Len(blocks) - 1 :
           blocks[k].addr + HeadSize + blocks[k].size <= blocks[k + 1].addr
    /\ \A l1, l2 \in live :
           l1.id /= l2.id => l1.ptr + l1.sz <= l2.ptr \/ l2.ptr + l2.sz <= l1.ptr

(* bl_heap_free ignores a pointer that is not 16-aligned and a header     *)
(* that is not USED, silently.  So every block a caller holds must be one *)
(* that a free would give back: 16-aligned, with a USED header 16 bytes   *)
(* before it, however it was placed.                                      *)
LiveBlocksReleasable ==
    \A l \in live : /\ Aligned(l.ptr, MemAlign)
                    /\ \E k \in DOMAIN blocks : Payload(k) = l.ptr /\ blocks[k].magic = "USED"
=============================================================================
