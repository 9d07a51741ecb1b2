-------------------------------- MODULE Heap --------------------------------
(***************************************************************************)
(* The kernel heap of memory.c: a list of blocks that tiles one region,    *)
(* kmalloc, kfree, krealloc, kmalloc_aligned and kfree_aligned.            *)
(*                                                                         *)
(* An address is an offset from heap_start, which is page aligned, so an   *)
(* offset is as aligned as the address.  A block header is kept under the  *)
(* address of its block; the payload follows the header.  heap_end, which  *)
(* no line but those that move it reads, is left out, and so are the bytes *)
(* of the payloads, which the allocator only clears or copies whole.       *)
(*                                                                         *)
(* merge_block calls itself: each of its calls is a step, and `merging' is *)
(* the block it is at.  No interrupt handler allocates and no second task  *)
(* is ever created, so no other call starts before the merge has ended.    *)
(***************************************************************************)
EXTENDS Integers, FiniteSets

CONSTANTS HeapTotal,     \* heap_total, the bytes of the region
          HDR,           \* sizeof(mem_block_t), 20
          Slack,         \* the least payload worth a block of its own, 16
          Requests,      \* bound: the sizes asked for
          Aligns,        \* bound: the alignments asked for, powers of two
          MaxLive,       \* bound: how many pointers the callers hold or have lost
          WordSize,      \* 2^32
          Nil

(* With a request above WordSize - 4 the rounding of kmalloc wraps to 0,   *)
(* and the block granted has nothing to do with the request: such sizes    *)
(* are left out here, which is the one precondition the proofs need of a   *)
(* caller.                                                                 *)
ASSUME HeapAssumption ==
  /\ HDR \in Nat \ {0}
  /\ Slack \in Nat
  /\ HeapTotal \in Nat /\ HeapTotal > HDR
  /\ WordSize \in Nat
  /\ MaxLive \in Nat
  /\ Requests \subseteq 1 .. WordSize - 4
  /\ Aligns \subseteq 4 .. WordSize
  /\ \A n \in Requests, al \in Aligns : n + al + 4 <= WordSize - 4
  /\ Nil \notin Int

VARIABLES
  block,     \* the list of headers, by address; magic: MEM_BLOCK_MAGIC is intact
  merging,   \* the block merge_block is at, Nil outside kfree
  live,      \* the pointers callers were given and have not freed: the kmalloc
             \*   pointer each stands for, the bytes asked for, and whether
             \*   kmalloc_aligned gave it
  lost       \* those of them their callers gave to kfree, which refused

vars == <<block, merging, live, lost>>

Address == 0 .. HeapTotal - 1
Header == [size : 0 .. HeapTotal, next : Address \cup {Nil},
           prev : Address \cup {Nil}, free : BOOLEAN, magic : BOOLEAN]

Init ==
  /\ block = [b \in {0} |-> [size |-> HeapTotal - HDR, next |-> Nil, prev |-> Nil,
                             free |-> TRUE, magic |-> TRUE]]
  /\ merging = Nil
  /\ live = [p \in {} |-> 0]
  /\ lost = {}

-----------------------------------------------------------------------------
(* (size + 3) & ~3 on 32 bits.                                             *)
RoundUp(n) == IF n > WordSize - 4 THEN 0 ELSE 4 * ((n + 3) \div 4)

(* (a + al - 1) & ~(al - 1).                                               *)
AlignUp(a, al) == IF a % al = 0 THEN a ELSE a + (al - (a % al))

Payload(b) == b + HDR
BlockOf(p) == p - HDR

(* Cut block b to n bytes, and make a free block of the rest unless it     *)
(* would be too small.                                                     *)
SplitBlock(blk, b, n) ==
  LET rest == blk[b].size - n - HDR
      new == b + HDR + n
  IN IF rest < HDR + Slack
     THEN [blk EXCEPT ![b].free = FALSE]
     ELSE [c \in DOMAIN blk \cup {new} |->
             CASE c = new -> [size |-> rest, next |-> blk[b].next, prev |-> b,
                              free |-> TRUE, magic |-> TRUE]
               [] c = b -> [blk[b] EXCEPT !.size = n, !.free = FALSE, !.next = new]
               [] c = blk[b].next -> [blk[c] EXCEPT !.prev = new]
               [] OTHER -> blk[c]]

(* Mutant: a block taken whole stays marked free.                          *)
CarveKeepsFree(blk, b, n) ==
  IF blk[b].size > n + HDR + Slack THEN SplitBlock(blk, b, n) ELSE blk

(* Take block b for n bytes.                                               *)
Carve(blk, b, n) ==
  IF blk[b].size > n + HDR + Slack THEN SplitBlock(blk, b, n)
                                   ELSE [blk EXCEPT ![b].free = FALSE]

(* Mutant: the block after the one taken in keeps its predecessor.         *)
AbsorbNoBackLink(blk, b) ==
  LET gone == blk[b].next
  IN [c \in DOMAIN blk \ {gone} |->
        IF c = b THEN [blk[b] EXCEPT !.size = @ + HDR + blk[gone].size,
                                     !.next = blk[gone].next]
                 ELSE blk[c]]

(* Block b takes in its successor, header and all.                         *)
Absorb(blk, b) ==
  LET gone == blk[b].next
  IN [c \in DOMAIN blk \ {gone} |->
        CASE c = b -> [blk[b] EXCEPT !.size = @ + HDR + blk[gone].size,
                                     !.next = blk[gone].next]
          [] c = blk[gone].next -> [blk[c] EXCEPT !.prev = b]
          [] OTHER -> blk[c]]

NextFree(blk, b) == blk[b].next # Nil /\ blk[blk[b].next].free
PrevFree(blk, b) == blk[b].prev # Nil /\ blk[blk[b].prev].free

(* The blocks find_free_block considers, and the one it picks: the first   *)
(* of the smallest, or none.                                               *)
Fits(n) == {b \in DOMAIN block : block[b].free /\ block[b].size >= n /\ block[b].magic}
FindFreeBlock(n) ==
  {b \in Fits(n) : \A c \in Fits(n) \ {b} :
     \/ block[b].size < block[c].size
     \/ block[b].size = block[c].size /\ b < c}

-----------------------------------------------------------------------------
Idle == merging = Nil
Hold(f, p, raw, n, al) ==
  [q \in DOMAIN f \cup {p} |->
     IF q = p THEN [raw |-> raw, want |-> n, aligned |-> al] ELSE f[q]]
Drop(f, p) == [q \in DOMAIN f \ {p} |-> f[q]]

(* kmalloc: NULL when no free block fits.  kcalloc, kmalloc_flags and      *)
(* kmalloc_dma hand the request on to it.                                  *)
Kmalloc(n) ==
  /\ Idle /\ Cardinality(DOMAIN live) < MaxLive
  /\ LET size == RoundUp(n)
     IN \/ FindFreeBlock(size) = {} /\ UNCHANGED vars
        \/ \E b \in FindFreeBlock(size) :
             /\ block' = Carve(block, b, size)
             /\ live' = Hold(live, Payload(b), Payload(b), n, FALSE)
             /\ UNCHANGED <<merging, lost>>

(* kmalloc_aligned keeps the kmalloc pointer in the four bytes before the  *)
(* pointer p it returns.  When the kmalloc pointer is itself aligned,      *)
(* these are the last field of the block's header, magic.                  *)
StoreRaw(blk, b, p) == IF p = Payload(b) THEN [blk EXCEPT ![b].magic = FALSE] ELSE blk

KmallocAligned(n, al) ==
  /\ Idle /\ Cardinality(DOMAIN live) < MaxLive
  /\ LET size == RoundUp(n + al + 4)
     IN \/ FindFreeBlock(size) = {} /\ UNCHANGED vars
        \/ \E b \in FindFreeBlock(size) :
             LET p == AlignUp(Payload(b), al)
             IN /\ block' = StoreRaw(Carve(block, b, size), b, p)
                /\ live' = Hold(live, p, Payload(b), n, TRUE)
                /\ UNCHANGED <<merging, lost>>

(* kfree of a kmalloc pointer: refused on a bad magic or a free block.     *)
FreeRaw(blk, raw) ==
  LET b == BlockOf(raw)
  IN IF ~blk[b].magic \/ blk[b].free
     THEN block' = blk /\ UNCHANGED merging
     ELSE block' = [blk EXCEPT ![b].free = TRUE] /\ merging' = b

(* kfree, and kfree_aligned, which reads the kmalloc pointer back first,   *)
(* each of a pointer of its own kind.                                      *)
Kfree(p) ==
  /\ Idle /\ p \notin lost
  /\ FreeRaw(block, live[p].raw)
  /\ live' = Drop(live, p)
  /\ UNCHANGED lost

(* kfree of a pointer of kmalloc_aligned, which is how ahci.c gives back   *)
(* what it has when a part is missing or a port fails, and ext2_format its *)
(* buffers.  The word it takes for the magic is the kmalloc pointer kept   *)
(* before p, so it refuses, and the block is nobody's for good.            *)
KfreeOfAligned(p) ==
  /\ Idle /\ live[p].aligned
  /\ lost' = lost \cup {p}
  /\ UNCHANGED <<block, merging, live>>

(* Mutant: merge_block does not call itself after taking a block in.       *)
MergeNextOnce ==
  /\ ~Idle
  /\ NextFree(block, merging)
  /\ block' = Absorb(block, merging)
  /\ merging' = Nil
  /\ UNCHANGED <<live, lost>>

(* merge_block.  With a free successor: take it in and look again.         *)
MergeNext ==
  /\ ~Idle
  /\ NextFree(block, merging)
  /\ block' = Absorb(block, merging)
  /\ UNCHANGED <<merging, live, lost>>

(* Mutant: merge_block goes on at the block that was taken in.             *)
MergePrevStays ==
  /\ ~Idle
  /\ ~NextFree(block, merging) /\ PrevFree(block, merging)
  /\ block' = Absorb(block, block[merging].prev)
  /\ UNCHANGED <<merging, live, lost>>

(* Otherwise, with a free predecessor: it takes the block in.              *)
MergePrev ==
  /\ ~Idle
  /\ ~NextFree(block, merging) /\ PrevFree(block, merging)
  /\ block' = Absorb(block, block[merging].prev)
  /\ merging' = Nil
  /\ UNCHANGED <<live, lost>>

MergeDone ==
  /\ ~Idle
  /\ ~NextFree(block, merging) /\ ~PrevFree(block, merging)
  /\ merging' = Nil
  /\ UNCHANGED <<block, live, lost>>

(* Mutant: any free successor will do.                                     *)
KreallocInPlaceUnchecked(p, n) ==
  /\ Idle /\ ~live[p].aligned
  /\ LET b == BlockOf(p)
         size == RoundUp(n)
     IN /\ \/ size <= block[b].size /\ block' = Carve(block, b, size)
           \/ /\ size > block[b].size
              /\ NextFree(block, b)
              /\ block' = Carve(Absorb(block, b), b, size)
        /\ live' = Hold(live, p, p, n, FALSE)
        /\ UNCHANGED <<merging, lost>>

(* krealloc of a kmalloc pointer: in place when the block is large enough  *)
(* or its free successor makes it so.                                      *)
KreallocInPlace(p, n) ==
  /\ Idle /\ ~live[p].aligned
  /\ LET b == BlockOf(p)
         size == RoundUp(n)
         grown == Absorb(block, b)
     IN /\ \/ size <= block[b].size /\ block' = Carve(block, b, size)
           \/ /\ size > block[b].size
              /\ NextFree(block, b) /\ grown[b].size >= size
              /\ block' = Carve(grown, b, size)
        /\ live' = Hold(live, p, p, n, FALSE)
        /\ UNCHANGED <<merging, lost>>

(* Otherwise it takes a new block, copies, and frees the old one; with no  *)
(* block to be had it returns NULL and the caller keeps the old one.       *)
KreallocMove(p, n) ==
  /\ Idle /\ ~live[p].aligned
  /\ LET b == BlockOf(p)
         size == RoundUp(n)
     IN /\ size > block[b].size
        /\ ~(NextFree(block, b) /\ Absorb(block, b)[b].size >= size)
        /\ \/ FindFreeBlock(size) = {} /\ UNCHANGED vars
           \/ \E to \in FindFreeBlock(size) :
                /\ FreeRaw(Carve(block, to, size), p)
                /\ live' = Drop(Hold(live, Payload(to), Payload(to), n, FALSE), p)
                /\ UNCHANGED lost

Next ==
  \/ \E n \in Requests : Kmalloc(n)
  \/ \E n \in Requests, al \in Aligns : KmallocAligned(n, al)
  \/ \E p \in DOMAIN live : Kfree(p) \/ KfreeOfAligned(p)
  \/ \E p \in DOMAIN live, n \in Requests : KreallocInPlace(p, n) \/ KreallocMove(p, n)
  \/ MergeNext \/ MergePrev \/ MergeDone

Spec == Init /\ [][Next]_vars

-----------------------------------------------------------------------------
Blocks(blk) == /\ DOMAIN blk \subseteq Address
               /\ blk \in [DOMAIN blk -> Header]

Pointers(f) ==
  /\ DOMAIN f \subseteq Address
  /\ f \in [DOMAIN f -> [raw : Address, want : Requests, aligned : BOOLEAN]]

AlignedOf(f) == {p \in DOMAIN f : f[p].aligned}

TypeOK ==
  /\ Blocks(block)
  /\ merging \in DOMAIN block \cup {Nil}
  /\ Pointers(live)
  /\ lost \subseteq AlignedOf(live)

(* The blocks tile the region: each ends where its successor begins, the   *)
(* last one at heap_total, prev undoes next, and no two overlap.  This is  *)
(* what makes the sums of heap_validate and get_memory_info come out and   *)
(* every walk of the list meet every block once.                           *)
End(blk, b) == Payload(b) + blk[b].size

PrevLinked(blk, b) ==
  IF b = 0 THEN blk[b].prev = Nil
  ELSE blk[b].prev \in DOMAIN blk /\ blk[blk[b].prev].next = b

NextLinked(blk, b) ==
  IF blk[b].next = Nil THEN End(blk, b) = HeapTotal
  ELSE /\ blk[b].next = End(blk, b)
       /\ End(blk, b) \in DOMAIN blk
       /\ blk[End(blk, b)].prev = b

Apart(blk, b) == \A c \in DOMAIN blk : b < c => End(blk, b) <= c

TiledBy(blk) == /\ 0 \in DOMAIN blk
                /\ \A b \in DOMAIN blk : /\ PrevLinked(blk, b)
                                         /\ NextLinked(blk, b)
                                         /\ Apart(blk, b)
Tiled == TiledBy(block)

(* Nothing is handed out twice and nothing leaks by itself: the block of   *)
(* every pointer that was given out, held or lost, is in use and of no     *)
(* other pointer and is large enough for what was asked for, and any other *)
(* block in use is one whose magic kmalloc_aligned has overwritten, which  *)
(* kfree_aligned could not free.                                           *)
Owns(blk, holders, p) ==
  LET b == BlockOf(holders[p].raw)
  IN /\ b \in DOMAIN blk
     /\ ~blk[b].free
     /\ holders[p].raw <= p
     /\ p + holders[p].want <= End(blk, b)
     /\ ~holders[p].aligned => holders[p].raw = p /\ blk[b].magic

Owned(blk, holders) ==
  /\ \A p \in DOMAIN holders : Owns(blk, holders, p)
  /\ \A p, q \in DOMAIN holders : holders[p].raw = holders[q].raw => p = q
  /\ \A b \in DOMAIN blk :
       ~blk[b].free => \/ ~blk[b].magic
                       \/ \E p \in DOMAIN holders : holders[p].raw = Payload(b)

BlocksOwned == Owned(block, live)

(* Coalescing loses nothing for good: although krealloc leaves free blocks *)
(* side by side and merge_block never looks past one free predecessor,     *)
(* once the callers have freed everything, each with the right function,   *)
(* the heap is one free block again.                                       *)
FreedHeapIsWhole ==
  (Idle /\ DOMAIN live = {} /\ \A b \in DOMAIN block : block[b].magic)
    => DOMAIN block = {0} /\ block[0].free

(* The heap implements the allocator its callers rely on.                  *)
Grants(f) == {[ptr |-> p, len |-> f[p].want] : p \in DOMAIN f}
A == INSTANCE Allocator WITH grants <- Grants(live)
ImplementsAllocator == A!AllocSpec

(* What heap_validate asserts of every header, "Bad magic at block".       *)
MagicIntact == \A b \in DOMAIN block : block[b].magic
=============================================================================
