-------------------------------- MODULE Ext2 --------------------------------
(***************************************************************************)
(* ext2.c under the files that vfs.c opens, one write to the disk at a     *)
(* time.  The driver keeps nothing in memory but the three buffers and the *)
(* inode it works on, so every ext2_write_block, ext2_write_bitmap and     *)
(* ext2_write_inode is a step here, and the machine may stop between any   *)
(* two of them.  One call runs at a time: the kernel has one task, and no  *)
(* interrupt handler uses files.  A write that was issued is on the disk   *)
(* for good, and in the order of issue: that is so after a reset.  The code*)
(* flushes only in ext2_sync, so a disk with a volatile write cache that   *)
(* loses power may keep other writes than the first ones; that is outside  *)
(* this model.                                                             *)
(*                                                                         *)
(* There is one directory, the root, and one block group (the code only    *)
(* ever allocates in group 0).  A file's bytes are Words words to a block, *)
(* as many as the block numbers in a table block.  Modes, times, owners,   *)
(* i_blocks and i_links_count decide nothing unless a file is unlinked,    *)
(* which nothing in the kernel does: they and ext2_unlink are left out,    *)
(* and so are the free counts, which are never written back.               *)
(***************************************************************************)
EXTENDS Integers, FiniteSets, Sequences

CONSTANTS NBlocks,    \* blocks of the group that are not metadata
          NInodes,    \* inodes that are not reserved; the root is inode 0
          Direct,     \* direct block slots of an inode, 12
          Words,      \* block_size / 4
          Values,     \* what a caller writes
          Junk,       \* what a disk block holds before its first use
          Names,
          OnImage,    \* the names the image has, [names -> inodes]
          Rooms,      \* whether the root's block may have an unused entry
                      \*   that is large enough, a set of truth values
          Handles,    \* bound: files open at the same time
          WriteSizes, \* bound: words per ext2_write
          Offsets,    \* bound: where ext2_lseek is sent
          Nil

Root == 0
Inodes == 1 .. NInodes
Blocks == 1 .. NBlocks

ASSUME Ext2Assumption ==
  /\ NBlocks \in Nat \ {0} /\ NInodes \in Nat
  /\ Direct \in Nat \ {0} /\ Words \in Nat \ {0, 1}
  /\ WriteSizes \subseteq Nat \ {0} /\ Offsets \subseteq Nat
  /\ Rooms \subseteq BOOLEAN
  /\ Nil \notin Handles \cup Names
  /\ OnImage \in [DOMAIN OnImage -> Inodes] /\ DOMAIN OnImage \subseteq Names
  /\ Values \cap (0 .. NBlocks) = {} /\ Junk \notin Values \cup (0 .. NBlocks)

VARIABLES
  \* on the disk
  blockUsed,   \* the block bitmap
  inodeUsed,   \* the inode bitmap
  inode,       \* the inode table
  disk,        \* the contents of the blocks; block 0 is the boot block
  listing,     \* the names in the root's first block
  roomy,       \* whether that block has an unused entry for another
  \* in memory
  handle,      \* open files: inode (Root: not open), f_pos, cached i_size
  pc,          \* where the call that runs has got to
  call,        \* its arguments and local variables
  cur,         \* its copy of the inode it changes
  blk,         \* the data block it works on
  tab,         \* the table block it has just allocated
  \* history
  written,     \* the last word each file was given at each position
  created,     \* the names ext2_create reported as created
  shared       \* the handles that were not always alone on their file

diskVars == <<blockUsed, inodeUsed, inode, disk, listing, roomy>>
names == <<listing, roomy>>
history == <<written, created, shared>>
vars == <<diskVars, handle, pc, call, cur, blk, tab, history>>

Single == Direct
Double == Direct + 1
MaxBlocks == Direct + Words + Words * Words
Word == (0 .. NBlocks) \cup Values \cup {Junk}
Block == [0 .. Words - 1 -> Word]
Zeros == [w \in 0 .. Words - 1 |-> 0]
Inode == [dir : BOOLEAN, size : 0 .. MaxBlocks * Words, slot : [0 .. Double -> 0 .. NBlocks]]
EmptyInode == [dir |-> FALSE, size |-> 0, slot |-> [s \in 0 .. Double |-> 0]]
DirInode(b) == [dir |-> TRUE, size |-> Words, slot |-> [EmptyInode.slot EXCEPT ![0] = b]]
Closed == [ino |-> Root, pos |-> 0, size |-> 0]
NoCall == [op |-> "none", ino |-> Root, h |-> Nil, name |-> Nil, off |-> 0, src |-> <<>>]

Init ==
  /\ blockUsed = {1}
  /\ inodeUsed = {Root} \cup {OnImage[n] : n \in DOMAIN OnImage}
  /\ inode = [i \in {Root} \cup Inodes |->
                IF i = Root THEN DirInode(1) ELSE EmptyInode]
  /\ disk = [b \in 0 .. NBlocks |->
               IF b = 0 THEN Zeros ELSE [w \in 0 .. Words - 1 |-> Junk]]
  /\ listing = OnImage
  /\ roomy \in Rooms
  /\ handle = [h \in Handles |-> Closed]
  /\ pc = "idle" /\ call = NoCall /\ cur = EmptyInode /\ blk = 0 /\ tab = 0
  /\ written = [i \in Inodes |-> [p \in 0 .. MaxBlocks * Words - 1 |-> Junk]]
  /\ created = {} /\ shared = {}

-----------------------------------------------------------------------------
(* The lowest bit that is clear, ext2_alloc_block and ext2_alloc_inode.    *)
FreeBlocks == Blocks \ blockUsed
FreeInodes == Inodes \ inodeUsed
Lowest(S) == CHOOSE x \in S : \A y \in S : x <= y

(* ext2_read_block_from_inode: 0 where it finds none.  Below a double      *)
(* table without an entry it reads block 0, the boot block, as a table.    *)
BlockAt(in, n) ==
  IF n < Direct THEN in.slot[n]
  ELSE IF n < Direct + Words
    THEN IF in.slot[Single] = 0 THEN 0 ELSE disk[in.slot[Single]][n - Direct]
  ELSE IF n < MaxBlocks /\ in.slot[Double] # 0
    THEN LET k == n - Direct - Words
         IN disk[disk[in.slot[Double]][k \div Words]][k % Words]
  ELSE 0

(* The root's file ends inside a block only after a creation that found no *)
(* unused entry: that block is all zeros, rec_len 0 included, and a scan   *)
(* that gets there adds 0 to its offset for ever.                          *)
ScanNeverEnds == inode[Root].size % Words # 0

(* ext2_write_data on an entry that was edited in block_buf: an entry is   *)
(* smaller than a block, so the block is first read again, into block_buf, *)
(* which is also the source of the copy.                                   *)
DirectoryWritten(edited, onDisk) == onDisk

EndCall == pc' = "idle" /\ call' = NoCall /\ cur' = EmptyInode /\ blk' = 0 /\ tab' = 0

-----------------------------------------------------------------------------
(* vfs_open of a name the directory has.  The handle keeps its own copy of *)
(* the size; nothing stops two handles on one file.                        *)
Open(h, n) ==
  /\ pc = "idle" /\ handle[h] = Closed
  /\ n \in DOMAIN listing
  /\ handle' = [handle EXCEPT ![h] = [ino |-> listing[n], pos |-> 0,
                                      size |-> inode[listing[n]].size]]
  /\ LET others == {g \in Handles : handle[g].ino = listing[n]}
     IN shared' = IF others = {} THEN shared \ {h} ELSE shared \cup others \cup {h}
  /\ UNCHANGED <<diskVars, pc, call, cur, blk, tab, written, created>>

(* The lookup of a name the directory does not have, which walks to the    *)
(* end of the directory.                                                   *)
LookupHangs(n) ==
  /\ pc = "idle" /\ n \notin DOMAIN listing
  /\ ScanNeverEnds
  /\ pc' = "hung"
  /\ UNCHANGED <<diskVars, handle, call, cur, blk, tab, history>>

(* vfs_open with O_CREAT of such a name, and vfs_mkdir, which looks        *)
(* nothing up: ext2_create and ext2_mkdir begin by taking an inode.        *)
TakeInode(op, h, n) ==
  /\ pc = "idle" /\ FreeInodes # {}
  /\ LET i == Lowest(FreeInodes)
     IN /\ inodeUsed' = inodeUsed \cup {i}
        /\ call' = [NoCall EXCEPT !.op = op, !.ino = i, !.h = h, !.name = n,
                                  !.off = inode[Root].size]
  /\ cur' = inode[Root]
  /\ UNCHANGED <<blockUsed, inode, disk, names, handle, blk, tab, history>>

Create(h, n) ==
  /\ n \notin DOMAIN listing /\ ~ScanNeverEnds /\ handle[h] = Closed
  /\ TakeInode("create", h, n)
  /\ pc' = "record"

Mkdir(n) ==
  /\ TakeInode("mkdir", Nil, n)
  /\ pc' = "dirblock"

(* ext2_mkdir, which does not write the bitmap                            *)
TakeDirBlockUnmarked ==
  /\ pc = "dirblock" /\ FreeBlocks # {}
  /\ blk' = Lowest(FreeBlocks)
  /\ pc' = "record"
  /\ UNCHANGED <<blockUsed, inodeUsed, inode, disk, names, handle, call, cur, tab, history>>

(* ext2_mkdir takes the block of the new directory.                        *)
TakeDirBlock ==
  /\ pc = "dirblock" /\ FreeBlocks # {}
  /\ blk' = Lowest(FreeBlocks)
  /\ blockUsed' = blockUsed \cup {blk'}
  /\ pc' = "record"
  /\ UNCHANGED <<inodeUsed, inode, disk, names, handle, call, cur, tab, history>>

NoDirBlock ==
  /\ pc = "dirblock" /\ FreeBlocks = {}
  /\ inodeUsed' = inodeUsed \ {call.ino}
  /\ EndCall
  /\ UNCHANGED <<blockUsed, inode, disk, names, handle, history>>

(* The new inode is written: empty for a file, one block for a directory.  *)
WriteRecord ==
  /\ pc = "record"
  /\ inode' = [inode EXCEPT ![call.ino] =
                 IF call.op = "create" THEN EmptyInode ELSE DirInode(blk)]
  /\ pc' = IF call.op = "create" THEN "scan" ELSE "dots"
  /\ UNCHANGED <<blockUsed, inodeUsed, disk, names, handle, call, cur, blk, tab, history>>

(* The block of the new directory, with `.' and `..'.                      *)
WriteDots ==
  /\ pc = "dots"
  /\ disk' = [disk EXCEPT ![blk] = Zeros]
  /\ blk' = 0 /\ pc' = "scan"
  /\ UNCHANGED <<blockUsed, inodeUsed, inode, names, handle, call, cur, tab, history>>

(* The call gives up.  ext2_create gives its inode back, ext2_mkdir        *)
(* neither its inode nor its block, ext2_write not what it linked.         *)
GiveUp ==
  /\ inodeUsed' = IF call.op = "create" THEN inodeUsed \ {call.ino} ELSE inodeUsed
  /\ EndCall
  /\ UNCHANGED <<inode, disk, names, handle, history>>

-----------------------------------------------------------------------------
(* The search for a place for the entry.                                   *)
ScanDuplicate ==
  /\ pc = "scan" /\ call.name \in DOMAIN listing
  /\ GiveUp
  /\ UNCHANGED blockUsed

ScanFindsRoom ==
  /\ pc = "scan" /\ call.name \notin DOMAIN listing /\ roomy
  /\ pc' = "enter"
  /\ UNCHANGED <<diskVars, handle, call, cur, blk, tab, history>>

ScanHangs ==
  /\ pc = "scan" /\ call.name \notin DOMAIN listing /\ ~roomy /\ ScanNeverEnds
  /\ pc' = "hung"
  /\ UNCHANGED <<diskVars, handle, call, cur, blk, tab, history>>

ScanNeedsBlock == pc = "scan" /\ call.name \notin DOMAIN listing /\ ~roomy /\ ~ScanNeverEnds

(* ext2_write asks for the block of its next word.                         *)
NeedsBlock ==
  \/ ScanNeedsBlock
  \/ pc = "next" /\ call.src # <<>> /\ BlockAt(cur, call.off \div Words) = 0

(* ext2_alloc_block, which counts blocks from the wrong first one          *)
TakeBlockNext ==
  /\ NeedsBlock /\ FreeBlocks # {}
  /\ blk' = Lowest(FreeBlocks) + 1
  /\ blockUsed' = blockUsed \cup {blk'}
  /\ pc' = "link"
  /\ UNCHANGED <<inodeUsed, inode, disk, names, handle, call, cur, tab, history>>

TakeBlock ==
  /\ NeedsBlock /\ FreeBlocks # {}
  /\ blk' = Lowest(FreeBlocks)
  /\ blockUsed' = blockUsed \cup {blk'}
  /\ pc' = "link"
  /\ UNCHANGED <<inodeUsed, inode, disk, names, handle, call, cur, tab, history>>

NoBlock ==
  /\ NeedsBlock /\ FreeBlocks = {}
  /\ GiveUp
  /\ UNCHANGED blockUsed

-----------------------------------------------------------------------------
(* ext2_write_block_to_inode for block number `At' of the file.            *)
At == call.off \div Words
Linked == IF call.op = "write" THEN "data" ELSE "clear"

LinkDirect ==
  /\ pc = "link" /\ At < Direct
  /\ cur' = [cur EXCEPT !.slot[At] = blk]
  /\ pc' = Linked
  /\ UNCHANGED <<diskVars, handle, call, blk, tab, history>>

(* The slot of the inode that leads to the block, and the entry of the     *)
(* double table that does.                                                 *)
TableSlot == IF At < Direct + Words THEN Single ELSE Double
IndexAt == (At - Direct - Words) \div Words

NeedsTable == Direct <= At /\ At < MaxBlocks /\ cur.slot[TableSlot] = 0
NeedsIndex == /\ Direct + Words <= At /\ At < MaxBlocks
              /\ cur.slot[Double] # 0 /\ disk[cur.slot[Double]][IndexAt] = 0

(* ext2_alloc_block without its ext2_write_bitmap                          *)
TakeTableUnmarked ==
  /\ pc = "link" /\ (NeedsTable \/ NeedsIndex) /\ FreeBlocks # {}
  /\ tab' = Lowest(FreeBlocks)
  /\ UNCHANGED blockUsed
  /\ cur' = IF NeedsTable THEN [cur EXCEPT !.slot[TableSlot] = tab'] ELSE cur
  /\ pc' = "zero"
  /\ UNCHANGED <<inodeUsed, inode, disk, names, handle, call, blk, history>>

TakeTable ==
  /\ pc = "link" /\ (NeedsTable \/ NeedsIndex) /\ FreeBlocks # {}
  /\ tab' = Lowest(FreeBlocks)
  /\ blockUsed' = blockUsed \cup {tab'}
  /\ cur' = IF NeedsTable THEN [cur EXCEPT !.slot[TableSlot] = tab'] ELSE cur
  /\ pc' = "zero"
  /\ UNCHANGED <<inodeUsed, inode, disk, names, handle, call, blk, history>>

ZeroTable ==
  /\ pc = "zero"
  /\ disk' = [disk EXCEPT ![tab] = Zeros]
  /\ \/ cur.slot[TableSlot] = tab /\ pc' = "link" /\ tab' = 0
     \/ cur.slot[TableSlot] # tab /\ pc' = "index" /\ tab' = tab
  /\ UNCHANGED <<blockUsed, inodeUsed, inode, names, handle, call, cur, blk, history>>

(* The wrong block number is entered in the double table                  *)
WriteIndexOfData ==
  /\ pc = "index"
  /\ disk' = [disk EXCEPT ![cur.slot[Double]][IndexAt] = blk]
  /\ pc' = "link" /\ tab' = 0
  /\ UNCHANGED <<blockUsed, inodeUsed, inode, names, handle, call, cur, blk, history>>

WriteIndex ==
  /\ pc = "index"
  /\ disk' = [disk EXCEPT ![cur.slot[Double]][IndexAt] = tab]
  /\ pc' = "link" /\ tab' = 0
  /\ UNCHANGED <<blockUsed, inodeUsed, inode, names, handle, call, cur, blk, history>>

LinkInTable ==
  /\ pc = "link" /\ Direct <= At /\ At < MaxBlocks
  /\ ~NeedsTable /\ ~NeedsIndex
  /\ disk' = IF TableSlot = Single
             THEN [disk EXCEPT ![cur.slot[Single]][At - Direct] = blk]
             ELSE [disk EXCEPT ![disk[cur.slot[Double]][IndexAt]]
                                 [(At - Direct - Words) % Words] = blk]
  /\ pc' = Linked
  /\ UNCHANGED <<blockUsed, inodeUsed, inode, names, handle, call, cur, blk, tab, history>>

(* No block for a table, or the file has its largest size: the data block  *)
(* goes back, and a creation's inode with it, two writes of bitmaps in one *)
(* step.  A stop between them would leave the inode marked and without a   *)
(* name, which a stop at "scan" leaves too; no property tells them apart.  *)
LinkFails ==
  /\ pc = "link"
  /\ \/ (NeedsTable \/ NeedsIndex) /\ FreeBlocks = {}
     \/ At >= MaxBlocks
  /\ blockUsed' = blockUsed \ {blk}
  /\ GiveUp

-----------------------------------------------------------------------------
(* ext2_write: reads the inode from the disk, ...                          *)
BeginWrite(h, src) ==
  /\ pc = "idle" /\ handle[h] # Closed
  /\ call' = [NoCall EXCEPT !.op = "write", !.ino = handle[h].ino, !.h = h,
                            !.off = handle[h].pos, !.src = src]
  /\ cur' = inode[handle[h].ino]
  /\ pc' = "next"
  /\ UNCHANGED <<diskVars, handle, blk, tab, history>>

NextBlock ==
  /\ pc = "next"
  /\ \/ call.src = <<>> /\ pc' = "save" /\ blk' = 0
     \/ call.src # <<>> /\ BlockAt(cur, At) # 0 /\ pc' = "data" /\ blk' = BlockAt(cur, At)
  /\ UNCHANGED <<diskVars, handle, call, cur, tab, history>>

(* The part of the source that goes in this block, and where.              *)
First == call.off % Words
Count == IF Len(call.src) < Words - First THEN Len(call.src) ELSE Words - First

Noted == [p \in 0 .. MaxBlocks * Words - 1 |->
            IF p \in call.off .. call.off + Count - 1 THEN call.src[p - call.off + 1]
                                                      ELSE written[call.ino][p]]

(* ext2_write_data, which does not read a block it writes in part          *)
WriteWordsNoRead ==
  /\ pc = "data"
  /\ LET end == call.off + Count
     IN /\ disk' = [disk EXCEPT ![blk] = [w \in 0 .. Words - 1 |->
                      IF w \in First .. First + Count - 1 THEN call.src[w - First + 1] ELSE Junk]]
        /\ written' = [written EXCEPT ![call.ino] = Noted]
        /\ cur' = IF end > cur.size THEN [cur EXCEPT !.size = end] ELSE cur
        /\ call' = [call EXCEPT !.off = end, !.src = SubSeq(@, Count + 1, Len(@))]
  /\ pc' = "next" /\ blk' = 0
  /\ UNCHANGED <<blockUsed, inodeUsed, inode, names, handle, tab, created, shared>>

(* ... writes block after block, keeping the words around what it was      *)
(* given, ...                                                              *)
WriteWords ==
  /\ pc = "data"
  /\ LET end == call.off + Count
     IN /\ disk' = [disk EXCEPT ![blk] = [w \in 0 .. Words - 1 |->
                      IF w \in First .. First + Count - 1 THEN call.src[w - First + 1] ELSE @[w]]]
        /\ written' = [written EXCEPT ![call.ino] = Noted]
        /\ cur' = IF end > cur.size THEN [cur EXCEPT !.size = end] ELSE cur
        /\ call' = [call EXCEPT !.off = end, !.src = SubSeq(@, Count + 1, Len(@))]
  /\ pc' = "next" /\ blk' = 0
  /\ UNCHANGED <<blockUsed, inodeUsed, inode, names, handle, tab, created, shared>>

(* ext2_create and ext2_mkdir clear a block they add to the directory ...  *)
ClearBlock ==
  /\ pc = "clear"
  /\ disk' = [disk EXCEPT ![blk] = Zeros]
  /\ pc' = "enter" /\ blk' = 0
  /\ UNCHANGED <<blockUsed, inodeUsed, inode, names, handle, call, cur, tab, history>>

(* ... and write the entry: it takes one word, the least that is not a     *)
(* whole block.                                                            *)
EnterName ==
  /\ pc = "enter"
  /\ listing' = DirectoryWritten([n \in DOMAIN listing \cup {call.name} |->
                                    IF n = call.name THEN call.ino ELSE listing[n]],
                                 listing)
  /\ cur' = IF roomy THEN cur ELSE [cur EXCEPT !.size = call.off + 1]
  /\ pc' = "save"
  /\ UNCHANGED <<blockUsed, inodeUsed, inode, disk, roomy, handle, call, blk, tab, history>>

(* ext2_write, which forgets the size the handle keeps                     *)
SaveInodeNoSize ==
  /\ pc = "save"
  /\ inode' = [inode EXCEPT ![IF call.op = "write" THEN call.ino ELSE Root] = cur]
  /\ handle' = CASE call.op = "write"  -> [handle EXCEPT ![call.h].pos = call.off]
                 [] call.op = "create" -> [handle EXCEPT ![call.h] =
                                             [ino |-> call.ino, pos |-> 0, size |-> 0]]
                 [] call.op = "mkdir"  -> handle
  /\ created' = IF call.op = "create" THEN created \cup {call.name} ELSE created
  /\ shared' = IF call.op = "create" THEN shared \ {call.h} ELSE shared
  /\ EndCall
  /\ UNCHANGED <<blockUsed, inodeUsed, disk, names, written>>

(* ext2_create and ext2_mkdir, which write the directory as the new inode *)
SaveInodeAsNew ==
  /\ pc = "save"
  /\ inode' = [inode EXCEPT ![call.ino] = cur]
  /\ handle' = CASE call.op = "write"  -> [handle EXCEPT ![call.h].pos = call.off,
                                                         ![call.h].size = cur.size]
                 [] call.op = "create" -> [handle EXCEPT ![call.h] =
                                             [ino |-> call.ino, pos |-> 0, size |-> 0]]
                 [] call.op = "mkdir"  -> handle
  /\ created' = IF call.op = "create" THEN created \cup {call.name} ELSE created
  /\ shared' = IF call.op = "create" THEN shared \ {call.h} ELSE shared
  /\ EndCall
  /\ UNCHANGED <<blockUsed, inodeUsed, disk, names, written>>

(* The changed inode is written and the call succeeds.                     *)
SaveInode ==
  /\ pc = "save"
  /\ inode' = [inode EXCEPT ![IF call.op = "write" THEN call.ino ELSE Root] = cur]
  /\ handle' = CASE call.op = "write"  -> [handle EXCEPT ![call.h].pos = call.off,
                                                         ![call.h].size = cur.size]
                 [] call.op = "create" -> [handle EXCEPT ![call.h] =
                                             [ino |-> call.ino, pos |-> 0, size |-> 0]]
                 [] call.op = "mkdir"  -> handle
  /\ created' = IF call.op = "create" THEN created \cup {call.name} ELSE created
  /\ shared' = IF call.op = "create" THEN shared \ {call.h} ELSE shared
  /\ EndCall
  /\ UNCHANGED <<blockUsed, inodeUsed, disk, names, written>>

-----------------------------------------------------------------------------
(* ext2_lseek: whatever the whence, no further than the size on the disk.  *)
Seek(h, p) ==
  /\ pc = "idle" /\ handle[h] # Closed
  /\ LET size == inode[handle[h].ino].size
     IN handle' = [handle EXCEPT ![h].pos = IF p > size THEN size ELSE p]
  /\ UNCHANGED <<diskVars, pc, call, cur, blk, tab, history>>

(* vfs_close, whose ext2_close writes the handle's copy of the size.       *)
Close(h) ==
  /\ pc = "idle" /\ handle[h] # Closed
  /\ inode' = [inode EXCEPT ![handle[h].ino].size = handle[h].size]
  /\ handle' = [handle EXCEPT ![h] = Closed]
  /\ UNCHANGED <<blockUsed, inodeUsed, disk, names, pc, call, cur, blk, tab, history>>

(* Someone presses reset, or the kernel dies, and the disk, which has all  *)
(* that was written so far, is mounted again.                              *)
Crash ==
  /\ pc # "idle" \/ \E h \in Handles : handle[h] # Closed
  /\ handle' = [h \in Handles |-> Closed]
  /\ EndCall
  /\ UNCHANGED <<diskVars, history>>

Allocate == TakeDirBlock \/ NoDirBlock \/ TakeBlock \/ NoBlock
Link == LinkDirect \/ TakeTable \/ ZeroTable \/ WriteIndex \/ LinkInTable \/ LinkFails
Scan == ScanDuplicate \/ ScanFindsRoom \/ ScanHangs
Store == WriteRecord \/ WriteDots \/ NextBlock \/ WriteWords \/ ClearBlock
         \/ EnterName \/ SaveInode

(* The words of one write are all alike: what a file must not get is       *)
(* somebody else's, or an earlier write's.                                 *)
Sources == {[k \in 1 .. n |-> v] : n \in WriteSizes, v \in Values}

Next ==
  \/ \E h \in Handles, n \in Names : Open(h, n) \/ Create(h, n)
  \/ \E n \in Names : LookupHangs(n) \/ Mkdir(n)
  \/ \E h \in Handles, src \in Sources : BeginWrite(h, src)
  \/ \E h \in Handles, p \in Offsets : Seek(h, p)
  \/ \E h \in Handles : Close(h)
  \/ Allocate \/ Link \/ Scan \/ Store \/ Crash

Spec == Init /\ [][Next]_vars

-----------------------------------------------------------------------------
TypeOK ==
  /\ blockUsed \subseteq Blocks
  /\ inodeUsed \subseteq {Root} \cup Inodes
  /\ inode \in [{Root} \cup Inodes -> Inode]
  /\ disk \in [0 .. NBlocks -> Block]
  /\ roomy \in BOOLEAN
  /\ listing \in [DOMAIN listing -> Inodes] /\ DOMAIN listing \subseteq Names
  /\ handle \in [Handles -> [ino : {Root} \cup Inodes, pos : 0 .. MaxBlocks * Words,
                             size : 0 .. MaxBlocks * Words]]
  /\ pc \in {"idle", "record", "dirblock", "dots", "scan", "next", "link", "zero",
             "index", "data", "clear", "enter", "save", "hung"}
  /\ call \in [op : {"none", "create", "mkdir", "write"}, ino : {Root} \cup Inodes,
               h : Handles \cup {Nil}, name : Names \cup {Nil}, off : 0 .. MaxBlocks * Words,
               src : Seq(Values)]
  /\ cur \in Inode
  /\ blk \in 0 .. NBlocks /\ tab \in 0 .. NBlocks
  /\ written \in [Inodes -> [0 .. MaxBlocks * Words - 1 -> Values \cup {Junk}]]
  /\ created \subseteq Names /\ shared \subseteq Handles

(* The table blocks of the inodes in use, and every pointer to a block on  *)
(* the disk: from a slot of such an inode, or from an entry of a table.    *)
Entries == 0 .. Words - 1
DoubleTables == {inode[i].slot[Double] : i \in inodeUsed} \ {0}
Tables == {inode[i].slot[Single] : i \in inodeUsed} \cup DoubleTables
          \cup {disk[b][k] : b \in DoubleTables, k \in Entries}

Pointers ==
  {q \in {[from |-> "inode", at |-> i, k |-> s, to |-> inode[i].slot[s]] :
             i \in inodeUsed, s \in 0 .. Double}
        \cup {[from |-> "table", at |-> b, k |-> k, to |-> disk[b][k]] :
                b \in Tables \ {0}, k \in Entries} : q.to # 0}

(* The disk can be read again after a crash at any moment: every block     *)
(* that an inode in use leads to is marked in the bitmap, so that no later *)
(* allocation hands it out.  ext2.c marks a block before it links it.      *)
LinkedBlocksMarked == \A q \in Pointers : q.to \in blockUsed

(* No block is reached twice, not from two files nor from two places of    *)
(* one, whichever calls failed for want of blocks or were cut short.       *)
NoSharedBlock == \A q, r \in Pointers : q.to = r.to => q = r

(* What a file holds on the disk is what was last written to it, word by   *)
(* word up to its size: no write through another handle or to another      *)
(* file, no directory's growth, no table and no leftover of the block's    *)
(* former use shows.                                                       *)
ContentsKept ==
  \A i \in inodeUsed : ~inode[i].dir =>
    \A p \in 0 .. inode[i].size - 1 :
      LET b == BlockAt(inode[i], p \div Words)
      IN b # 0 /\ disk[b][p % Words] = written[i][p]

(* ext2_close writes back the size the handle remembers: that is the size  *)
(* on the disk, and the close cuts nothing off, as long as no other handle *)
(* was open on the file at the same time.                                  *)
LoneCloseKeepsSize ==
  \A h \in Handles : handle[h] # Closed /\ h \notin shared
    => handle[h].size = inode[handle[h].ino].size

(* The EXT2 TEST of kernel/main.c creates /test.txt and then opens it      *)
(* again to read it: a name that ext2_create reported as created is found. *)
CreatedIsFound == created \subseteq DOMAIN listing
=============================================================================
