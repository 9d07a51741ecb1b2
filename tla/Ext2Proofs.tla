----------------------------- MODULE Ext2Proofs -----------------------------
(***************************************************************************)
(* What ext2.c keeps of the disk's structure, for disks, inodes and files  *)
(* of any size, any number of handles, and a crash after any write.        *)
(*                                                                         *)
(* The disk alone does not make an inductive invariant: a call links       *)
(* blocks in its own copy of an inode, and writes that copy last.  So the  *)
(* invariant is about the inodes as the running call sees them (Links),    *)
(* and says besides that this copy only ever adds to what is on the disk:  *)
(* that is why a crash, or a call that gives up, leaves nothing broken.    *)
(***************************************************************************)
EXTENDS Ext2, WellFoundedInduction, TLAPS

Slots == 0 .. Double
AllInodes == {Root} \cup Inodes

-----------------------------------------------------------------------------
(* The structure, for links L of the inodes U, block contents D and marked *)
(* blocks B                                                                *)

DoubleTable(L, U, b) == b # 0 /\ \E i \in U : L[i][Double] = b

IsTable(L, D, U, b) ==
  /\ b # 0
  /\ \/ \E i \in U : L[i][Single] = b \/ L[i][Double] = b
     \/ \E d \in Blocks, k \in Entries : DoubleTable(L, U, d) /\ D[d][k] = b

NotReached(L, D, U, b) ==
  /\ \A i \in U, s \in Slots : L[i][s] # b
  /\ \A t \in Blocks, k \in Entries : IsTable(L, D, U, t) => D[t][k] # b

SlotsMarked(L, U, B) ==
  \A i \in U, s \in Slots : L[i][s] # 0 => L[i][s] \in B

EntriesMarked(L, D, U, B) ==
  \A t \in Blocks, k \in Entries : IsTable(L, D, U, t) /\ D[t][k] # 0 => D[t][k] \in B

SlotsApart(L, U) ==
  \A i, j \in U, s, r \in Slots : L[i][s] # 0 /\ L[i][s] = L[j][r] => i = j /\ s = r

SlotsAndEntriesApart(L, D, U) ==
  \A i \in U, s \in Slots, t \in Blocks, k \in Entries :
    IsTable(L, D, U, t) /\ L[i][s] # 0 => L[i][s] # D[t][k]

EntriesApart(L, D, U) ==
  \A t, u \in Blocks, k, l \in Entries :
    /\ IsTable(L, D, U, t) /\ IsTable(L, D, U, u)
    /\ D[t][k] # 0 /\ D[t][k] = D[u][l]
    => t = u /\ k = l

Sound(L, D, U, B) ==
  /\ SlotsMarked(L, U, B) /\ EntriesMarked(L, D, U, B)
  /\ SlotsApart(L, U) /\ SlotsAndEntriesApart(L, D, U) /\ EntriesApart(L, D, U)

-----------------------------------------------------------------------------
(* The invariant                                                           *)

Running == pc \notin {"idle", "hung"}
Growing == Running /\ call.op # "write"
Target == IF call.op = "write" THEN call.ino ELSE Root

(* A new table counts as linked only when it has been zeroed.              *)
Unzeroed == pc = "zero" /\ cur.slot[TableSlot] = tab
Working == [s \in Slots |-> IF Unzeroed /\ s = TableSlot THEN 0 ELSE cur.slot[s]]
Links == [i \in AllInodes |-> IF Running /\ i = Target THEN Working ELSE inode[i].slot]
Saved == [i \in AllInodes |-> inode[i].slot]

Empty(i) == \A s \in Slots : inode[i].slot[s] = 0
Reserved(b) == b \in blockUsed /\ NotReached(Links, disk, inodeUsed, b)

StructureInv == Sound(Links, disk, inodeUsed, blockUsed)

CopyInv ==
  Running => \A s \in Slots : inode[Target].slot[s] # 0
                                => Links[Target][s] = inode[Target].slot[s]

UnusedInv ==
  /\ \A i \in Inodes : i \notin inodeUsed => Empty(i)
  /\ \A k \in Entries : disk[0][k] = 0

CallInv ==
  /\ Running => /\ call.op \in {"create", "mkdir", "write"}
                /\ call.ino \in Inodes /\ call.ino \in inodeUsed
                /\ call.op # "mkdir" => call.h \in Handles
  /\ Running /\ call.op = "write" =>
       /\ pc \in {"next", "link", "zero", "index", "data", "save"}
       /\ handle[call.h].ino = call.ino
  /\ Growing => /\ pc \notin {"next", "data"} /\ call.name \in Names
                /\ \A h \in Handles : handle[h].ino # call.ino
                /\ \A n \in DOMAIN OnImage : OnImage[n] # call.ino
  /\ Running /\ call.op = "create" => /\ pc \notin {"dirblock", "dots"}
                                      /\ Empty(call.ino)
                                      /\ handle[call.h] = Closed
                                      /\ pc # "record" => inode[call.ino].size = 0
  /\ pc \in {"dirblock", "record"} => Empty(call.ino)

ReservedInv ==
  /\ pc \in {"link", "zero", "index"} => Reserved(blk)
  /\ pc = "record" /\ call.op = "mkdir" => Reserved(blk)
  /\ pc \in {"data", "clear", "dots"} => blk \in Blocks /\ ~IsTable(Links, disk, inodeUsed, blk)
  /\ pc \in {"zero", "index"} => Reserved(tab) /\ tab # blk /\ Direct <= At /\ At < MaxBlocks
  /\ pc = "zero" /\ ~Unzeroed => Direct + Words <= At /\ cur.slot[Double] # 0
  /\ pc = "index" => /\ Direct + Words <= At /\ cur.slot[Double] # 0
                     /\ \A k \in Entries : disk[tab][k] = 0
  /\ pc = "link" /\ At < Direct => cur.slot[At] = 0

BoundInv ==
  /\ pc \in {"data", "clear"} => At < MaxBlocks
  /\ pc = "enter" /\ ~roomy => At < MaxBlocks

RootInv ==
  /\ Root \in inodeUsed
  /\ inode[Root] = DirInode(1) \/ ScanNeverEnds
  /\ Growing => call.off = inode[Root].size
  /\ pc \in {"dirblock", "record", "dots", "scan"} => cur = inode[Root]
  /\ Growing /\ pc \in {"enter", "save"} /\ roomy => cur = inode[Root]
  /\ Growing /\ pc \in {"link", "zero", "index", "clear"} => ~roomy /\ ~ScanNeverEnds
  /\ pc = "enter" /\ ~roomy => ~ScanNeverEnds
  /\ Growing /\ pc = "save" /\ ~roomy => cur.size % Words # 0

HandleInv ==
  /\ listing = OnImage
  /\ \A n \in DOMAIN OnImage : OnImage[n] \in inodeUsed
  /\ \A h \in Handles : handle[h] # Closed => handle[h].ino \in Inodes /\ handle[h].ino \in inodeUsed

SizeInv ==
  \A h \in Handles : handle[h] # Closed /\ h \notin shared
    => /\ handle[h].size = inode[handle[h].ino].size
       /\ \A g \in Handles \ {h} : handle[g].ino # handle[h].ino

DiskInv ==
  /\ TypeOK /\ StructureInv /\ CopyInv /\ UnusedInv /\ CallInv /\ ReservedInv
  /\ BoundInv /\ RootInv /\ HandleInv

-----------------------------------------------------------------------------
(* What may be done to a sound structure                                   *)

(* Links may go, inodes may be given up or be taken while they are empty,  *)
(* and blocks may be marked.                                               *)
LEMMA Fewer ==
  ASSUME NEW L, NEW M, NEW D, NEW U, NEW X, NEW B, NEW C, B \subseteq C,
         \A i \in X, s \in Slots : M[i][s] = 0 \/ (i \in U /\ M[i][s] = L[i][s])
  PROVE  /\ Sound(L, D, U, B) => Sound(M, D, X, C)
         /\ \A b : IsTable(M, D, X, b) => IsTable(L, D, U, b)
         /\ \A b : b # 0 /\ NotReached(L, D, U, b) => NotReached(M, D, X, b)
  <1>1. Single \in Slots /\ Double \in Slots
    BY Ext2Assumption DEF Slots, Single, Double
  <1>2. \A b : DoubleTable(M, X, b) => DoubleTable(L, U, b)
    BY <1>1 DEF DoubleTable
  <1>3. \A b : IsTable(M, D, X, b) => IsTable(L, D, U, b)
    BY <1>1, <1>2 DEF IsTable
  <1>4. \A b : b # 0 /\ NotReached(L, D, U, b) => NotReached(M, D, X, b)
    BY <1>3 DEF NotReached
  <1>5. ASSUME Sound(L, D, U, B) PROVE Sound(M, D, X, C)
    <2>1. SlotsMarked(M, X, C) /\ EntriesMarked(M, D, X, C)
      BY <1>3, <1>5 DEF Sound, SlotsMarked, EntriesMarked
    <2>2. SlotsApart(M, X)
      BY <1>5 DEF Sound, SlotsApart
    <2>3. SlotsAndEntriesApart(M, D, X)
      BY <1>3, <1>5 DEF Sound, SlotsAndEntriesApart
    <2>4. EntriesApart(M, D, X)
      BY <1>3, <1>5 DEF Sound, EntriesApart
    <2> QED BY <2>1, <2>2, <2>3, <2>4 DEF Sound
  <1> QED BY <1>3, <1>4, <1>5

(* A block that nothing reaches may be given back.                         *)
LEMMA Unmarked ==
  ASSUME NEW L, NEW D, NEW U, NEW B, NEW b, Sound(L, D, U, B), NotReached(L, D, U, b)
  PROVE  Sound(L, D, U, B \ {b})
  BY DEF Sound, NotReached, SlotsMarked, EntriesMarked

(* What is in a block that is not a table decides nothing.                 *)
LEMMA DataWritten ==
  ASSUME NEW L, NEW D, NEW E, NEW U, NEW B,
         \A t \in Blocks : IsTable(L, D, U, t) => \A k \in Entries : E[t][k] = D[t][k]
  PROVE  /\ Sound(L, D, U, B) => Sound(L, E, U, B)
         /\ \A t \in Blocks : IsTable(L, E, U, t) <=> IsTable(L, D, U, t)
         /\ \A b : NotReached(L, D, U, b) => NotReached(L, E, U, b)
  <1>1. \A d \in Blocks : DoubleTable(L, U, d) => IsTable(L, D, U, d)
    BY DEF DoubleTable, IsTable
  <1>2. \A t \in Blocks : IsTable(L, E, U, t) <=> IsTable(L, D, U, t)
    BY <1>1 DEF IsTable
  <1>3. \A b : NotReached(L, D, U, b) => NotReached(L, E, U, b)
    BY <1>2 DEF NotReached
  <1>4. ASSUME Sound(L, D, U, B) PROVE Sound(L, E, U, B)
    <2>1. EntriesMarked(L, E, U, B)
      BY <1>2, <1>4 DEF Sound, EntriesMarked
    <2>2. SlotsAndEntriesApart(L, E, U)
      BY <1>2, <1>4 DEF Sound, SlotsAndEntriesApart
    <2>3. EntriesApart(L, E, U)
      BY <1>2, <1>4 DEF Sound, EntriesApart
    <2> QED BY <1>4, <2>1, <2>2, <2>3 DEF Sound
  <1> QED BY <1>2, <1>3, <1>4

(* A marked block that nothing reaches may be linked from a slot; if it    *)
(* becomes a table, it must be empty.                                      *)
LEMMA SlotLinked ==
  ASSUME NEW L, NEW M, NEW D, NEW U, NEW B, Sound(L, D, U, B),
         NEW b \in Blocks, b \in B, NotReached(L, D, U, b),
         NEW m \in U, NEW p \in Slots,
         p = Single \/ p = Double => \A k \in Entries : D[b][k] = 0,
         \A i \in U, s \in Slots : M[i][s] = IF i = m /\ s = p THEN b ELSE L[i][s]
  PROVE  /\ Sound(M, D, U, B)
         /\ \A t \in Blocks : IsTable(M, D, U, t)
                                => IsTable(L, D, U, t) \/ (t = b /\ (p = Single \/ p = Double))
         /\ \A c : c # 0 /\ c # b /\ NotReached(L, D, U, c) => NotReached(M, D, U, c)
  <1>1. Single \in Slots /\ Double \in Slots /\ Single # Double /\ 0 \notin Blocks
    BY Ext2Assumption DEF Slots, Single, Double, Blocks
  <1> DEFINE New(t) == t = b /\ (p = Single \/ p = Double)
  <1>2. \A d \in Blocks : DoubleTable(M, U, d) => DoubleTable(L, U, d) \/ New(d)
    BY <1>1 DEF DoubleTable
  <1>3. \A t \in Blocks : IsTable(M, D, U, t) => IsTable(L, D, U, t) \/ New(t)
    BY <1>1, <1>2 DEF IsTable
  <1>4. \A t \in Blocks, k \in Entries : IsTable(M, D, U, t) /\ D[t][k] # 0 => IsTable(L, D, U, t)
    BY <1>3
  <1>5. \A t \in Blocks, k \in Entries : IsTable(L, D, U, t) => D[t][k] # b
    BY DEF NotReached
  <1>6. \A i \in U, s \in Slots : L[i][s] # b
    BY DEF NotReached
  <1>7. SlotsMarked(M, U, B) /\ EntriesMarked(M, D, U, B)
    BY <1>4 DEF Sound, SlotsMarked, EntriesMarked
  <1>8. SlotsApart(M, U)
    BY <1>6 DEF Sound, SlotsApart
  <1>9. SlotsAndEntriesApart(M, D, U)
    <2> SUFFICES ASSUME NEW i \in U, NEW s \in Slots, NEW t \in Blocks, NEW k \in Entries,
                        IsTable(M, D, U, t), M[i][s] # 0, M[i][s] = D[t][k]
                 PROVE  FALSE
      BY DEF SlotsAndEntriesApart
    <2>1. IsTable(L, D, U, t)
      BY <1>4
    <2>2. M[i][s] = L[i][s]
      BY <1>5, <2>1
    <2>3. L[i][s] # 0 /\ L[i][s] = D[t][k]
      BY <2>2
    <2>4. SlotsAndEntriesApart(L, D, U)
      BY DEF Sound
    <2> QED BY <2>1, <2>3, <2>4 DEF SlotsAndEntriesApart
  <1>10. EntriesApart(M, D, U)
    <2> SUFFICES ASSUME NEW t \in Blocks, NEW u \in Blocks, NEW k \in Entries, NEW l \in Entries,
                        IsTable(M, D, U, t), IsTable(M, D, U, u), D[t][k] # 0, D[t][k] = D[u][l]
                 PROVE  t = u /\ k = l
      BY DEF EntriesApart
    <2> QED BY <1>4 DEF Sound, EntriesApart
  <1>11. ASSUME NEW c, c # 0, c # b, NotReached(L, D, U, c) PROVE NotReached(M, D, U, c)
    <2>1. \A t \in Blocks, k \in Entries : IsTable(M, D, U, t) => D[t][k] # c
      BY <1>4, <1>11 DEF NotReached
    <2> QED BY <1>11, <2>1 DEF NotReached
  <1> QED BY <1>3, <1>7, <1>8, <1>9, <1>10, <1>11 DEF Sound

(* ... or from an entry of a table; an entry of a double table makes it a  *)
(* table, which must be empty.                                             *)
LEMMA EntryLinked ==
  ASSUME NEW L, NEW D, NEW E, NEW U, NEW B, Sound(L, D, U, B),
         NEW b \in Blocks, b \in B, NotReached(L, D, U, b),
         NEW t \in Blocks, IsTable(L, D, U, t), NEW e \in Entries,
         DoubleTable(L, U, t) => \A k \in Entries : D[b][k] = 0,
         \A u \in Blocks, k \in Entries : E[u][k] = IF u = t /\ k = e THEN b ELSE D[u][k]
  PROVE  /\ Sound(L, E, U, B)
         /\ \A c \in Blocks : IsTable(L, E, U, c)
                                => IsTable(L, D, U, c) \/ (c = b /\ DoubleTable(L, U, t))
         /\ \A c : c # 0 /\ c # b /\ NotReached(L, D, U, c) => NotReached(L, E, U, c)
  <1>1. b # t /\ ~IsTable(L, D, U, b)
    <2>1. \A i \in U : L[i][Single] # b /\ L[i][Double] # b
      BY Ext2Assumption DEF NotReached, Slots, Single, Double
    <2>2. \A d \in Blocks : DoubleTable(L, U, d) => IsTable(L, D, U, d)
      BY DEF DoubleTable, IsTable
    <2> QED BY <2>1, <2>2 DEF NotReached, IsTable
  <1>2. \A c \in Blocks : IsTable(L, E, U, c)
                            => IsTable(L, D, U, c) \/ (c = b /\ DoubleTable(L, U, t))
    BY DEF IsTable
  <1>3. \A u \in Blocks, k \in Entries : IsTable(L, E, U, u) /\ E[u][k] # 0
                                           => IsTable(L, D, U, u)
    BY <1>1, <1>2
  <1>4. \A u \in Blocks, k \in Entries : IsTable(L, D, U, u) => D[u][k] # b
    BY DEF NotReached
  <1>5. \A i \in U, s \in Slots : L[i][s] # b
    BY DEF NotReached
  <1>6. EntriesMarked(L, E, U, B)
    BY <1>3 DEF Sound, EntriesMarked
  <1>7. SlotsAndEntriesApart(L, E, U)
    <2> SUFFICES ASSUME NEW i \in U, NEW s \in Slots, NEW u \in Blocks, NEW k \in Entries,
                        IsTable(L, E, U, u), L[i][s] # 0, L[i][s] = E[u][k]
                 PROVE  FALSE
      BY DEF SlotsAndEntriesApart
    <2>1. IsTable(L, D, U, u) /\ E[u][k] = D[u][k]
      BY <1>3, <1>5
    <2>2. SlotsAndEntriesApart(L, D, U)
      BY DEF Sound
    <2> QED BY <2>1, <2>2 DEF SlotsAndEntriesApart
  <1>8. EntriesApart(L, E, U)
    <2> SUFFICES ASSUME NEW u \in Blocks, NEW v \in Blocks, NEW k \in Entries, NEW l \in Entries,
                        IsTable(L, E, U, u), IsTable(L, E, U, v), E[u][k] # 0, E[u][k] = E[v][l]
                 PROVE  u = v /\ k = l
      BY DEF EntriesApart
    <2>1. IsTable(L, D, U, u) /\ IsTable(L, D, U, v)
      BY <1>3
    <2>2. EntriesApart(L, D, U)
      BY DEF Sound
    <2>3. CASE E[u][k] = b
      <3>1. D[u][k] # b /\ D[v][l] # b
        BY <1>4, <2>1
      <3>2. u = t /\ k = e
        BY <2>3, <3>1
      <3>3. v = t /\ l = e
        BY <2>3, <3>1
      <3> QED BY <3>2, <3>3
    <2>4. CASE E[u][k] # b
      BY <2>1, <2>2, <2>4 DEF EntriesApart
    <2> QED BY <2>3, <2>4
  <1>9. ASSUME NEW c, c # 0, c # b, NotReached(L, D, U, c) PROVE NotReached(L, E, U, c)
    <2>1. \A u \in Blocks, k \in Entries : IsTable(L, D, U, u) => D[u][k] # c
      BY <1>9 DEF NotReached
    <2>2. ASSUME NEW u \in Blocks, NEW k \in Entries, IsTable(L, E, U, u), E[u][k] = c
          PROVE  FALSE
      <3>1. IsTable(L, D, U, u) /\ E[u][k] = D[u][k]
        BY <1>3, <1>9, <2>2
      <3> QED BY <2>1, <2>2, <3>1
    <2> QED BY <1>9, <2>2 DEF NotReached
  <1> QED BY <1>2, <1>6, <1>7, <1>8, <1>9 DEF Sound

(* A direct slot leads to data, ...                                        *)
LEMMA DirectIsData ==
  ASSUME NEW L, NEW D, NEW U, NEW B, Sound(L, D, U, B),
         NEW i \in U, NEW s \in 0 .. Direct - 1
  PROVE  ~IsTable(L, D, U, L[i][s])
  <1>1. /\ s \in Slots /\ Single \in Slots /\ Double \in Slots
        /\ s # Single /\ s # Double
    BY Ext2Assumption DEF Slots, Single, Double
  <1>2. \A d \in Blocks : DoubleTable(L, U, d) => IsTable(L, D, U, d)
    BY DEF DoubleTable, IsTable
  <1>3. SlotsApart(L, U) /\ SlotsAndEntriesApart(L, D, U)
    BY DEF Sound
  <1> SUFFICES ASSUME IsTable(L, D, U, L[i][s]) PROVE FALSE
    OBVIOUS
  <1>4. L[i][s] # 0
    BY DEF IsTable
  <1>5. \A j \in U : L[j][Single] # L[i][s] /\ L[j][Double] # L[i][s]
    BY <1>1, <1>3, <1>4 DEF SlotsApart
  <1>6. PICK d \in Blocks, k \in Entries : DoubleTable(L, U, d) /\ D[d][k] = L[i][s]
    BY <1>5 DEF IsTable
  <1> QED BY <1>1, <1>2, <1>3, <1>4, <1>6 DEF SlotsAndEntriesApart

(* ... and so does an entry of a table that is not a double one.           *)
LEMMA EntryIsData ==
  ASSUME NEW L, NEW D, NEW U, NEW B, Sound(L, D, U, B),
         NEW t \in Blocks, IsTable(L, D, U, t), ~DoubleTable(L, U, t), NEW k \in Entries
  PROVE  ~IsTable(L, D, U, D[t][k])
  <1>1. Single \in Slots /\ Double \in Slots
    BY Ext2Assumption DEF Slots, Single, Double
  <1>2. \A d \in Blocks : DoubleTable(L, U, d) => IsTable(L, D, U, d)
    BY DEF DoubleTable, IsTable
  <1>3. EntriesApart(L, D, U) /\ SlotsAndEntriesApart(L, D, U)
    BY DEF Sound
  <1> SUFFICES ASSUME IsTable(L, D, U, D[t][k]) PROVE FALSE
    OBVIOUS
  <1>4. D[t][k] # 0
    BY DEF IsTable
  <1>5. \A j \in U : L[j][Single] # D[t][k] /\ L[j][Double] # D[t][k]
    BY <1>1, <1>3, <1>4 DEF SlotsAndEntriesApart
  <1>6. PICK d \in Blocks, l \in Entries : DoubleTable(L, U, d) /\ D[d][l] = D[t][k]
    BY <1>5 DEF IsTable
  <1> QED BY <1>2, <1>3, <1>4, <1>6 DEF EntriesApart

(* A block is a double table of one slot, or is reached otherwise, not     *)
(* both.                                                                   *)
LEMMA SingleIsNotDouble ==
  ASSUME NEW L, NEW D, NEW U, NEW B, Sound(L, D, U, B), NEW i \in U
  PROVE  ~DoubleTable(L, U, L[i][Single])
  <1>1. Single \in Slots /\ Double \in Slots /\ Single # Double
    BY Ext2Assumption DEF Slots, Single, Double
  <1> QED BY <1>1 DEF Sound, SlotsApart, DoubleTable

LEMMA LowerIsNotDouble ==
  ASSUME NEW L, NEW D, NEW U, NEW B, Sound(L, D, U, B),
         NEW d \in Blocks, DoubleTable(L, U, d), NEW k \in Entries
  PROVE  ~DoubleTable(L, U, D[d][k])
  <1>1. Double \in Slots
    BY Ext2Assumption DEF Slots, Double
  <1>2. IsTable(L, D, U, d)
    BY DEF DoubleTable, IsTable
  <1> QED BY <1>1, <1>2 DEF Sound, SlotsAndEntriesApart, DoubleTable

-----------------------------------------------------------------------------
(* Numbers and types                                                       *)

(* The sizes of the disk and of its files.                                 *)
LEMMA Geometry ==
  /\ Direct \in Nat /\ Direct >= 1 /\ Words \in Nat /\ Words >= 2
  /\ Words * Words \in Nat /\ MaxBlocks \in Nat /\ MaxBlocks = Direct + Words + Words * Words
  /\ Direct < MaxBlocks /\ Words <= MaxBlocks * Words /\ MaxBlocks * Words \in Nat
  /\ Single \in Slots /\ Double \in Slots /\ Single = Direct /\ Double = Direct + 1
  /\ NBlocks \in Nat /\ NInodes \in Nat
  <1>1. Direct \in Nat /\ Direct >= 1 /\ Words \in Nat /\ Words >= 2 /\ NBlocks \in Nat /\ NInodes \in Nat
    BY Ext2Assumption
  <1>2. \A w \in Nat : w * w \in Nat
    OBVIOUS
  <1>3. Words * Words \in Nat
    BY <1>1, <1>2
  <1>4. MaxBlocks \in Nat /\ MaxBlocks = Direct + Words + Words * Words /\ Direct < MaxBlocks
    BY <1>1, <1>3 DEF MaxBlocks
  <1>5. \A m \in Nat, w \in Nat : m >= 1 => w <= m * w /\ m * w \in Nat
    BY Z3
  <1>6. Words <= MaxBlocks * Words /\ MaxBlocks * Words \in Nat
    BY <1>1, <1>4, <1>5
  <1> QED BY <1>1, <1>3, <1>4, <1>6 DEF Single, Double, Slots

(* Positions, blocks and words within a block.                             *)
LEMMA Quotient ==
  ASSUME NEW n \in Nat
  PROVE  /\ n \div Words \in Nat /\ n % Words \in Entries
         /\ n = Words * (n \div Words) + (n % Words)
         /\ \A m \in Nat : n < m * Words <=> n \div Words < m
  <1>1. Words \in Nat /\ Words >= 2
    BY Geometry
  <1>2. \A w \in Nat \ {0}, a \in Nat :
          a \div w \in Nat /\ a % w \in 0 .. w - 1 /\ a = w * (a \div w) + (a % w)
    BY Z3
  <1>3. /\ n \div Words \in Nat /\ n % Words \in 0 .. Words - 1
        /\ n = Words * (n \div Words) + (n % Words)
    <2>1. Words \in Nat \ {0}
      BY <1>1
    <2> QED BY <1>2, <2>1, Zenon
  <1>4. \A w \in Nat, q \in Nat, r \in Nat, m \in Nat : r < w => (w * q + r < m * w <=> q < m)
    <2> SUFFICES ASSUME NEW w \in Nat, NEW q \in Nat, NEW r \in Nat, NEW m \in Nat, r < w
                 PROVE  w * q + r < m * w <=> q < m
      OBVIOUS
    <2>1. CASE q < m
      <3>1. PICK d \in Nat : m = q + 1 + d
        <4>1. m - q - 1 \in Nat /\ m = q + 1 + (m - q - 1)
          BY <2>1
        <4> QED BY <4>1
      <3>2. m * w = w * q + w + d * w /\ d * w \in Nat /\ w * q \in Nat
        BY <3>1, Z3
      <3> QED BY <2>1, <3>2
    <2>2. CASE ~(q < m)
      <3>1. PICK d \in Nat : q = m + d
        <4>1. q - m \in Nat /\ q = m + (q - m)
          BY <2>2
        <4> QED BY <4>1
      <3>2. w * q = m * w + d * w /\ d * w \in Nat /\ m * w \in Nat
        BY <3>1, Z3
      <3> QED BY <2>2, <3>2
    <2> QED BY <2>1, <2>2
  <1> QED BY <1>1, <1>3, <1>4 DEF Entries

(* Where in the block map the block at At is.                              *)
LEMMA Place ==
  ASSUME call.off \in Nat
  PROVE  /\ At \in Nat
         /\ At < Direct => At \in Slots /\ At # Single /\ At # Double
         /\ Direct <= At /\ At < Direct + Words => At - Direct \in Entries /\ TableSlot = Single
         /\ Direct + Words <= At => TableSlot = Double
         /\ Direct + Words <= At /\ At < MaxBlocks
              => IndexAt \in Entries /\ (At - Direct - Words) % Words \in Entries
  <1>1. At \in Nat
    BY Quotient DEF At
  <1>2. ASSUME Direct + Words <= At, At < MaxBlocks
        PROVE  IndexAt \in Entries /\ (At - Direct - Words) % Words \in Entries
    <2>1. At - Direct - Words \in Nat /\ At - Direct - Words < Words * Words
      BY <1>1, <1>2, Geometry
    <2>2. IndexAt \in Nat /\ IndexAt < Words
      BY <2>1, Quotient, Geometry DEF IndexAt
    <2> QED BY <2>1, <2>2, Quotient, Geometry DEF Entries
  <1> QED BY <1>1, <1>2, Geometry DEF TableSlot, Slots, Entries

(* A set of numbers that is not empty has a lowest one.                    *)
LEMMA LowestChosen ==
  ASSUME NEW S, S \subseteq Nat, S # {}
  PROVE  Lowest(S) \in S
  <1> DEFINE Less == {p \in Nat \X Nat : p[1] < p[2]}
  <1>1. IsWellFoundedOn(Less, Nat)
    BY NatLessThanWellFounded, Zenon DEF OpToRel
  <1>2. \E x \in S : \A y \in S : ~(<<y, x>> \in Less)
    <2> HIDE DEF Less
    <2> QED BY <1>1, WFMin
  <1>3. \A x \in Nat, y \in Nat : x <= y \/ <<y, x>> \in Less
    OBVIOUS
  <1> HIDE DEF Less
  <1>4. \E x \in S : \A y \in S : x <= y
    BY <1>2, <1>3
  <1> QED BY <1>4 DEF Lowest

(* ext2_alloc_block and ext2_alloc_inode return what was not in use.       *)
LEMMA FreshBlock ==
  ASSUME FreeBlocks # {}
  PROVE  Lowest(FreeBlocks) \in Blocks /\ Lowest(FreeBlocks) \notin blockUsed
  BY LowestChosen DEF FreeBlocks, Blocks

LEMMA FreshInode ==
  ASSUME FreeInodes # {}
  PROVE  Lowest(FreeInodes) \in Inodes /\ Lowest(FreeInodes) \notin inodeUsed
  BY LowestChosen DEF FreeInodes, Inodes

-----------------------------------------------------------------------------
(* The types                                                               *)

Length == 0 .. MaxBlocks * Words

(* The values that records and calls may have.                             *)
LEMMA SlotSet ==
  ASSUME NEW in \in Inode, NEW s \in Slots, NEW b \in 0 .. NBlocks
  PROVE  [in EXCEPT !.slot[s] = b] \in Inode
  BY DEF Inode, Slots

LEMMA SizeSet ==
  ASSUME NEW in \in Inode, NEW n \in Length
  PROVE  [in EXCEPT !.size = n] \in Inode
  BY DEF Inode, Length

LEMMA Records ==
  /\ EmptyInode \in Inode
  /\ \A b \in 0 .. NBlocks : DirInode(b) \in Inode
  /\ 0 \in Length /\ 0 \in 0 .. NBlocks /\ Blocks \subseteq 0 .. NBlocks
  /\ NoCall \in [op : {"none", "create", "mkdir", "write"}, ino : AllInodes,
                 h : Handles \cup {Nil}, name : Names \cup {Nil}, off : Length,
                 src : Seq(Values)]
  <1>1. 0 \in Length /\ Words \in Length /\ 0 \in 0 .. NBlocks /\ Blocks \subseteq 0 .. NBlocks
    BY Geometry DEF Length, Blocks
  <1>2. EmptyInode \in Inode
    BY <1>1 DEF EmptyInode, Inode, Length
  <1>3. ASSUME NEW b \in 0 .. NBlocks PROVE DirInode(b) \in Inode
    <2>1. [EmptyInode.slot EXCEPT ![0] = b] \in [0 .. Double -> 0 .. NBlocks]
      BY <1>1 DEF EmptyInode
    <2> QED BY <1>1, <2>1 DEF DirInode, Inode, Length
  <1>4. <<>> \in Seq(Values)
    OBVIOUS
  <1>5. NoCall \in [op : {"none", "create", "mkdir", "write"}, ino : AllInodes,
                    h : Handles \cup {Nil}, name : Names \cup {Nil}, off : Length,
                    src : Seq(Values)]
    BY <1>1, <1>4 DEF NoCall, AllInodes
  <1> QED BY <1>1, <1>2, <1>3, <1>5

(* What a call starts from and ends in.                                    *)
CallTypes ==
  /\ pc \in {"idle", "record", "dirblock", "dots", "scan", "next", "link", "zero",
             "index", "data", "clear", "enter", "save", "hung"}
  /\ call \in [op : {"none", "create", "mkdir", "write"}, ino : AllInodes,
               h : Handles \cup {Nil}, name : Names \cup {Nil}, off : Length,
               src : Seq(Values)]
  /\ cur \in Inode
  /\ blk \in 0 .. NBlocks /\ tab \in 0 .. NBlocks

DiskTypes ==
  /\ blockUsed \subseteq Blocks /\ inodeUsed \subseteq AllInodes
  /\ inode \in [AllInodes -> Inode]
  /\ disk \in [0 .. NBlocks -> Block]

RestTypes ==
  /\ roomy \in BOOLEAN
  /\ listing \in [DOMAIN listing -> Inodes] /\ DOMAIN listing \subseteq Names
  /\ handle \in [Handles -> [ino : AllInodes, pos : Length, size : Length]]
  /\ written \in [Inodes -> [0 .. MaxBlocks * Words - 1 -> Values \cup {Junk}]]
  /\ created \subseteq Names /\ shared \subseteq Handles

(* The types in three parts, each kept by itself.                          *)
LEMMA TypeParts == TypeOK <=> CallTypes /\ DiskTypes /\ RestTypes
  BY DEF TypeOK, CallTypes, DiskTypes, RestTypes, Length, AllInodes

LEMMA CallEnds ==
  ASSUME EndCall
  PROVE  CallTypes'
  BY Records DEF EndCall, CallTypes

LEMMA SourceTypes ==
  ASSUME NEW src \in Sources
  PROVE  src \in Seq(Values) /\ Len(src) \in Nat
  <1>1. PICK n \in WriteSizes, v \in Values : src = [k \in 1 .. n |-> v]
    BY DEF Sources
  <1>2. n \in Nat
    BY Ext2Assumption
  <1> QED BY <1>1, <1>2

LEMMA RestOf ==
  ASSUME NEW src \in Seq(Values), NEW n \in Nat
  PROVE  SubSeq(src, n + 1, Len(src)) \in Seq(Values)
  OBVIOUS

LEMMA TypePartsNext == TypeOK' <=> CallTypes' /\ DiskTypes' /\ RestTypes'
  BY DEF TypeOK, CallTypes, DiskTypes, RestTypes, Length, AllInodes

(* Handles, names and history keep their types: what is sought or written  *)
(* back is never beyond the largest file.                                  *)
LEMMA HandleTypes ==
  ASSUME DiskInv, Next
  PROVE  RestTypes'
  <1> USE DEF AllInodes
  <1>1. CallTypes /\ DiskTypes /\ RestTypes /\ HandleInv /\ CallInv
    BY TypeParts DEF DiskInv
  <1>2. ASSUME NEW h \in Handles, NEW n \in Names, Open(h, n) PROVE RestTypes'
    <2>1. listing[n] \in Inodes /\ inode[listing[n]].size \in Length
      BY <1>1, <1>2 DEF Open, RestTypes, DiskTypes, Inode, Length
    <2>2. [ino |-> listing[n], pos |-> 0, size |-> inode[listing[n]].size]
            \in [ino : AllInodes, pos : Length, size : Length]
      BY <2>1, Records
    <2>3. handle' \in [Handles -> [ino : AllInodes, pos : Length, size : Length]]
      BY <1>1, <1>2, <2>2 DEF Open, RestTypes
    <2>4. shared' \subseteq Handles
      BY <1>1, <1>2 DEF Open, RestTypes
    <2> QED BY <1>1, <1>2, <2>3, <2>4 DEF Open, RestTypes, diskVars, names
  <1>3. ASSUME NEW h \in Handles, NEW p \in Offsets, Seek(h, p) PROVE RestTypes'
    <2>1. inode[handle[h].ino].size \in Length
      BY <1>1 DEF RestTypes, DiskTypes, Inode, Length
    <2>2. (IF p > inode[handle[h].ino].size THEN inode[handle[h].ino].size ELSE p) \in Length
      BY <2>1, Geometry, Ext2Assumption DEF Length
    <2>3. handle' \in [Handles -> [ino : AllInodes, pos : Length, size : Length]]
      BY <1>1, <1>3, <2>2 DEF Seek, RestTypes
    <2> QED BY <1>1, <1>3, <2>3 DEF Seek, RestTypes, diskVars, names, history
  <1>4. ASSUME NEW h \in Handles, Close(h) PROVE RestTypes'
    <2>1. handle' \in [Handles -> [ino : AllInodes, pos : Length, size : Length]]
      BY <1>1, <1>4, Records DEF Close, RestTypes, Closed
    <2> QED BY <1>1, <1>4, <2>1 DEF Close, RestTypes, names, history
  <1>5. CASE Crash
    <2>1. handle' \in [Handles -> [ino : AllInodes, pos : Length, size : Length]]
      BY <1>5, Records DEF Crash, Closed
    <2> QED BY <1>1, <1>5, <2>1 DEF Crash, RestTypes, diskVars, names, history
  <1>6. CASE WriteWords
    <2>1. call.src \in Seq(Values) /\ call.off \in Nat /\ call.off % Words \in Entries
      BY <1>1, Quotient DEF CallTypes, Length
    <2>2. Count \in Int /\ Count <= Len(call.src)
      <3>1. First \in 0 .. Words - 1
        BY <2>1 DEF First, Entries
      <3>2. Len(call.src) \in Nat /\ Words \in Nat
        BY <2>1, Geometry
      <3> QED BY <3>1, <3>2 DEF Count
    <2>3. \A p \in call.off .. call.off + Count - 1 : call.src[p - call.off + 1] \in Values
      BY <2>1, <2>2
    <2>4. call.ino \in Inodes
      BY <1>1, <1>6 DEF WriteWords, CallInv, Running
    <2>5. \A p \in 0 .. MaxBlocks * Words - 1 : written[call.ino][p] \in Values \cup {Junk}
      BY <1>1, <2>4 DEF RestTypes
    <2>6. Noted \in [0 .. MaxBlocks * Words - 1 -> Values \cup {Junk}]
      BY <2>3, <2>5 DEF Noted
    <2>7. written' = [written EXCEPT ![call.ino] = Noted]
      BY <1>6 DEF WriteWords
    <2>8. written' \in [Inodes -> [0 .. MaxBlocks * Words - 1 -> Values \cup {Junk}]]
      BY <1>1, <2>6, <2>7 DEF RestTypes
    <2> QED BY <1>1, <1>6, <2>8 DEF WriteWords, RestTypes, names
  <1>7. CASE EnterName
    BY <1>1, <1>7 DEF EnterName, DirectoryWritten, RestTypes, history
  <1>8. CASE SaveInode
    <2>1. /\ call.op = "write" => call.off \in Length /\ cur.size \in Length
          /\ call.ino \in AllInodes /\ 0 \in Length /\ call.op \in {"create", "mkdir", "write"}
      BY <1>1, <1>8, Records DEF CallTypes, Inode, Length, CallInv, Running, SaveInode
    <2>2. handle' \in [Handles -> [ino : AllInodes, pos : Length, size : Length]]
      BY <1>1, <1>8, <2>1 DEF SaveInode, RestTypes
    <2>3. created' \subseteq Names /\ shared' \subseteq Handles
      BY <1>1, <1>8 DEF SaveInode, RestTypes, CallInv, Growing, Running
    <2>4. UNCHANGED <<listing, roomy, written>>
      BY <1>8 DEF SaveInode, names
    <2> QED BY <1>1, <2>2, <2>3, <2>4 DEF RestTypes
  <1>9. UNCHANGED <<listing, roomy, handle, written, created, shared>> => RestTypes'
    BY <1>1 DEF RestTypes
  <1> QED
    BY <1>2, <1>3, <1>4, <1>5, <1>6, <1>7, <1>8, <1>9
    DEF Next, Allocate, Link, Scan, Store, LookupHangs, Mkdir, Create, TakeInode, BeginWrite,
        TakeDirBlock, NoDirBlock, TakeBlock, NoBlock, GiveUp, LinkDirect, TakeTable, ZeroTable,
        WriteIndex, LinkInTable, LinkFails, ScanDuplicate, ScanFindsRoom, ScanHangs,
        WriteRecord, WriteDots, NextBlock, ClearBlock, diskVars, names, history

(* The links of the inode that the running call changes.                   *)
LEMMA TargetLinks ==
  ASSUME DiskInv, Running
  PROVE  /\ Target \in AllInodes /\ Target \in inodeUsed
         /\ \A s \in Slots : Links[Target][s] = IF Unzeroed /\ s = TableSlot THEN 0 ELSE cur.slot[s]
  <1>1. Target \in AllInodes /\ Target \in inodeUsed
    BY DEF DiskInv, CallInv, RootInv, Target, AllInodes
  <1>2. Links[Target] = Working
    BY <1>1 DEF Links
  <1> QED BY <1>1, <1>2 DEF Working

(* What a slot, or an entry of a table, leads to is a marked block.        *)
LEMMA MarkedSlot ==
  ASSUME DiskInv, NEW i \in inodeUsed, NEW s \in Slots, Links[i][s] # 0
  PROVE  Links[i][s] \in blockUsed /\ Links[i][s] \in Blocks
  BY DEF DiskInv, TypeOK, StructureInv, Sound, SlotsMarked

LEMMA MarkedEntry ==
  ASSUME DiskInv, NEW t \in Blocks, IsTable(Links, disk, inodeUsed, t), NEW k \in Entries,
         disk[t][k] # 0
  PROVE  disk[t][k] \in blockUsed /\ disk[t][k] \in Blocks
  BY DEF DiskInv, TypeOK, StructureInv, Sound, EntriesMarked

(* The tables on the way to the block at At, and what they lead to.        *)
LEMMA SingleTable ==
  ASSUME DiskInv, Running, ~Unzeroed, cur.slot[Single] # 0
  PROVE  /\ cur.slot[Single] \in Blocks
         /\ IsTable(Links, disk, inodeUsed, cur.slot[Single])
         /\ ~DoubleTable(Links, inodeUsed, cur.slot[Single])
  <1>1. /\ Target \in inodeUsed /\ Single \in Slots
        /\ Links[Target][Single] = cur.slot[Single]
    BY TargetLinks, Geometry
  <1>2. ~DoubleTable(Links, inodeUsed, cur.slot[Single])
    BY <1>1, SingleIsNotDouble DEF DiskInv, StructureInv
  <1> QED BY <1>1, <1>2, MarkedSlot DEF IsTable

(* ... the double table, as soon as it is linked, ...                      *)
LEMMA UpperTable ==
  ASSUME DiskInv, Running, cur.slot[Double] # 0, Unzeroed => TableSlot # Double
  PROVE  /\ cur.slot[Double] \in Blocks
         /\ IsTable(Links, disk, inodeUsed, cur.slot[Double])
         /\ DoubleTable(Links, inodeUsed, cur.slot[Double])
  <1>1. /\ Target \in inodeUsed /\ Double \in Slots
        /\ Links[Target][Double] = cur.slot[Double]
    BY TargetLinks, Geometry
  <1> QED BY <1>1, MarkedSlot DEF IsTable, DoubleTable

(* ... and the tables that the double table's entries lead to.             *)
LEMMA LowerTable ==
  ASSUME DiskInv, NEW d \in Blocks, DoubleTable(Links, inodeUsed, d), NEW k \in Entries,
         disk[d][k] # 0
  PROVE  /\ disk[d][k] \in Blocks
         /\ IsTable(Links, disk, inodeUsed, disk[d][k])
         /\ ~DoubleTable(Links, inodeUsed, disk[d][k])
  <1>1. IsTable(Links, disk, inodeUsed, d)
    BY DEF IsTable, DoubleTable
  <1>2. ~DoubleTable(Links, inodeUsed, disk[d][k])
    BY LowerIsNotDouble DEF DiskInv, StructureInv
  <1> QED BY <1>1, <1>2, MarkedEntry DEF IsTable

(* The block that ext2_write finds is one of data.                         *)
LEMMA BlockFound ==
  ASSUME DiskInv, pc = "next", BlockAt(cur, At) # 0
  PROVE  /\ At < MaxBlocks /\ BlockAt(cur, At) \in Blocks
         /\ ~IsTable(Links, disk, inodeUsed, BlockAt(cur, At))
  <1>1. call.off \in Nat /\ At \in Nat
    BY Quotient, Geometry DEF DiskInv, TypeOK, At
  <1>2. Running /\ ~Unzeroed
    BY DEF Running, Unzeroed
  <1>3. Sound(Links, disk, inodeUsed, blockUsed)
    BY DEF DiskInv, StructureInv
  <1>4. CASE At < Direct
    <2>1. BlockAt(cur, At) = cur.slot[At] /\ At \in Slots /\ At \in 0 .. Direct - 1
      BY <1>1, <1>4, Place, Geometry DEF BlockAt
    <2>2. Links[Target][At] = cur.slot[At] /\ Target \in inodeUsed
      BY <1>2, <2>1, TargetLinks
    <2> QED BY <1>3, <1>4, <2>1, <2>2, DirectIsData, MarkedSlot, Geometry, <1>1
  <1>5. CASE Direct <= At /\ At < Direct + Words
    <2>1. At - Direct \in Entries
      BY <1>1, <1>5, Place
    <2>2. cur.slot[Single] # 0 /\ BlockAt(cur, At) = disk[cur.slot[Single]][At - Direct]
      BY <1>1, <1>5, Geometry DEF BlockAt
    <2>3. At < MaxBlocks
      BY <1>1, <1>5, Geometry
    <2>4. /\ cur.slot[Single] \in Blocks
          /\ IsTable(Links, disk, inodeUsed, cur.slot[Single])
          /\ ~DoubleTable(Links, inodeUsed, cur.slot[Single])
      BY <1>2, <2>2, SingleTable
    <2>5. ~IsTable(Links, disk, inodeUsed, disk[cur.slot[Single]][At - Direct])
      BY <1>3, <2>1, <2>4, EntryIsData
    <2> QED BY <2>1, <2>2, <2>3, <2>4, <2>5, MarkedEntry
  <1>6. CASE Direct + Words <= At
    <2> DEFINE k == At - Direct - Words
    <2>1. /\ At < MaxBlocks /\ cur.slot[Double] # 0
          /\ BlockAt(cur, At) = disk[disk[cur.slot[Double]][k \div Words]][k % Words]
      BY <1>1, <1>6, Geometry DEF BlockAt
    <2>2. k \div Words \in Entries /\ k % Words \in Entries
      BY <1>1, <1>6, <2>1, Place DEF IndexAt
    <2> HIDE DEF k
    <2>3. cur.slot[Double] \in Blocks /\ DoubleTable(Links, inodeUsed, cur.slot[Double])
      BY <1>2, <2>1, UpperTable
    <2>4. disk[cur.slot[Double]][k \div Words] # 0
      BY <2>1, <2>2 DEF DiskInv, UnusedInv
    <2> DEFINE t == disk[cur.slot[Double]][k \div Words]
    <2>5. /\ t \in Blocks /\ IsTable(Links, disk, inodeUsed, t)
          /\ ~DoubleTable(Links, inodeUsed, t)
      BY <2>2, <2>3, <2>4, LowerTable
    <2>6. BlockAt(cur, At) = disk[t][k % Words]
      BY <2>1
    <2> HIDE DEF t
    <2>7. ~IsTable(Links, disk, inodeUsed, disk[t][k % Words])
      BY <1>3, <2>2, <2>5, EntryIsData
    <2> QED BY <2>1, <2>2, <2>5, <2>6, <2>7, MarkedEntry
  <1> QED BY <1>1, <1>4, <1>5, <1>6, Geometry

(* The words that go in one block end within the file's largest size.      *)
LEMMA WithinBlock ==
  ASSUME DiskInv, pc = "data"
  PROVE  /\ Count \in Int /\ Count <= Len(call.src)
         /\ call.off + Count \in Length
         /\ Count >= 0 /\ SubSeq(call.src, Count + 1, Len(call.src)) \in Seq(Values)
         /\ \A w \in First .. First + Count - 1 : call.src[w - First + 1] \in Values
  <1>1. /\ call.off \in Nat /\ call.src \in Seq(Values) /\ Len(call.src) \in Nat
        /\ At \in Nat /\ At < MaxBlocks
    BY Quotient, Geometry DEF DiskInv, TypeOK, BoundInv, At
  <1>2. First \in 0 .. Words - 1 /\ call.off = Words * At + First
    BY <1>1, Quotient DEF First, At, Entries
  <1>3. Count \in Nat /\ Count <= Len(call.src) /\ Count <= Words - First
    BY <1>1, <1>2, Geometry DEF Count
  <1>4. \A w \in Nat, a \in Nat, m \in Nat : a < m => w * a + w <= m * w /\ w * a \in Nat
    <2> SUFFICES ASSUME NEW w \in Nat, NEW a \in Nat, NEW m \in Nat, a < m
                 PROVE  w * a + w <= m * w /\ w * a \in Nat
      OBVIOUS
    <2>1. PICK d \in Nat : m = a + 1 + d
      <3>1. m - a - 1 \in Nat /\ m = a + 1 + (m - a - 1)
        OBVIOUS
      <3> QED BY <3>1
    <2>2. m * w = w * a + w + d * w /\ d * w \in Nat /\ w * a \in Nat
      BY <2>1, Z3
    <2> QED BY <2>2
  <1>5. Words * At + Words <= MaxBlocks * Words /\ Words * At \in Nat
    BY <1>1, <1>4, Geometry
  <1>6. call.off + Count \in Length
    BY <1>1, <1>2, <1>3, <1>5, Geometry DEF Length
  <1>7. SubSeq(call.src, Count + 1, Len(call.src)) \in Seq(Values)
    BY <1>1, <1>3
  <1>8. \A w \in First .. First + Count - 1 : call.src[w - First + 1] \in Values
    BY <1>1, <1>2, <1>3
  <1> QED BY <1>3, <1>6, <1>7, <1>8

(* The bitmaps, the inodes and the blocks keep their types.                *)
LEMMA DiskSteps ==
  ASSUME DiskInv, Next
  PROVE  DiskTypes'
  <1> USE DEF AllInodes
  <1>1. CallTypes /\ DiskTypes /\ RestTypes
    BY TypeParts DEF DiskInv
  <1>2. ASSUME NEW op, NEW h, NEW n, TakeInode(op, h, n) PROVE DiskTypes'
    BY <1>1, <1>2, FreshInode DEF TakeInode, DiskTypes
  <1>3. CASE TakeDirBlock \/ TakeBlock \/ TakeTable
    BY <1>1, <1>3, FreshBlock DEF TakeDirBlock, TakeBlock, TakeTable, DiskTypes
  <1>4. CASE NoDirBlock \/ NoBlock \/ LinkFails \/ ScanDuplicate
    BY <1>1, <1>4 DEF NoDirBlock, NoBlock, LinkFails, ScanDuplicate, GiveUp, DiskTypes
  <1>5. CASE WriteRecord
    <2>1. (IF call.op = "create" THEN EmptyInode ELSE DirInode(blk)) \in Inode
      BY <1>1, Records DEF CallTypes
    <2> QED BY <1>1, <1>5, <2>1 DEF WriteRecord, DiskTypes
  <1>6. CASE SaveInode
    BY <1>1, <1>6 DEF SaveInode, DiskTypes, CallTypes
  <1>7. ASSUME NEW h \in Handles, Close(h) PROVE DiskTypes'
    <2>1. handle[h].size \in Length /\ inode[handle[h].ino] \in Inode
      BY <1>1 DEF DiskTypes, RestTypes
    <2>2. [inode[handle[h].ino] EXCEPT !.size = handle[h].size] \in Inode
      BY <2>1, SizeSet
    <2> QED BY <1>1, <1>7, <2>2 DEF Close, DiskTypes
  <1>8. Zeros \in Block
    BY Records DEF Zeros, Block, Word
  <1>9. CASE WriteDots \/ ClearBlock \/ ZeroTable
    BY <1>1, <1>8, <1>9 DEF WriteDots, ClearBlock, ZeroTable, DiskTypes
  <1>10. CASE WriteIndex \/ LinkInTable
    <2>1. ASSUME NEW b, NEW k, NEW x \in Word
          PROVE  [disk EXCEPT ![b][k] = x] \in [0 .. NBlocks -> Block]
      BY <1>1 DEF DiskTypes, Block
    <2>2. blk \in Word /\ tab \in Word
      BY <1>1 DEF CallTypes, Word
    <2>3. PICK b, k, x : x \in Word /\ disk' = [disk EXCEPT ![b][k] = x]
      <3>1. CASE WriteIndex
        BY <2>2, <3>1 DEF WriteIndex
      <3>2. CASE LinkInTable
        <4>1. CASE TableSlot = Single
          BY <2>2, <3>2, <4>1 DEF LinkInTable
        <4>2. CASE TableSlot # Single
          BY <2>2, <3>2, <4>2 DEF LinkInTable
        <4> QED BY <4>1, <4>2
      <3> QED BY <1>10, <3>1, <3>2
    <2>4. disk' \in [0 .. NBlocks -> Block]
      BY <2>1, <2>3
    <2> QED BY <1>1, <1>10, <2>4 DEF WriteIndex, LinkInTable, DiskTypes
  <1>11. CASE WriteWords
    <2>1. \A w \in First .. First + Count - 1 : call.src[w - First + 1] \in Word
      BY <1>11, WithinBlock DEF WriteWords, Word
    <2>2. ASSUME blk \in 0 .. NBlocks
          PROVE  [w \in 0 .. Words - 1 |-> IF w \in First .. First + Count - 1
                    THEN call.src[w - First + 1] ELSE disk[blk][w]] \in Block
      BY <1>1, <2>1, <2>2 DEF DiskTypes, Block
    <2>3. blk \in 0 .. NBlocks
      BY <1>1 DEF CallTypes
    <2> QED BY <1>1, <1>11, <2>2, <2>3 DEF WriteWords, DiskTypes
  <1>12. UNCHANGED <<blockUsed, inodeUsed, inode, disk>> => DiskTypes'
    BY <1>1 DEF DiskTypes
  <1> QED
    BY <1>2, <1>3, <1>4, <1>5, <1>6, <1>7, <1>9, <1>10, <1>11, <1>12
    DEF Next, Allocate, Link, Scan, Store, LookupHangs, Mkdir, Create, BeginWrite, Open, Seek,
        LinkDirect, ScanFindsRoom, ScanHangs, NextBlock, EnterName, Crash, diskVars

CallRecords == [op : {"none", "create", "mkdir", "write"}, ino : AllInodes,
                h : Handles \cup {Nil}, name : Names \cup {Nil}, off : Length,
                src : Seq(Values)]

(* The local variables of the call keep their types.                       *)
LEMMA CallSteps ==
  ASSUME DiskInv, Next
  PROVE  CallTypes'
  <1>1. CallTypes /\ DiskTypes /\ RestTypes
    BY TypeParts DEF DiskInv
  <1>2. inode[Root] \in Inode /\ inode[Root].size \in Length
    BY <1>1 DEF DiskTypes, AllInodes, Inode, Length
  <1>3. ASSUME NEW op \in {"create", "mkdir"}, NEW h \in Handles \cup {Nil}, NEW n \in Names,
               TakeInode(op, h, n), pc' \in {"record", "dirblock"}
        PROVE  CallTypes'
    <2>1. Lowest(FreeInodes) \in Inodes
      BY <1>3, FreshInode DEF TakeInode
    <2>2. call' \in CallRecords
      BY <1>2, <1>3, <2>1, Records DEF TakeInode, CallRecords, AllInodes
    <2> QED BY <1>1, <1>2, <1>3, <2>2 DEF TakeInode, CallTypes, CallRecords
  <1>4. ASSUME NEW h \in Handles, NEW n \in Names, Create(h, n) PROVE CallTypes'
    BY <1>3, <1>4 DEF Create
  <1>5. ASSUME NEW n \in Names, Mkdir(n) PROVE CallTypes'
    BY <1>3, <1>5 DEF Mkdir
  <1>6. ASSUME NEW h \in Handles, NEW src \in Sources, BeginWrite(h, src) PROVE CallTypes'
    <2>1. handle[h].ino \in AllInodes /\ handle[h].pos \in Length /\ src \in Seq(Values)
      BY <1>1, SourceTypes DEF RestTypes
    <2>2. call' \in CallRecords
      BY <1>6, <2>1, Records DEF BeginWrite, CallRecords
    <2>3. cur' \in Inode
      BY <1>1, <1>6, <2>1 DEF BeginWrite, DiskTypes
    <2> QED BY <1>1, <1>6, <2>2, <2>3 DEF BeginWrite, CallTypes, CallRecords
  <1>7. CASE TakeDirBlock \/ TakeBlock
    BY <1>1, <1>7, FreshBlock, Records DEF TakeDirBlock, TakeBlock, CallTypes
  <1>8. CASE NoDirBlock \/ NoBlock \/ LinkFails \/ ScanDuplicate \/ SaveInode \/ Crash
    BY <1>8, CallEnds
    DEF NoDirBlock, NoBlock, LinkFails, ScanDuplicate, GiveUp, SaveInode, Crash
  <1>9. CASE LinkDirect
    <2>1. At \in Slots
      <3>1. call.off \in Nat
        BY <1>1, Geometry DEF CallTypes, Length
      <3> QED BY <1>9, <3>1, Place DEF LinkDirect
    <2>2. [cur EXCEPT !.slot[At] = blk] \in Inode
      BY <1>1, <2>1, SlotSet DEF CallTypes
    <2> QED BY <1>1, <1>9, <2>2 DEF LinkDirect, CallTypes, Linked
  <1>10. CASE TakeTable
    <2>1. tab' \in 0 .. NBlocks
      BY <1>10, FreshBlock, Records DEF TakeTable
    <2>2. TableSlot \in Slots
      BY Geometry DEF TableSlot
    <2>3. [cur EXCEPT !.slot[TableSlot] = tab'] \in Inode
      BY <1>1, <2>1, <2>2, SlotSet DEF CallTypes
    <2> QED BY <1>1, <1>10, <2>1, <2>3 DEF TakeTable, CallTypes
  <1>11. CASE NextBlock
    <2>1. blk' \in 0 .. NBlocks
      BY <1>11, BlockFound, Records DEF NextBlock
    <2> QED BY <1>1, <1>11, <2>1 DEF NextBlock, CallTypes
  <1>12. CASE WriteWords
    <2>1. /\ call.off + Count \in Length
          /\ SubSeq(call.src, Count + 1, Len(call.src)) \in Seq(Values)
      BY <1>12, WithinBlock DEF WriteWords
    <2>2. call' \in CallRecords
      <3>1. call \in CallRecords
        BY <1>1 DEF CallTypes, CallRecords
      <3>2. call' = [call EXCEPT !.off = call.off + Count,
                                 !.src = SubSeq(call.src, Count + 1, Len(call.src))]
        BY <1>12, <3>1 DEF WriteWords, CallRecords
      <3> QED BY <2>1, <3>1, <3>2 DEF CallRecords
    <2>3. cur' \in Inode
      <3>1. cur' = cur \/ cur' = [cur EXCEPT !.size = call.off + Count]
        BY <1>12 DEF WriteWords
      <3> QED BY <1>1, <2>1, <3>1, SizeSet DEF CallTypes
    <2> QED BY <1>1, <1>12, <2>2, <2>3, Records DEF WriteWords, CallTypes, CallRecords
  <1>13. CASE EnterName
    <2>1. ASSUME ~roomy PROVE call.off + 1 \in Length
      <3>1. call.off \in Nat /\ At < MaxBlocks
        BY <1>1, <1>13, <2>1, Geometry DEF CallTypes, Length, EnterName, DiskInv, BoundInv
      <3>2. \A m \in Nat : call.off < m * Words <=> At < m
        BY <3>1, Quotient DEF At
      <3>3. call.off < MaxBlocks * Words
        BY <3>1, <3>2, Geometry
      <3> QED BY <3>1, <3>3, Geometry DEF Length
    <2>2. cur' \in Inode
      BY <1>1, <1>13, <2>1, SizeSet DEF EnterName, CallTypes
    <2> QED BY <1>1, <1>13, <2>2 DEF EnterName, CallTypes
  <1>14. CASE LinkInTable \/ ZeroTable \/ WriteIndex \/ WriteRecord \/ WriteDots \/ ClearBlock
    BY <1>1, <1>14, Records
    DEF LinkInTable, Linked, ZeroTable, WriteIndex, WriteRecord, WriteDots, ClearBlock, CallTypes
  <1>15. pc' \in {pc, "hung", "enter"} /\ UNCHANGED <<call, cur, blk, tab>> => CallTypes'
    BY <1>1 DEF CallTypes
  <1> QED
    BY <1>4, <1>5, <1>6, <1>7, <1>8, <1>9, <1>10, <1>11, <1>12, <1>13, <1>14, <1>15
    DEF Next, Allocate, Link, Scan, Store, LookupHangs, Open, Seek, Close, ScanFindsRoom,
        ScanHangs

LEMMA TypesKept ==
  ASSUME DiskInv, Next
  PROVE  TypeOK'
  BY HandleTypes, DiskSteps, CallSteps, TypePartsNext

-----------------------------------------------------------------------------
(* Calls and handles                                                       *)

LEMMA RootApart == Root \notin Inodes /\ AllInodes = {Root} \cup Inodes /\ Closed.ino = Root
  BY DEF Root, Inodes, AllInodes, Closed

(* What a call works on exists as long as it runs, and is nobody else's.   *)
LEMMA CallKept ==
  ASSUME DiskInv, Next
  PROVE  CallInv'
  <1>1. TypeOK /\ CallInv /\ HandleInv /\ UnusedInv /\ RootInv
    BY DEF DiskInv
  <1>2. inode \in [AllInodes -> Inode] /\ handle \in [Handles -> [ino : AllInodes, pos : Length, size : Length]]
    BY <1>1 DEF TypeOK, Length, AllInodes
  <1>3. pc' \in {"idle", "hung"} => CallInv'
    BY DEF CallInv, Running, Growing
  <1>4. ASSUME NEW op \in {"create", "mkdir"}, NEW h \in Handles \cup {Nil}, NEW n \in Names,
               TakeInode(op, h, n),
               pc' = IF op = "create" THEN "record" ELSE "dirblock",
               op = "create" => h \in Handles /\ handle[h] = Closed
        PROVE  CallInv'
    <2> DEFINE i == Lowest(FreeInodes)
    <2>1. i \in Inodes /\ i \notin inodeUsed
      BY <1>4, FreshInode DEF TakeInode
    <2> HIDE DEF i
    <2>2. /\ call'.op = op /\ call'.ino = i /\ call'.h = h /\ call'.name = n
          /\ inodeUsed' = inodeUsed \cup {i} /\ inode' = inode /\ handle' = handle
      BY <1>4 DEF TakeInode, NoCall, i
    <2>3. \A s \in Slots : inode'[i].slot[s] = 0
      BY <1>1, <2>1, <2>2 DEF UnusedInv, Empty
    <2>4. \A g \in Handles : handle'[g].ino # i
      BY <1>1, <2>1, <2>2, RootApart DEF HandleInv
    <2>5. \A m \in DOMAIN OnImage : OnImage[m] # i
      BY <1>1, <2>1 DEF HandleInv
    <2> QED BY <1>4, <2>1, <2>2, <2>3, <2>4, <2>5 DEF CallInv, Running, Growing, Empty
  <1>5. ASSUME NEW h \in Handles, NEW n \in Names, Create(h, n) PROVE CallInv'
    <2>1. TakeInode("create", h, n) /\ pc' = "record" /\ handle[h] = Closed
      BY <1>5 DEF Create
    <2>2. h \in Handles \cup {Nil} /\ "create" \in {"create", "mkdir"}
      OBVIOUS
    <2> QED BY <1>4, <2>1, <2>2
  <1>6. ASSUME NEW n \in Names, Mkdir(n) PROVE CallInv'
    BY <1>4, <1>6 DEF Mkdir
  <1>7. ASSUME NEW h \in Handles, NEW src \in Sources, BeginWrite(h, src) PROVE CallInv'
    <2>1. /\ call'.op = "write" /\ call'.ino = handle[h].ino /\ call'.h = h
          /\ inodeUsed' = inodeUsed /\ handle' = handle /\ pc' = "next"
      BY <1>7 DEF BeginWrite, NoCall, diskVars
    <2>2. handle[h].ino \in Inodes /\ handle[h].ino \in inodeUsed
      BY <1>1, <1>7 DEF BeginWrite, HandleInv
    <2> QED BY <2>1, <2>2 DEF CallInv, Running, Growing
  <1>8. CASE WriteRecord
    <2>1. inode'[call.ino] = IF call.op = "create" THEN EmptyInode ELSE DirInode(blk)
      BY <1>1, <1>2, <1>8, RootApart DEF WriteRecord, CallInv, Running
    <2>2. EmptyInode.size = 0 /\ \A s \in Slots : EmptyInode.slot[s] = 0
      BY DEF EmptyInode, Slots
    <2> QED BY <1>1, <1>8, <2>1, <2>2 DEF WriteRecord, CallInv, Running, Growing, Empty
  <1>9. ASSUME inodeUsed' = inodeUsed, inode' = inode, handle' = handle,
               call'.op = call.op, call'.ino = call.ino, call'.h = call.h, call'.name = call.name,
               \/ pc' = pc
               \/ pc = "dirblock" /\ pc' = "record"
               \/ pc = "dots" /\ pc' = "scan"
               \/ pc = "clear" /\ pc' = "enter"
               \/ pc = "scan" /\ pc' \in {"enter", "link"}
               \/ pc = "next" /\ pc' \in {"link", "data", "save"}
               \/ pc = "link" /\ pc' = "data" /\ call.op = "write"
               \/ pc = "link" /\ pc' = "clear" /\ call.op # "write"
               \/ pc = "link" /\ pc' = "zero"
               \/ pc = "zero" /\ pc' \in {"link", "index"}
               \/ pc = "index" /\ pc' = "link"
               \/ pc = "data" /\ pc' = "next"
               \/ pc = "enter" /\ pc' = "save"
        PROVE  CallInv'
    BY <1>1, <1>9 DEF CallInv, Running, Growing, Empty
  <1>10. CASE WriteWords
    <2>1. call'.op = call.op /\ call'.ino = call.ino /\ call'.h = call.h /\ call'.name = call.name
      BY <1>1, <1>10 DEF WriteWords, TypeOK
    <2> QED BY <1>9, <1>10, <2>1 DEF WriteWords
  <1>11. CASE TakeDirBlock \/ TakeBlock \/ NextBlock \/ LinkDirect \/ LinkInTable
    BY <1>9, <1>11
    DEF TakeDirBlock, TakeBlock, NeedsBlock, ScanNeedsBlock, NextBlock, LinkDirect, LinkInTable,
        Linked, diskVars
  <1>12. CASE TakeTable \/ ZeroTable \/ WriteIndex \/ WriteDots \/ ClearBlock \/ EnterName
              \/ ScanFindsRoom
    BY <1>9, <1>12
    DEF TakeTable, ZeroTable, WriteIndex, WriteDots, ClearBlock, EnterName, ScanFindsRoom, diskVars
  <1> QED
    BY <1>3, <1>5, <1>6, <1>7, <1>8, <1>10, <1>11, <1>12
    DEF Next, Allocate, Link, Scan, Store, LookupHangs, Open, Seek, Close, Crash, NoDirBlock,
        NoBlock, LinkFails, ScanDuplicate, GiveUp, EndCall, SaveInode, ScanHangs

(* An open file is in use: only the inode of a call under way is given     *)
(* back, and no handle has that one.                                       *)
LEMMA HandlesKept ==
  ASSUME DiskInv, Next
  PROVE  HandleInv'
  <1>1. TypeOK /\ CallInv /\ HandleInv
    BY DEF DiskInv
  <1>2. handle \in [Handles -> [ino : AllInodes, pos : Length, size : Length]]
    BY <1>1 DEF TypeOK, Length, AllInodes
  <1>3. listing' = listing \/ EnterName
    BY DEF Next, Allocate, Link, Scan, Store, LookupHangs, Open, Create, Mkdir, TakeInode,
           BeginWrite, Seek, Close, Crash, TakeDirBlock, NoDirBlock, TakeBlock, NoBlock, GiveUp,
           LinkDirect, TakeTable, ZeroTable, WriteIndex, LinkInTable, LinkFails, ScanDuplicate,
           ScanFindsRoom, ScanHangs, WriteRecord, WriteDots, NextBlock, WriteWords, ClearBlock,
           SaveInode, diskVars, names, history
  <1>4. listing' = OnImage
    BY <1>1, <1>3 DEF HandleInv, EnterName, DirectoryWritten
  <1>5. \/ inodeUsed \subseteq inodeUsed'
        \/ Growing /\ inodeUsed' = inodeUsed \ {call.ino} /\ handle' = handle
    <2>1. CASE NoDirBlock
      BY <1>1, <2>1 DEF NoDirBlock, EndCall, CallInv, Running, Growing
    <2>2. CASE ScanDuplicate \/ NoBlock \/ LinkFails
      BY <1>1, <2>2
      DEF ScanDuplicate, NoBlock, NeedsBlock, ScanNeedsBlock, LinkFails, GiveUp, CallInv, Running, Growing
    <2>3. NoDirBlock \/ ScanDuplicate \/ NoBlock \/ LinkFails \/ inodeUsed \subseteq inodeUsed'
      BY DEF Next, Allocate, Link, Scan, Store, LookupHangs, Open, Create, Mkdir, TakeInode,
             BeginWrite, Seek, Close, Crash, TakeDirBlock, TakeBlock, LinkDirect, TakeTable,
             ZeroTable, WriteIndex, LinkInTable, ScanFindsRoom, ScanHangs, WriteRecord,
             WriteDots, NextBlock, WriteWords, ClearBlock, EnterName, SaveInode, diskVars
    <2> QED BY <2>1, <2>2, <2>3
  <1>6. ASSUME NEW g \in Handles, handle'[g] # Closed
        PROVE  \/ handle'[g].ino = handle[g].ino /\ handle[g] # Closed
               \/ handle'[g].ino \in Inodes /\ handle'[g].ino \in inodeUsed /\ inodeUsed' = inodeUsed
    <2>1. ASSUME NEW h \in Handles, NEW n \in Names, Open(h, n)
          PROVE  \/ handle'[g].ino = handle[g].ino /\ handle[g] # Closed
                 \/ handle'[g].ino \in Inodes /\ handle'[g].ino \in inodeUsed /\ inodeUsed' = inodeUsed
      <3>1. listing[n] \in Inodes /\ listing[n] \in inodeUsed
        BY <1>1, <2>1 DEF Open, HandleInv, TypeOK
      <3> QED BY <1>2, <1>6, <2>1, <3>1 DEF Open, diskVars
    <2>2. ASSUME NEW h \in Handles, NEW p \in Offsets, Seek(h, p)
          PROVE  handle'[g].ino = handle[g].ino /\ handle[g] # Closed
      BY <1>2, <1>6, <2>2 DEF Seek
    <2>3. ASSUME NEW h \in Handles, Close(h)
          PROVE  handle'[g].ino = handle[g].ino /\ handle[g] # Closed
      BY <1>2, <1>6, <2>3 DEF Close
    <2>4. CASE Crash
      BY <1>6, <2>4 DEF Crash
    <2>5. CASE SaveInode
      <3>1. CASE call.op = "write" /\ g = call.h
        <4>1. handle'[g].ino = call.ino /\ call.ino \in Inodes /\ call.ino \in inodeUsed
          BY <1>1, <1>2, <2>5, <3>1 DEF SaveInode, CallInv, Running
        <4> QED BY <2>5, <4>1 DEF SaveInode
      <3>2. CASE call.op = "create" /\ g = call.h
        <4>1. handle'[g].ino = call.ino /\ call.ino \in Inodes /\ call.ino \in inodeUsed
          BY <1>1, <1>2, <2>5, <3>2 DEF SaveInode, CallInv, Running
        <4> QED BY <2>5, <4>1 DEF SaveInode
      <3>3. CASE call.op = "mkdir" \/ g # call.h
        <4>1. call.op \in {"create", "mkdir", "write"}
          BY <1>1, <2>5 DEF SaveInode, CallInv, Running
        <4>2. handle'[g] = handle[g]
          BY <1>2, <2>5, <3>3, <4>1 DEF SaveInode
        <4> QED BY <1>6, <4>2
      <3> QED BY <1>1, <2>5, <3>1, <3>2, <3>3 DEF SaveInode, CallInv, Running
    <2>6. handle' = handle => handle'[g].ino = handle[g].ino /\ handle[g] # Closed
      BY <1>6
    <2> QED
      BY <2>1, <2>2, <2>3, <2>4, <2>5, <2>6
      DEF Next, Allocate, Link, Scan, Store, LookupHangs, Create, Mkdir, TakeInode, BeginWrite,
          TakeDirBlock, NoDirBlock, TakeBlock, NoBlock, GiveUp, LinkDirect, TakeTable, ZeroTable,
          WriteIndex, LinkInTable, LinkFails, ScanDuplicate, ScanFindsRoom, ScanHangs, WriteRecord,
          WriteDots, NextBlock, WriteWords, ClearBlock, EnterName
  <1>7. \A n \in DOMAIN OnImage : OnImage[n] \in inodeUsed'
    BY <1>1, <1>5 DEF HandleInv, CallInv
  <1>8. ASSUME NEW g \in Handles, handle'[g] # Closed
        PROVE  handle'[g].ino \in Inodes /\ handle'[g].ino \in inodeUsed'
    <2>1. CASE inodeUsed \subseteq inodeUsed'
      BY <1>1, <1>6, <1>8, <2>1 DEF HandleInv
    <2>2. CASE Growing /\ inodeUsed' = inodeUsed \ {call.ino} /\ handle' = handle
      BY <1>1, <1>8, <2>2 DEF HandleInv, CallInv
    <2> QED BY <1>5, <2>1, <2>2
  <1> QED BY <1>4, <1>7, <1>8 DEF HandleInv

(* What has been linked lies within the largest file.                      *)
LEMMA BoundsKept ==
  ASSUME DiskInv, Next
  PROVE  BoundInv'
  <1>1. call.off \in Nat /\ At \in Nat
    <2>1. call.off \in Nat
      BY Geometry DEF DiskInv, TypeOK
    <2> QED BY <2>1, Place
  <1>2. CASE NextBlock
    <2>1. pc' = "data" => At < MaxBlocks
      BY <1>2, BlockFound DEF NextBlock
    <2>2. call' = call /\ pc' \in {"save", "data"}
      BY <1>2 DEF NextBlock
    <2> QED BY <2>1, <2>2 DEF BoundInv, At
  <1>3. CASE LinkDirect \/ LinkInTable
    <2>1. At < MaxBlocks /\ call' = call /\ pc' \in {"data", "clear"}
      BY <1>1, <1>3, Geometry DEF LinkDirect, LinkInTable, Linked
    <2> QED BY <2>1 DEF BoundInv, At
  <1>4. CASE ClearBlock
    <2>1. At < MaxBlocks /\ call' = call
      BY <1>4 DEF ClearBlock, DiskInv, BoundInv
    <2> QED BY <2>1 DEF BoundInv, At
  <1>5. pc' \notin {"data", "clear", "enter"} \/ (pc' = "enter" /\ roomy') => BoundInv'
    BY DEF BoundInv
  <1>6. UNCHANGED <<pc, call, roomy>> => BoundInv'
    BY DEF DiskInv, BoundInv, At
  <1>7. CASE Allocate \/ Link \/ Scan
    BY <1>3, <1>5, <1>7
    DEF Allocate, Link, Scan, TakeDirBlock, NoDirBlock, TakeBlock, NoBlock, GiveUp, EndCall,
        TakeTable, ZeroTable, WriteIndex, LinkFails, ScanDuplicate, ScanFindsRoom, ScanHangs,
        diskVars, names
  <1>8. CASE Store
    BY <1>2, <1>4, <1>5, <1>8
    DEF Store, WriteRecord, WriteDots, WriteWords, EnterName, SaveInode, EndCall
  <1> QED
    BY <1>5, <1>6, <1>7, <1>8
    DEF Next, LookupHangs, Open, Create, Mkdir, BeginWrite, Seek, Close, Crash, EndCall,
        diskVars, names

(* The new entry of a grown directory leaves a size that ends inside a     *)
(* block.                                                                  *)
LEMMA SizeBecomesOdd ==
  ASSUME NEW n \in Nat, n % Words = 0
  PROVE  (n + 1) % Words # 0
  <1>1. \A w \in Nat \ {0}, x \in Nat : w >= 2 /\ x % w = 0 => (x + 1) % w # 0
    <2> SUFFICES ASSUME NEW w \in Nat \ {0}, NEW x \in Nat, w >= 2, x % w = 0, (x + 1) % w = 0
                 PROVE  FALSE
      OBVIOUS
    <2>1. x = w * (x \div w) + (x % w) /\ x \div w \in Int
      BY Z3
    <2>2. x + 1 = w * ((x + 1) \div w) + ((x + 1) % w) /\ (x + 1) \div w \in Int
      BY Z3
    <2>3. PICK p \in Int, q \in Int : x = w * p /\ x + 1 = w * q
      BY <2>1, <2>2
    <2>4. \A d \in Int : w * d # 1
      BY Z3
    <2>5. w * (q - p) = w * q - w * p /\ w * p \in Int /\ w * q \in Int
      BY Z3
    <2>6. w * (q - p) = 1
      BY <2>3, <2>5
    <2> QED BY <2>4, <2>6
  <1> QED BY <1>1, Geometry

(* The root's inode is the image's, or its size is no longer a multiple of *)
(* the block size and nothing grows it any more.                           *)
LEMMA RootKept ==
  ASSUME DiskInv, Next
  PROVE  RootInv'
  <1>1. TypeOK /\ CallInv /\ HandleInv /\ RootInv
    BY DEF DiskInv
  <1>2. inode \in [AllInodes -> Inode] /\ Root \in AllInodes /\ inode[Root].size \in Nat
    <2>1. inode \in [AllInodes -> Inode] /\ Root \in AllInodes
      BY <1>1 DEF TypeOK, AllInodes
    <2>2. inode[Root].size \in 0 .. MaxBlocks * Words
      BY <2>1 DEF Inode
    <2> QED BY <2>1, <2>2, Geometry
  <1>3. Root \in inodeUsed'
    BY <1>1, RootApart
    DEF RootInv, CallInv, Growing, Running, Next, Allocate, Link, Scan, Store, LookupHangs, Open,
        Create, Mkdir, TakeInode, BeginWrite, Seek, Close, Crash, TakeDirBlock, NoDirBlock,
        TakeBlock, NoBlock, NeedsBlock, ScanNeedsBlock, GiveUp, LinkDirect, TakeTable, ZeroTable,
        WriteIndex, LinkInTable, LinkFails, ScanDuplicate, ScanFindsRoom, ScanHangs, WriteRecord,
        WriteDots, NextBlock, WriteWords, ClearBlock, EnterName, SaveInode, diskVars
  <1>4. inode'[Root] = inode[Root] /\ pc' \in {"idle", "hung"} => RootInv'
    BY <1>1, <1>3 DEF RootInv, Growing, Running, ScanNeverEnds
  <1>5. ASSUME NEW h \in Handles, Close(h) PROVE RootInv'
    <2>1. handle[h].ino # Root
      BY <1>1, <1>5, RootApart DEF Close, HandleInv
    <2>2. inode'[Root] = inode[Root]
      BY <1>2, <1>5, <2>1 DEF Close
    <2> QED BY <1>4, <1>5, <2>2 DEF Close
  <1>6. CASE SaveInode
    <2>1. CASE call.op = "write"
      <3>1. call.ino # Root
        BY <1>1, <1>6, RootApart DEF SaveInode, CallInv, Running
      <3> QED BY <1>2, <1>4, <1>6, <2>1, <3>1 DEF SaveInode, EndCall
    <2>2. CASE call.op # "write"
      <3>1. inode'[Root] = cur
        BY <1>2, <1>6, <2>2 DEF SaveInode
      <3>2. roomy \in BOOLEAN /\ Growing /\ pc = "save"
        BY <1>1, <1>6, <2>2 DEF SaveInode, Growing, Running, TypeOK
      <3>3. cur = inode[Root] \/ cur.size % Words # 0
        BY <1>1, <3>2 DEF RootInv
      <3>4. inode'[Root] = DirInode(1) \/ ScanNeverEnds'
        BY <1>1, <3>1, <3>3 DEF RootInv, ScanNeverEnds
      <3> QED BY <1>3, <1>6, <3>4 DEF SaveInode, EndCall, RootInv, Growing, Running
    <2> QED BY <2>1, <2>2
  <1>7. ASSUME NEW op, NEW h, NEW n, TakeInode(op, h, n), op # "write",
               pc' \in {"record", "dirblock"}
        PROVE  RootInv'
    <2>1. call'.off = inode[Root].size /\ cur' = inode[Root] /\ inode' = inode
      BY <1>7 DEF TakeInode, NoCall
    <2> QED BY <1>1, <1>3, <1>7, <2>1 DEF RootInv, ScanNeverEnds
  <1>8. ASSUME NEW h \in Handles, NEW n \in Names, Create(h, n) PROVE RootInv'
    BY <1>7, <1>8 DEF Create
  <1>9. ASSUME NEW n \in Names, Mkdir(n) PROVE RootInv'
    BY <1>7, <1>9 DEF Mkdir
  <1>10. ASSUME NEW h \in Handles, NEW src \in Sources, BeginWrite(h, src) PROVE RootInv'
    <2>1. call'.op = "write" /\ inode' = inode /\ pc' = "next"
      BY <1>10 DEF BeginWrite, NoCall, diskVars
    <2> QED BY <1>1, <1>3, <2>1 DEF RootInv, Growing, ScanNeverEnds
  <1>11. CASE WriteRecord
    <2>1. call.ino # Root /\ Growing
      BY <1>1, <1>11, RootApart DEF WriteRecord, CallInv, Running, Growing
    <2>2. inode'[Root] = inode[Root]
      BY <1>2, <1>11, <2>1 DEF WriteRecord
    <2> QED BY <1>1, <1>3, <1>11, <2>1, <2>2 DEF WriteRecord, RootInv, ScanNeverEnds
  <1>12. CASE EnterName
    <2>1. Growing /\ roomy \in BOOLEAN
      BY <1>1, <1>12 DEF EnterName, CallInv, Running, Growing, TypeOK
    <2>2. CASE roomy
      BY <1>1, <1>3, <1>12, <2>1, <2>2 DEF EnterName, RootInv, ScanNeverEnds
    <2>3. CASE ~roomy
      <3>1. cur'.size = inode[Root].size + 1
        BY <1>1, <1>12, <2>1, <2>3 DEF EnterName, RootInv, TypeOK, Inode
      <3>2. cur'.size % Words # 0
        BY <1>1, <1>2, <1>12, <2>3, <3>1, SizeBecomesOdd DEF EnterName, RootInv, ScanNeverEnds
      <3> QED BY <1>1, <1>3, <1>12, <2>1, <2>3, <3>2 DEF EnterName, RootInv, ScanNeverEnds
    <2> QED BY <2>1, <2>2, <2>3
  <1>13. ASSUME inode' = inode, roomy' = roomy, call'.op = call.op, call'.off = call.off,
                \/ pc \in {"dirblock", "dots"} /\ cur' = cur /\ pc' \in {"record", "scan"}
                \/ pc = "scan" /\ cur' = cur /\ pc' = "enter" /\ roomy
                \/ pc \in {"scan", "link", "zero", "index"} /\ Growing
                     /\ ~roomy /\ ~ScanNeverEnds /\ pc' \in {"link", "zero", "index", "clear"}
                \/ pc = "clear" /\ pc' = "enter"
         PROVE  RootInv'
    BY <1>1, <1>3, <1>13 DEF RootInv, CallInv, Growing, Running, ScanNeverEnds
  <1>14. ASSUME inode' = inode, call'.op = "write", pc' \in {"next", "link", "zero", "index", "data", "save"}
         PROVE  RootInv'
    BY <1>1, <1>3, <1>14 DEF RootInv, Growing, ScanNeverEnds
  <1>15. CASE WriteWords \/ NextBlock
    <2>1. call.op = "write" /\ call'.op = call.op
      BY <1>1, <1>15 DEF WriteWords, NextBlock, CallInv, Running, Growing, TypeOK
    <2> QED BY <1>14, <1>15, <2>1 DEF WriteWords, NextBlock, diskVars
  <1>16. CASE TakeDirBlock \/ WriteDots \/ ScanFindsRoom \/ ClearBlock
    BY <1>13, <1>16 DEF TakeDirBlock, WriteDots, ScanFindsRoom, ClearBlock, diskVars, names
  <1>17. CASE TakeBlock
    <2>1. CASE ScanNeedsBlock
      <3>1. call.op # "write" /\ Growing
        BY <1>1, <2>1 DEF ScanNeedsBlock, CallInv, Running, Growing
      <3> QED BY <1>13, <1>17, <2>1, <3>1 DEF TakeBlock, ScanNeedsBlock, names
    <2>2. CASE ~ScanNeedsBlock
      <3>1. call.op = "write"
        BY <1>1, <1>17, <2>2 DEF TakeBlock, NeedsBlock, CallInv, Running, Growing
      <3> QED BY <1>14, <1>17, <3>1 DEF TakeBlock
    <2> QED BY <2>1, <2>2
  <1>18. CASE LinkDirect \/ TakeTable \/ ZeroTable \/ WriteIndex \/ LinkInTable
    <2>1. /\ pc \in {"link", "zero", "index"} /\ inode' = inode /\ roomy' = roomy /\ call' = call
          /\ pc' \in {"link", "zero", "index", Linked}
      BY <1>18 DEF LinkDirect, TakeTable, ZeroTable, WriteIndex, LinkInTable, diskVars, names
    <2>2. CASE call.op = "write"
      BY <1>14, <2>1, <2>2 DEF Linked
    <2>3. CASE call.op # "write"
      <3>1. Growing /\ ~roomy /\ ~ScanNeverEnds
        BY <1>1, <2>1, <2>3 DEF Growing, Running, RootInv
      <3> QED BY <1>13, <2>1, <2>3, <3>1 DEF Linked
    <2> QED BY <2>2, <2>3
  <1> QED
    BY <1>4, <1>5, <1>6, <1>8, <1>9, <1>10, <1>11, <1>12, <1>15, <1>16, <1>17, <1>18
    DEF Next, Allocate, Link, Scan, Store, LookupHangs, Open, Seek, Crash, NoDirBlock, NoBlock,
        LinkFails, ScanDuplicate, GiveUp, EndCall, ScanHangs, diskVars

-----------------------------------------------------------------------------
(* The structure, step by step                                             *)

(* The links, entry by entry, now and after a step.                        *)
LEMMA LinkValues ==
  \A i \in AllInodes, s \in Slots :
    Links[i][s] = IF Running /\ i = Target
                  THEN IF Unzeroed /\ s = TableSlot THEN 0 ELSE cur.slot[s]
                  ELSE inode[i].slot[s]
  BY DEF Links, Working

LEMMA NextLinkValues ==
  \A i \in AllInodes, s \in Slots :
    Links'[i][s] = IF Running' /\ i = Target'
                   THEN IF Unzeroed' /\ s = TableSlot' THEN 0 ELSE cur'.slot[s]
                   ELSE inode'[i].slot[s]
  BY DEF Links, Working

ShapeInv == StructureInv /\ CopyInv /\ UnusedInv /\ ReservedInv

(* A block that nothing reaches is no table; a block that is not marked is *)
(* not reached.                                                            *)
LEMMA NoTable ==
  ASSUME NEW L, NEW D, NEW U, NEW b, NotReached(L, D, U, b)
  PROVE  ~IsTable(L, D, U, b)
  <1>1. \A i \in U : L[i][Single] # b /\ L[i][Double] # b
    BY Geometry DEF NotReached
  <1>2. \A d \in Blocks : DoubleTable(L, U, d) => IsTable(L, D, U, d)
    BY DEF DoubleTable, IsTable
  <1> QED BY <1>1, <1>2 DEF NotReached, IsTable

LEMMA FreshNotReached ==
  ASSUME DiskInv, NEW b \in Blocks, b \notin blockUsed
  PROVE  NotReached(Links, disk, inodeUsed, b)
  <1>1. b # 0
    BY DEF Blocks
  <1> QED BY <1>1 DEF DiskInv, StructureInv, Sound, SlotsMarked, EntriesMarked, NotReached

(* Where the links are no more than before, everything is kept.            *)
LEMMA LinksFewer ==
  ASSUME DiskInv, blockUsed \subseteq blockUsed', disk' = disk,
         \A i \in inodeUsed', s \in Slots :
           Links'[i][s] = 0 \/ (i \in inodeUsed /\ Links'[i][s] = Links[i][s])
  PROVE  /\ StructureInv'
         /\ \A b : Reserved(b) => b \in blockUsed' /\ NotReached(Links', disk', inodeUsed', b)
         /\ \A b : ~IsTable(Links, disk, inodeUsed, b) => ~IsTable(Links', disk', inodeUsed', b)
  <1>1. /\ Sound(Links, disk, inodeUsed, blockUsed) => Sound(Links', disk, inodeUsed', blockUsed')
        /\ \A b : IsTable(Links', disk, inodeUsed', b) => IsTable(Links, disk, inodeUsed, b)
        /\ \A b : b # 0 /\ NotReached(Links, disk, inodeUsed, b) => NotReached(Links', disk, inodeUsed', b)
    BY Fewer
  <1>2. Sound(Links, disk, inodeUsed, blockUsed)
    BY DEF DiskInv, StructureInv
  <1>3. \A b : Reserved(b) => b # 0
    BY DEF Reserved, DiskInv, TypeOK, Blocks
  <1> QED BY <1>1, <1>2, <1>3 DEF StructureInv, Reserved

(* The call ends, or is cut off: what it had linked in its own copy is     *)
(* lost, and what is on the disk is sound without.                         *)
LEMMA CallOver ==
  ASSUME DiskInv, pc' \in {"idle", "hung"}, disk' = disk,
         \A i \in AllInodes, s \in Slots : inode'[i].slot[s] = inode[i].slot[s],
         inodeUsed' \subseteq inodeUsed,
         \A i \in inodeUsed \ inodeUsed' : Empty(i),
         blockUsed' = blockUsed \/ (Reserved(blk) /\ blockUsed' = blockUsed \ {blk})
  PROVE  ShapeInv'
  <1>1. /\ inodeUsed' \subseteq AllInodes /\ inodeUsed \subseteq AllInodes /\ UnusedInv
        /\ Sound(Links, disk, inodeUsed, blockUsed)
    BY DEF DiskInv, TypeOK, AllInodes, StructureInv
  <1>2. \A i \in AllInodes, s \in Slots : Links'[i][s] = inode'[i].slot[s]
    BY NextLinkValues DEF Running
  <1>3. \A i \in inodeUsed, s \in Slots : inode[i].slot[s] = 0 \/ inode[i].slot[s] = Links[i][s]
    BY <1>1, LinkValues DEF DiskInv, CopyInv
  <1>4. \A i \in inodeUsed', s \in Slots :
          Links'[i][s] = 0 \/ (i \in inodeUsed /\ Links'[i][s] = Links[i][s])
    BY <1>1, <1>2, <1>3
  <1>5. /\ Sound(Links', disk, inodeUsed', blockUsed)
        /\ \A b : b # 0 /\ NotReached(Links, disk, inodeUsed, b)
                    => NotReached(Links', disk, inodeUsed', b)
    BY <1>1, <1>4, Fewer
  <1>6. StructureInv'
    <2>1. CASE blockUsed' = blockUsed
      BY <1>5, <2>1 DEF StructureInv
    <2>2. CASE Reserved(blk) /\ blockUsed' = blockUsed \ {blk}
      <3>1. blk # 0
        BY <2>2 DEF Reserved, DiskInv, TypeOK, Blocks
      <3>2. NotReached(Links', disk, inodeUsed', blk)
        BY <1>5, <2>2, <3>1 DEF Reserved
      <3>3. Sound(Links', disk, inodeUsed', blockUsed \ {blk})
        BY <1>5, <3>2, Unmarked
      <3> QED BY <2>2, <3>3 DEF StructureInv
    <2> QED BY <2>1, <2>2
  <1>7. UnusedInv'
    BY <1>1, RootApart DEF UnusedInv, Empty
  <1> QED BY <1>6, <1>7 DEF ShapeInv, CopyInv, ReservedInv, Running

(* Every way in which a call is over, and the calls that are one step.     *)
LEMMA EndsKeepShape ==
  ASSUME DiskInv,
         \/ \E h \in Handles, n \in Names : Open(h, n)
         \/ \E h \in Handles, p \in Offsets : Seek(h, p)
         \/ \E h \in Handles : Close(h)
         \/ \E n \in Names : LookupHangs(n)
         \/ Crash \/ NoDirBlock \/ ScanDuplicate \/ NoBlock \/ LinkFails \/ ScanHangs
  PROVE  ShapeInv'
  <1>1. CallInv /\ ReservedInv /\ inode \in [AllInodes -> Inode]
    BY DEF DiskInv, TypeOK, AllInodes
  <1>2. ASSUME NEW h \in Handles, Close(h) PROVE ShapeInv'
    <2>1. \A j \in AllInodes, s \in Slots : inode'[j].slot[s] = inode[j].slot[s]
      <3>1. \A j \in AllInodes : inode[j] \in Inode
        BY <1>1
      <3>2. \A j \in AllInodes : inode'[j].slot = inode[j].slot
        BY <1>1, <1>2, <3>1 DEF Close, Inode
      <3> QED BY <3>2
    <2> QED BY <1>2, <2>1, CallOver DEF Close
  <1>3. CASE \/ \E h \in Handles, n \in Names : Open(h, n)
             \/ \E h \in Handles, p \in Offsets : Seek(h, p)
             \/ \E n \in Names : LookupHangs(n)
             \/ Crash \/ ScanHangs
    BY <1>3, CallOver DEF Open, Seek, LookupHangs, Crash, EndCall, ScanHangs, diskVars
  <1>4. CASE NoDirBlock
    <2>1. Empty(call.ino)
      BY <1>1, <1>4 DEF NoDirBlock, CallInv
    <2> QED BY <1>4, <2>1, CallOver DEF NoDirBlock, EndCall
  <1>5. GiveUp /\ Running /\ (blockUsed' = blockUsed \/ (Reserved(blk) /\ blockUsed' = blockUsed \ {blk}))
          => ShapeInv'
    <2> SUFFICES ASSUME GiveUp, Running,
                        blockUsed' = blockUsed \/ (Reserved(blk) /\ blockUsed' = blockUsed \ {blk})
                 PROVE  ShapeInv'
      OBVIOUS
    <2>1. call.op = "create" => Empty(call.ino)
      BY <1>1 DEF CallInv
    <2> QED BY <2>1, CallOver DEF GiveUp, EndCall
  <1>6. CASE ScanDuplicate \/ NoBlock
    BY <1>5, <1>6 DEF ScanDuplicate, NoBlock, NeedsBlock, ScanNeedsBlock, Running
  <1>7. CASE LinkFails
    BY <1>1, <1>5, <1>7 DEF LinkFails, Running, ReservedInv
  <1> QED BY <1>2, <1>3, <1>4, <1>6, <1>7

(* The copy is written, and what it links is on the disk.                  *)
LEMMA SaveKeepsShape ==
  ASSUME DiskInv, SaveInode
  PROVE  ShapeInv'
  <1>1. /\ inode \in [AllInodes -> Inode] /\ UnusedInv /\ CallInv /\ RootInv
        /\ inodeUsed \subseteq AllInodes
    BY DEF DiskInv, TypeOK, AllInodes
  <1>2. Running /\ ~Unzeroed
    BY DEF SaveInode, Running, Unzeroed
  <1>3. Target \in AllInodes /\ Target \in inodeUsed
    BY <1>2, TargetLinks
  <1>4. inode' = [inode EXCEPT ![Target] = cur]
    BY DEF SaveInode, Target
  <1>5. \A i \in AllInodes, s \in Slots : Links'[i][s] = inode'[i].slot[s]
    BY NextLinkValues DEF Running, SaveInode, EndCall
  <1>6. \A i \in AllInodes, s \in Slots : Links'[i][s] = Links[i][s]
    BY <1>1, <1>2, <1>4, <1>5, LinkValues
  <1>7. StructureInv'
    BY <1>1, <1>6, LinksFewer DEF SaveInode
  <1>8. UnusedInv'
    BY <1>1, <1>3, <1>4, RootApart DEF UnusedInv, Empty, SaveInode
  <1> QED BY <1>7, <1>8 DEF ShapeInv, CopyInv, ReservedInv, Running, SaveInode, EndCall

(* A call begins with a copy of what the disk has; the inode it takes is   *)
(* empty.                                                                  *)
LEMMA BeginsKeepShape ==
  ASSUME DiskInv,
         \/ \E h \in Handles, n \in Names : Create(h, n)
         \/ \E n \in Names : Mkdir(n)
         \/ \E h \in Handles, src \in Sources : BeginWrite(h, src)
  PROVE  ShapeInv'
  <1>1. /\ inode \in [AllInodes -> Inode] /\ UnusedInv /\ HandleInv /\ RootInv
        /\ inodeUsed \subseteq AllInodes
    BY DEF DiskInv, TypeOK, AllInodes
  <1>2. ASSUME NEW t \in AllInodes, pc = "idle", Running', Target' = t, cur' = inode[t],
               inode' = inode, disk' = disk, blockUsed' = blockUsed, inodeUsed \subseteq inodeUsed',
               \A i \in inodeUsed' : i \in inodeUsed \/ (i \in Inodes /\ Empty(i)),
               \/ pc' = "next" \/ pc' = "dirblock" \/ (pc' = "record" /\ call'.op = "create")
        PROVE  ShapeInv'
    <2>1. \A i \in AllInodes, s \in Slots : Links[i][s] = inode[i].slot[s]
      BY <1>2, LinkValues DEF Running
    <2>2. \A i \in AllInodes, s \in Slots : Links'[i][s] = inode[i].slot[s]
      BY <1>2, NextLinkValues DEF Unzeroed
    <2>3. StructureInv'
      <3>1. \A i \in inodeUsed', s \in Slots :
              Links'[i][s] = 0 \/ (i \in inodeUsed /\ Links'[i][s] = Links[i][s])
        BY <1>1, <1>2, <2>1, <2>2, RootApart DEF Empty
      <3> QED BY <1>2, <3>1, LinksFewer
    <2>4. UnusedInv'
      BY <1>1, <1>2 DEF UnusedInv, Empty
    <2>5. CopyInv'
      BY <1>2, <2>2 DEF CopyInv
    <2>6. ReservedInv'
      BY <1>2 DEF ReservedInv
    <2> QED BY <2>3, <2>4, <2>5, <2>6 DEF ShapeInv
  <1>3. ASSUME NEW op \in {"create", "mkdir"}, NEW h, NEW n, TakeInode(op, h, n),
               \/ pc' = "dirblock" \/ (pc' = "record" /\ op = "create")
        PROVE  ShapeInv'
    <2>1. /\ Running' /\ call'.op = op /\ Target' = Root /\ cur' = inode[Root] /\ pc = "idle"
          /\ inode' = inode /\ disk' = disk /\ blockUsed' = blockUsed
      BY <1>3 DEF TakeInode, Target, Running, NoCall
    <2>2. inodeUsed' = inodeUsed \cup {Lowest(FreeInodes)} /\ Lowest(FreeInodes) \in Inodes
          /\ Empty(Lowest(FreeInodes))
      BY <1>1, <1>3, FreshInode DEF TakeInode, UnusedInv
    <2> QED BY <1>2, <1>3, <2>1, <2>2, RootApart
  <1>4. ASSUME NEW h \in Handles, NEW n \in Names, Create(h, n) PROVE ShapeInv'
    BY <1>3, <1>4 DEF Create
  <1>5. ASSUME NEW n \in Names, Mkdir(n) PROVE ShapeInv'
    BY <1>3, <1>5 DEF Mkdir
  <1>6. ASSUME NEW h \in Handles, NEW src \in Sources, BeginWrite(h, src) PROVE ShapeInv'
    <2>1. /\ Running' /\ Target' = handle[h].ino /\ cur' = inode[handle[h].ino] /\ pc = "idle"
          /\ inode' = inode /\ disk' = disk /\ blockUsed' = blockUsed /\ inodeUsed' = inodeUsed
          /\ pc' = "next"
      BY <1>6 DEF BeginWrite, Target, Running, NoCall, diskVars
    <2>2. handle[h].ino \in AllInodes
      BY <1>1, <1>6, RootApart DEF BeginWrite, HandleInv
    <2> QED BY <1>2, <2>1, <2>2
  <1> QED BY <1>4, <1>5, <1>6

(* Where the copy keeps its slots, the links are the same, and the copy    *)
(* still has all that the disk has.                                        *)
LEMMA LinksSame ==
  ASSUME Running, Running', Target' = Target, inode' = inode, cur'.slot = cur.slot,
         ~Unzeroed, ~Unzeroed'
  PROVE  \A i \in AllInodes, s \in Slots : Links'[i][s] = Links[i][s]
  BY LinkValues, NextLinkValues

LEMMA CopySame ==
  ASSUME DiskInv, Running, Target' = Target, inode' = inode,
         \A i \in AllInodes, s \in Slots : Links[i][s] # 0 => Links'[i][s] = Links[i][s]
  PROVE  CopyInv'
  <1>1. Target \in AllInodes /\ \A s \in Slots : inode[Target].slot[s] # 0
                                  => Links[Target][s] = inode[Target].slot[s]
    BY TargetLinks DEF DiskInv, CopyInv
  <1> QED BY <1>1 DEF CopyInv

(* A directory of one block grows by its second block, which it lacks.     *)
LEMMA RootSlotFree ==
  ASSUME DiskInv, ScanNeedsBlock, At < Direct
  PROVE  cur.slot[At] = 0
  <1>1. cur = inode[Root] /\ inode[Root] = DirInode(1) /\ call.off = inode[Root].size
    BY DEF DiskInv, RootInv, CallInv, ScanNeedsBlock, Running, Growing
  <1>2. call.off = Words /\ cur.slot = [EmptyInode.slot EXCEPT ![0] = 1]
    BY <1>1 DEF DirInode
  <1>3. \A w \in Nat \ {0} : w \div w = 1
    BY Z3
  <1>4. At = 1
    BY <1>2, <1>3, Geometry DEF At
  <1> QED BY <1>2, <1>4, Geometry DEF EmptyInode

(* A block that is taken was not reached and is reserved from now on.      *)
LEMMA TakesKeepShape ==
  ASSUME DiskInv, TakeDirBlock \/ TakeBlock
  PROVE  ShapeInv'
  <1>1. CallInv /\ UnusedInv /\ inodeUsed \subseteq AllInodes
    BY DEF DiskInv, TypeOK, AllInodes
  <1>2. /\ Running /\ Running' /\ Target' = Target /\ ~Unzeroed /\ ~Unzeroed'
        /\ inode' = inode /\ cur' = cur /\ disk' = disk /\ inodeUsed' = inodeUsed /\ call' = call
    BY DEF TakeDirBlock, TakeBlock, NeedsBlock, ScanNeedsBlock, Running, Unzeroed, Target
  <1>3. blk' \in Blocks /\ blk' \notin blockUsed /\ blockUsed' = blockUsed \cup {blk'}
    BY FreshBlock DEF TakeDirBlock, TakeBlock
  <1>4. \A i \in AllInodes, s \in Slots : Links'[i][s] = Links[i][s]
    BY <1>2, LinksSame
  <1>5. /\ \A i \in inodeUsed', s \in Slots :
             Links'[i][s] = 0 \/ (i \in inodeUsed /\ Links'[i][s] = Links[i][s])
        /\ blockUsed \subseteq blockUsed'
    BY <1>1, <1>2, <1>3, <1>4
  <1>6. StructureInv'
    BY <1>2, <1>5, LinksFewer
  <1>7. Reserved(blk)'
    <2>1. NotReached(Links, disk, inodeUsed, blk') /\ blk' # 0
      BY <1>3, FreshNotReached DEF Blocks
    <2>2. NotReached(Links', disk, inodeUsed', blk')
      BY <1>5, <2>1, Fewer
    <2> QED BY <1>2, <1>3, <2>2 DEF Reserved
  <1>8. UnusedInv'
    BY <1>1, <1>2 DEF UnusedInv, Empty
  <1>9. CopyInv'
    BY <1>2, <1>4, CopySame
  <1>10. CASE TakeDirBlock
    BY <1>6, <1>7, <1>8, <1>9, <1>10 DEF TakeDirBlock, ShapeInv, ReservedInv
  <1>11. CASE TakeBlock
    <2>1. ASSUME At < Direct PROVE cur.slot[At] = 0
      <3>1. CASE ScanNeedsBlock
        BY <2>1, <3>1, RootSlotFree
      <3>2. CASE BlockAt(cur, At) = 0
        BY <2>1, <3>2 DEF BlockAt
      <3> QED BY <1>11, <3>1, <3>2 DEF TakeBlock, NeedsBlock, At
    <2>2. pc' = "link" /\ At' = At
      BY <1>2, <1>11 DEF TakeBlock, At
    <2>3. ReservedInv'
      BY <1>2, <1>7, <2>1, <2>2 DEF ReservedInv
    <2> QED BY <1>6, <1>8, <1>9, <2>3 DEF ShapeInv
  <1> QED BY <1>10, <1>11

(* These steps change no link.                                             *)
LEMMA MovesKeepShape ==
  ASSUME DiskInv, NextBlock \/ ScanFindsRoom \/ EnterName
  PROVE  ShapeInv'
  <1>1. UnusedInv /\ inodeUsed \subseteq AllInodes /\ cur \in Inode
    BY DEF DiskInv, TypeOK, AllInodes
  <1>2. /\ Running /\ Running' /\ Target' = Target /\ ~Unzeroed /\ ~Unzeroed'
        /\ inode' = inode /\ disk' = disk /\ inodeUsed' = inodeUsed /\ blockUsed' = blockUsed
    BY DEF NextBlock, ScanFindsRoom, EnterName, Running, Unzeroed, Target, diskVars
  <1>3. cur'.slot = cur.slot
    BY <1>1 DEF NextBlock, ScanFindsRoom, EnterName, Inode
  <1>4. \A i \in AllInodes, s \in Slots : Links'[i][s] = Links[i][s]
    BY <1>2, <1>3, LinksSame
  <1>5. /\ StructureInv'
        /\ \A b : ~IsTable(Links, disk, inodeUsed, b) => ~IsTable(Links', disk', inodeUsed', b)
    BY <1>1, <1>2, <1>4, LinksFewer
  <1>6. UnusedInv'
    BY <1>1, <1>2 DEF UnusedInv, Empty
  <1>7. CopyInv'
    BY <1>2, <1>4, CopySame
  <1>8. ReservedInv'
    <2>1. CASE NextBlock
      <3>1. pc' = "data" => blk' \in Blocks /\ ~IsTable(Links, disk, inodeUsed, blk')
        BY <2>1, BlockFound DEF NextBlock
      <3> QED BY <1>5, <2>1, <3>1 DEF NextBlock, ReservedInv
    <2>2. CASE ScanFindsRoom \/ EnterName
      BY <2>2 DEF ScanFindsRoom, EnterName, ReservedInv
    <2> QED BY <2>1, <2>2
  <1> QED BY <1>5, <1>6, <1>7, <1>8 DEF ShapeInv

(* Writing a data block touches no table.                                  *)
LEMMA DataKeepsShape ==
  ASSUME DiskInv, WriteDots \/ ClearBlock \/ WriteWords
  PROVE  ShapeInv'
  <1>1. /\ UnusedInv /\ inodeUsed \subseteq AllInodes /\ cur \in Inode
        /\ disk \in [0 .. NBlocks -> Block] /\ call.op \in {"none", "create", "mkdir", "write"}
        /\ 0 \in 0 .. NBlocks
    BY Records DEF DiskInv, TypeOK, AllInodes
  <1>2. blk \in Blocks /\ ~IsTable(Links, disk, inodeUsed, blk) /\ blk # 0
    BY DEF DiskInv, ReservedInv, WriteDots, ClearBlock, WriteWords, Blocks
  <1>3. call'.op = call.op /\ call'.ino = call.ino
    BY DEF DiskInv, TypeOK, WriteDots, ClearBlock, WriteWords
  <1>4. /\ Running /\ Running' /\ Target' = Target /\ ~Unzeroed /\ ~Unzeroed'
        /\ inode' = inode /\ inodeUsed' = inodeUsed /\ blockUsed' = blockUsed
    BY <1>3 DEF WriteDots, ClearBlock, WriteWords, Running, Unzeroed, Target
  <1>5. cur'.slot = cur.slot
    BY <1>1 DEF WriteDots, ClearBlock, WriteWords, Inode
  <1>6. \A i \in AllInodes, s \in Slots : Links'[i][s] = Links[i][s]
    BY <1>4, <1>5, LinksSame
  <1>7. \A t \in 0 .. NBlocks : t # blk => disk'[t] = disk[t]
    BY <1>1 DEF WriteDots, ClearBlock, WriteWords
  <1>8. Sound(Links, disk', inodeUsed, blockUsed)
    <2>1. \A t \in Blocks : IsTable(Links, disk, inodeUsed, t)
                              => \A k \in Entries : disk'[t][k] = disk[t][k]
      BY <1>2, <1>7, Records
    <2> QED BY <2>1, DataWritten DEF DiskInv, StructureInv
  <1>9. StructureInv'
    BY <1>1, <1>4, <1>6, <1>8, Fewer DEF StructureInv
  <1>10. UnusedInv'
    BY <1>1, <1>2, <1>4, <1>7 DEF UnusedInv, Empty
  <1>11. CopyInv'
    BY <1>4, <1>6, CopySame
  <1>12. ReservedInv'
    BY DEF WriteDots, ClearBlock, WriteWords, ReservedInv
  <1> QED BY <1>9, <1>10, <1>11, <1>12 DEF ShapeInv

(* What is reserved is a block, marked and not reached.                    *)
LEMMA ReservedFacts ==
  ASSUME DiskInv, NEW b, Reserved(b)
  PROVE  /\ b \in Blocks /\ b \in blockUsed /\ b # 0
         /\ NotReached(Links, disk, inodeUsed, b) /\ ~IsTable(Links, disk, inodeUsed, b)
  BY NoTable DEF DiskInv, TypeOK, Reserved, Blocks

(* A new inode is linked to nothing, or to the block reserved for it.      *)
LEMMA RecordKeepsShape ==
  ASSUME DiskInv, WriteRecord
  PROVE  ShapeInv'
  <1>1. /\ UnusedInv /\ CallInv /\ inodeUsed \subseteq AllInodes /\ inode \in [AllInodes -> Inode]
        /\ Sound(Links, disk, inodeUsed, blockUsed)
    BY DEF DiskInv, TypeOK, AllInodes, StructureInv
  <1>2. /\ Running /\ Running' /\ ~Unzeroed /\ ~Unzeroed' /\ call' = call /\ cur' = cur
        /\ disk' = disk /\ inodeUsed' = inodeUsed /\ blockUsed' = blockUsed /\ pc = "record"
        /\ blk' = blk
    BY DEF WriteRecord, Running, Unzeroed
  <1>3. /\ call.op \in {"create", "mkdir"} /\ Target = Root /\ Target' = Root
        /\ call.ino \in Inodes /\ call.ino \in inodeUsed /\ call.ino # Root
        /\ Empty(call.ino)
    BY <1>1, <1>2, RootApart DEF CallInv, Target
  <1>4. /\ \A i \in AllInodes : i # call.ino => inode'[i] = inode[i]
        /\ inode'[call.ino] = IF call.op = "create" THEN EmptyInode ELSE DirInode(blk)
    BY <1>1, <1>3, RootApart DEF WriteRecord
  <1>5. /\ \A i \in AllInodes, s \in Slots : i # call.ino => Links'[i][s] = Links[i][s]
        /\ \A s \in Slots : Links[call.ino][s] = 0 /\ Links'[call.ino][s] = inode'[call.ino].slot[s]
    BY <1>2, <1>3, <1>4, LinkValues, NextLinkValues, RootApart DEF Empty
  <1>6. UnusedInv'
    BY <1>1, <1>2, <1>3, <1>4, RootApart DEF UnusedInv, Empty
  <1>7. CopyInv'
    <2>1. \A s \in Slots : inode'[Root].slot[s] # 0 => Links'[Root][s] = inode'[Root].slot[s]
      BY <1>2, <1>3, <1>4, <1>5, RootApart DEF DiskInv, CopyInv
    <2> QED BY <1>3, <2>1 DEF CopyInv
  <1>8. CASE call.op = "create"
    <2>1. \A s \in Slots : Links'[call.ino][s] = 0
      BY <1>4, <1>5, <1>8 DEF EmptyInode, Slots
    <2>2. StructureInv'
      BY <1>1, <1>2, <1>5, <2>1, LinksFewer
    <2>3. ReservedInv'
      BY <1>8 DEF WriteRecord, ReservedInv
    <2> QED BY <1>6, <1>7, <2>2, <2>3 DEF ShapeInv
  <1>9. CASE call.op = "mkdir"
    <2>1. 0 \in Slots /\ 0 # Single /\ 0 # Double
      BY Geometry DEF Slots
    <2>2. Reserved(blk)
      BY <1>2, <1>9 DEF DiskInv, ReservedInv
    <2>3. \A s \in Slots : inode'[call.ino].slot[s] = IF s = 0 THEN blk ELSE 0
      BY <1>4, <1>9 DEF DirInode, EmptyInode, Slots
    <2>4. \A i \in inodeUsed, s \in Slots :
            Links'[i][s] = IF i = call.ino /\ s = 0 THEN blk ELSE Links[i][s]
      BY <1>1, <1>5, <2>3
    <2>5. /\ Sound(Links', disk, inodeUsed, blockUsed)
          /\ \A t \in Blocks : IsTable(Links', disk, inodeUsed, t) => IsTable(Links, disk, inodeUsed, t)
      BY <1>1, <1>3, <2>1, <2>2, <2>4, ReservedFacts, SlotLinked
    <2>6. blk \in Blocks /\ ~IsTable(Links', disk, inodeUsed, blk)
      BY <2>2, <2>5, ReservedFacts
    <2>7. ReservedInv'
      BY <1>2, <1>9, <2>6 DEF WriteRecord, ReservedInv
    <2> QED BY <1>2, <1>6, <1>7, <2>5, <2>7 DEF ShapeInv, StructureInv
  <1> QED BY <1>3, <1>8, <1>9

(* A direct slot is empty before it is set.                                *)
LEMMA DirectKeepsShape ==
  ASSUME DiskInv, LinkDirect
  PROVE  ShapeInv'
  <1>1. /\ UnusedInv /\ inodeUsed \subseteq AllInodes /\ cur \in Inode /\ call.off \in Nat
        /\ Sound(Links, disk, inodeUsed, blockUsed)
    <2>1. call.off \in Nat
      BY Geometry DEF DiskInv, TypeOK
    <2> QED BY <2>1 DEF DiskInv, TypeOK, AllInodes, StructureInv
  <1>2. /\ Running /\ Running' /\ ~Unzeroed /\ ~Unzeroed' /\ call' = call /\ Target' = Target
        /\ inode' = inode /\ disk' = disk /\ inodeUsed' = inodeUsed /\ blockUsed' = blockUsed
        /\ blk' = blk
    BY DEF LinkDirect, Running, Unzeroed, Linked, Target, diskVars
  <1>3. At \in Slots /\ At # Single /\ At # Double /\ cur.slot[At] = 0 /\ Reserved(blk)
    BY <1>1, Place DEF LinkDirect, DiskInv, ReservedInv
  <1>4. Target \in inodeUsed /\ Target \in AllInodes
    BY <1>2, TargetLinks
  <1>5. \A s \in Slots : cur'.slot[s] = IF s = At THEN blk ELSE cur.slot[s]
    BY <1>1, <1>3 DEF LinkDirect, Inode, Slots
  <1>6. \A i \in AllInodes, s \in Slots :
          Links'[i][s] = IF i = Target /\ s = At THEN blk ELSE Links[i][s]
    BY <1>2, <1>4, <1>5, LinkValues, NextLinkValues
  <1>7. Links[Target][At] = 0
    BY <1>2, <1>3, TargetLinks
  <1>8. /\ Sound(Links', disk, inodeUsed, blockUsed)
        /\ \A t \in Blocks : IsTable(Links', disk, inodeUsed, t) => IsTable(Links, disk, inodeUsed, t)
    BY <1>1, <1>3, <1>4, <1>6, ReservedFacts, SlotLinked
  <1>9. CopyInv'
    <2>1. \A i \in AllInodes, s \in Slots : Links[i][s] # 0 => Links'[i][s] = Links[i][s]
      BY <1>6, <1>7
    <2> QED BY <1>2, <2>1, CopySame
  <1>10. UnusedInv'
    BY <1>1, <1>2 DEF UnusedInv, Empty
  <1>11. blk \in Blocks /\ ~IsTable(Links', disk, inodeUsed, blk)
    BY <1>3, <1>8, ReservedFacts
  <1>12. ReservedInv'
    BY <1>2, <1>11 DEF LinkDirect, Linked, ReservedInv
  <1> QED BY <1>2, <1>8, <1>9, <1>10, <1>12 DEF ShapeInv, StructureInv

(* A table that is taken is linked in the copy at once, but counts as      *)
(* linked only when it has been zeroed: so far nothing has changed.        *)
LEMMA TableKeepsShape ==
  ASSUME DiskInv, TakeTable
  PROVE  ShapeInv'
  <1>1. /\ UnusedInv /\ inodeUsed \subseteq AllInodes /\ cur \in Inode /\ call.off \in Nat
    <2>1. call.off \in Nat
      BY Geometry DEF DiskInv, TypeOK
    <2> QED BY <2>1 DEF DiskInv, TypeOK, AllInodes
  <1>2. /\ Running /\ Running' /\ ~Unzeroed /\ call' = call /\ Target' = Target
        /\ At' = At /\ TableSlot' = TableSlot /\ TableSlot \in Slots
        /\ inode' = inode /\ disk' = disk /\ inodeUsed' = inodeUsed /\ blk' = blk /\ pc' = "zero"
    BY Geometry DEF TakeTable, Running, Unzeroed, Target, At, TableSlot
  <1>3. /\ tab' \in Blocks /\ tab' \notin blockUsed /\ tab' # 0
        /\ blockUsed' = blockUsed \cup {tab'} /\ Reserved(blk)
    BY FreshBlock DEF TakeTable, DiskInv, ReservedInv, Blocks
  <1>4. Target \in inodeUsed /\ Target \in AllInodes
    BY <1>2, TargetLinks
  <1>5. At \in Nat /\ Direct <= At /\ At < MaxBlocks
    BY <1>1, Place, Geometry DEF TakeTable, NeedsTable, NeedsIndex
  <1>6. ~NeedsTable => /\ Direct + Words <= At /\ cur.slot[Double] # 0 /\ cur' = cur
                       /\ TableSlot = Double /\ ~Unzeroed'
    <2> SUFFICES ASSUME ~NeedsTable
                 PROVE  /\ Direct + Words <= At /\ cur.slot[Double] # 0 /\ cur' = cur
                        /\ TableSlot = Double /\ ~Unzeroed'
      OBVIOUS
    <2>1. Direct + Words <= At /\ cur.slot[Double] # 0 /\ cur' = cur /\ TableSlot = Double
      BY <1>1, Place DEF TakeTable, NeedsIndex
    <2>2. cur.slot[Double] \in blockUsed
      <3>1. Links[Target][Double] = cur.slot[Double] /\ Double \in Slots
        BY <1>2, TargetLinks, Geometry
      <3> QED BY <1>4, <2>1, <3>1, MarkedSlot
    <2> QED BY <1>2, <1>3, <2>1, <2>2 DEF Unzeroed
  <1>7. NeedsTable => Unzeroed' /\ cur.slot[TableSlot] = 0
                      /\ \A s \in Slots : s # TableSlot => cur'.slot[s] = cur.slot[s]
    BY <1>1, <1>2 DEF TakeTable, NeedsTable, Unzeroed, Inode, Slots
  <1>8. \A i \in AllInodes, s \in Slots : Links'[i][s] = Links[i][s]
    <2>1. CASE NeedsTable
      BY <1>2, <1>7, <2>1, LinkValues, NextLinkValues
    <2>2. CASE ~NeedsTable
      BY <1>2, <1>6, <2>2, LinkValues, NextLinkValues
    <2> QED BY <2>1, <2>2
  <1>9. /\ \A i \in inodeUsed', s \in Slots :
             Links'[i][s] = 0 \/ (i \in inodeUsed /\ Links'[i][s] = Links[i][s])
        /\ blockUsed \subseteq blockUsed'
    BY <1>1, <1>2, <1>3, <1>8
  <1>10. StructureInv' /\ \A b : Reserved(b) => b \in blockUsed' /\ NotReached(Links', disk', inodeUsed', b)
    BY <1>2, <1>9, LinksFewer
  <1>11. Reserved(tab)'
    <2>1. NotReached(Links, disk, inodeUsed, tab')
      BY <1>3, FreshNotReached
    <2>2. NotReached(Links', disk, inodeUsed', tab')
      BY <1>3, <1>9, <2>1, Fewer
    <2> QED BY <1>2, <1>3, <2>2 DEF Reserved
  <1>12. Reserved(blk)' /\ tab' # blk'
    BY <1>2, <1>3, <1>10, ReservedFacts DEF Reserved
  <1>13. UnusedInv'
    BY <1>1, <1>2 DEF UnusedInv, Empty
  <1>14. CopyInv'
    BY <1>2, <1>8, CopySame
  <1>15. ReservedInv'
    BY <1>2, <1>5, <1>6, <1>7, <1>11, <1>12 DEF ReservedInv
  <1> QED BY <1>10, <1>13, <1>14, <1>15 DEF ShapeInv

(* A table that has been zeroed may be linked.                             *)
LEMMA ZeroKeepsShape ==
  ASSUME DiskInv, ZeroTable
  PROVE  ShapeInv'
  <1>1. /\ UnusedInv /\ inodeUsed \subseteq AllInodes /\ cur \in Inode
        /\ disk \in [0 .. NBlocks -> Block] /\ 0 \in 0 .. NBlocks /\ call.off \in Nat
        /\ Sound(Links, disk, inodeUsed, blockUsed)
    <2>1. call.off \in Nat
      BY Geometry DEF DiskInv, TypeOK
    <2> QED BY <2>1, Records DEF DiskInv, TypeOK, AllInodes, StructureInv
  <1>2. /\ Running /\ Running' /\ ~Unzeroed' /\ call' = call /\ Target' = Target /\ cur' = cur
        /\ At' = At /\ TableSlot \in Slots
        /\ inode' = inode /\ inodeUsed' = inodeUsed /\ blockUsed' = blockUsed /\ blk' = blk
    BY Geometry DEF ZeroTable, Running, Unzeroed, Target, At, TableSlot
  <1>3. /\ Reserved(blk) /\ Reserved(tab) /\ tab # blk /\ Direct <= At /\ At < MaxBlocks
        /\ ~Unzeroed => Direct + Words <= At /\ cur.slot[Double] # 0
    BY DEF ZeroTable, DiskInv, ReservedInv
  <1>4. Target \in inodeUsed /\ Target \in AllInodes
    BY <1>2, TargetLinks
  <1>5. /\ tab \in Blocks /\ tab # 0 /\ ~IsTable(Links, disk, inodeUsed, tab)
        /\ blk \in Blocks /\ blk # 0
    BY <1>3, ReservedFacts
  <1>6. /\ \A t \in 0 .. NBlocks : t # tab => disk'[t] = disk[t]
        /\ \A k \in Entries : disk'[tab][k] = 0
    BY <1>1, <1>5, Records DEF ZeroTable, Zeros, Entries
  <1>7. /\ Sound(Links, disk', inodeUsed, blockUsed)
        /\ NotReached(Links, disk', inodeUsed, tab) /\ NotReached(Links, disk', inodeUsed, blk)
    <2>1. \A t \in Blocks : IsTable(Links, disk, inodeUsed, t)
                              => \A k \in Entries : disk'[t][k] = disk[t][k]
      BY <1>5, <1>6, Records
    <2> QED BY <1>1, <1>3, <2>1, DataWritten DEF Reserved
  <1>8. UnusedInv'
    BY <1>1, <1>2, <1>5, <1>6 DEF UnusedInv, Empty
  <1>9. CASE Unzeroed
    <2>1. /\ pc' = "link" /\ cur.slot[TableSlot] = tab
      BY <1>9 DEF ZeroTable, Unzeroed
    <2>2. \A i \in AllInodes, s \in Slots :
            Links'[i][s] = IF i = Target /\ s = TableSlot THEN tab ELSE Links[i][s]
      BY <1>2, <1>4, <1>9, <2>1, LinkValues, NextLinkValues
    <2>3. \A i \in inodeUsed, s \in Slots :
            Links'[i][s] = IF i = Target /\ s = TableSlot THEN tab ELSE Links[i][s]
      BY <1>1, <2>2
    <2>4. /\ Sound(Links', disk', inodeUsed, blockUsed)
          /\ \A c : c # 0 /\ c # tab /\ NotReached(Links, disk', inodeUsed, c)
                      => NotReached(Links', disk', inodeUsed, c)
      <3>1. /\ Sound(Links, disk', inodeUsed, blockUsed) /\ tab \in Blocks /\ tab \in blockUsed
            /\ NotReached(Links, disk', inodeUsed, tab)
        BY <1>3, <1>5, <1>7 DEF Reserved
      <3>2. Target \in inodeUsed /\ TableSlot \in Slots /\ \A k \in Entries : disk'[tab][k] = 0
        BY <1>2, <1>4, <1>6
      <3> QED BY <2>3, <3>1, <3>2, SlotLinked
    <2>5. Reserved(blk)'
      BY <1>2, <1>3, <1>5, <1>7, <2>4 DEF Reserved
    <2>6. Links[Target][TableSlot] = 0
      BY <1>2, <1>9, TargetLinks
    <2>7. CopyInv'
      <3>1. \A i \in AllInodes, s \in Slots : Links[i][s] # 0 => Links'[i][s] = Links[i][s]
        BY <2>2, <2>6
      <3> QED BY <1>2, <3>1, CopySame
    <2>8. At \in Nat
      BY <1>1, Place
    <2>9. ReservedInv'
      BY <1>2, <1>3, <2>1, <2>5, <2>8, Geometry DEF ReservedInv
    <2> QED BY <1>2, <1>8, <2>4, <2>7, <2>9 DEF ShapeInv, StructureInv
  <1>10. CASE ~Unzeroed
    <2>1. pc' = "index" /\ tab' = tab
      BY <1>10 DEF ZeroTable, Unzeroed
    <2>2. \A i \in AllInodes, s \in Slots : Links'[i][s] = Links[i][s]
      BY <1>2, <1>10, LinksSame
    <2>3. /\ Sound(Links', disk', inodeUsed, blockUsed)
          /\ NotReached(Links', disk', inodeUsed, tab) /\ NotReached(Links', disk', inodeUsed, blk)
      BY <1>1, <1>5, <1>7, <2>2, Fewer
    <2>4. CopyInv'
      BY <1>2, <2>2, CopySame
    <2>5. ReservedInv'
      BY <1>2, <1>3, <1>6, <1>10, <2>1, <2>3 DEF ReservedInv, Reserved
    <2> QED BY <1>2, <1>8, <2>3, <2>4, <2>5 DEF ShapeInv, StructureInv
  <1> QED BY <1>9, <1>10

(* A table's entry is set to a reserved block.                             *)
LEMMA EntryWritten ==
  ASSUME DiskInv, Running, Running', Target' = Target, inode' = inode, cur' = cur,
         ~Unzeroed, ~Unzeroed', inodeUsed' = inodeUsed, blockUsed' = blockUsed,
         NEW t \in Blocks, IsTable(Links, disk, inodeUsed, t), NEW e \in Entries,
         NEW b, Reserved(b), DoubleTable(Links, inodeUsed, t) => \A k \in Entries : disk[b][k] = 0,
         \A u \in 0 .. NBlocks, k \in Entries :
           disk'[u][k] = IF u = t /\ k = e THEN b ELSE disk[u][k]
  PROVE  /\ StructureInv' /\ CopyInv' /\ UnusedInv'
         /\ ~DoubleTable(Links, inodeUsed, t) => ~IsTable(Links', disk', inodeUsed', b)
         /\ \A c : c # b /\ Reserved(c) => Reserved(c)'
  <1>1. /\ UnusedInv /\ inodeUsed \subseteq AllInodes /\ disk \in [0 .. NBlocks -> Block]
        /\ 0 \in 0 .. NBlocks /\ Blocks \subseteq 0 .. NBlocks
        /\ Sound(Links, disk, inodeUsed, blockUsed)
    BY Records DEF DiskInv, TypeOK, AllInodes, StructureInv
  <1>2. /\ b \in Blocks /\ b \in blockUsed /\ NotReached(Links, disk, inodeUsed, b)
        /\ ~IsTable(Links, disk, inodeUsed, b)
    BY ReservedFacts
  <1>3. t # 0
    BY DEF Blocks
  <1>5. \A u \in Blocks, k \in Entries :
          disk'[u][k] = IF u = t /\ k = e THEN b ELSE disk[u][k]
    BY <1>1
  <1>6. /\ Sound(Links, disk', inodeUsed, blockUsed)
        /\ \A c \in Blocks : IsTable(Links, disk', inodeUsed, c)
             => IsTable(Links, disk, inodeUsed, c) \/ (c = b /\ DoubleTable(Links, inodeUsed, t))
        /\ \A c : c # 0 /\ c # b /\ NotReached(Links, disk, inodeUsed, c)
                    => NotReached(Links, disk', inodeUsed, c)
    <2>1. Sound(Links, disk, inodeUsed, blockUsed)
      BY <1>1
    <2> QED BY <1>2, <1>5, <2>1, EntryLinked
  <1>7. \A i \in AllInodes, s \in Slots : Links'[i][s] = Links[i][s]
    BY LinksSame
  <1>8. /\ Sound(Links', disk', inodeUsed, blockUsed)
        /\ \A c : IsTable(Links', disk', inodeUsed, c) => IsTable(Links, disk', inodeUsed, c)
        /\ \A c : c # 0 /\ NotReached(Links, disk', inodeUsed, c)
                    => NotReached(Links', disk', inodeUsed, c)
    <2>1. \A i \in inodeUsed, s \in Slots :
            Links'[i][s] = 0 \/ (i \in inodeUsed /\ Links'[i][s] = Links[i][s])
      BY <1>1, <1>7
    <2>2. Sound(Links, disk', inodeUsed, blockUsed)
      BY <1>6
    <2> QED BY <2>1, <2>2, Fewer
  <1>9. ASSUME NEW c, c # b, Reserved(c) PROVE Reserved(c)'
    BY <1>6, <1>8, <1>9, ReservedFacts DEF Reserved
  <1>10. CopyInv'
    BY <1>7, CopySame
  <1>11. UnusedInv'
    BY <1>1, <1>3 DEF UnusedInv, Empty
  <1> QED BY <1>2, <1>6, <1>8, <1>9, <1>10, <1>11 DEF StructureInv

LEMMA EntrySet ==
  ASSUME TypeOK, NEW t \in Blocks, NEW e \in Entries, NEW b
  PROVE  \A u \in 0 .. NBlocks, k \in Entries :
           [disk EXCEPT ![t][e] = b][u][k] = IF u = t /\ k = e THEN b ELSE disk[u][k]
  <1>1. disk \in [0 .. NBlocks -> [Entries -> Word]]
    BY DEF TypeOK, Block, Entries
  <1> QED BY <1>1

(* The entries that ext2_write_block_to_inode sets are entries of tables.  *)
LEMMA EntriesKeepShape ==
  ASSUME DiskInv, WriteIndex \/ LinkInTable
  PROVE  ShapeInv'
  <1>1. call.off \in Nat /\ At \in Nat
    <2>1. call.off \in Nat
      BY Geometry DEF DiskInv, TypeOK
    <2> QED BY <2>1, Place
  <1>2. /\ Running /\ Running' /\ Target' = Target /\ inode' = inode /\ cur' = cur
        /\ ~Unzeroed /\ ~Unzeroed' /\ inodeUsed' = inodeUsed /\ blockUsed' = blockUsed
        /\ blk' = blk /\ call' = call /\ At' = At
    BY DEF WriteIndex, LinkInTable, Running, Unzeroed, Linked, Target, At
  <1>3. CASE WriteIndex
    <2>1. /\ Reserved(blk) /\ Reserved(tab) /\ tab # blk /\ Direct + Words <= At /\ At < MaxBlocks
          /\ cur.slot[Double] # 0 /\ \A k \in Entries : disk[tab][k] = 0
      BY <1>3 DEF WriteIndex, DiskInv, ReservedInv
    <2>2. /\ cur.slot[Double] \in Blocks
          /\ IsTable(Links, disk, inodeUsed, cur.slot[Double])
      BY <1>2, <2>1, UpperTable
    <2>3. IndexAt \in Entries
      BY <1>1, <2>1, Place
    <2>4. /\ StructureInv' /\ CopyInv' /\ UnusedInv'
          /\ \A c : c # tab /\ Reserved(c) => Reserved(c)'
      <3>1. \A u \in 0 .. NBlocks, k \in Entries :
              disk'[u][k] = IF u = cur.slot[Double] /\ k = IndexAt THEN tab ELSE disk[u][k]
        <4>1. disk' = [disk EXCEPT ![cur.slot[Double]][IndexAt] = tab]
          BY <1>3 DEF WriteIndex
        <4>2. TypeOK
          BY DEF DiskInv
        <4>3. PICK t \in Blocks, e \in Entries : t = cur.slot[Double] /\ e = IndexAt
          BY <2>2, <2>3
        <4>4. \A u \in 0 .. NBlocks, k \in Entries :
                [disk EXCEPT ![t][e] = tab][u][k] = IF u = t /\ k = e THEN tab ELSE disk[u][k]
          BY <4>2, EntrySet
        <4> QED BY <4>1, <4>3, <4>4
      <3> QED BY <1>2, <2>1, <2>2, <2>3, <3>1, EntryWritten
    <2>5. Reserved(blk)'
      BY <1>2, <2>1, <2>4 DEF Reserved
    <2>6. ReservedInv'
      BY <1>1, <1>2, <1>3, <2>1, <2>5, Geometry DEF WriteIndex, ReservedInv
    <2> QED BY <2>4, <2>6 DEF ShapeInv
  <1>4. CASE LinkInTable
    <2>1. Reserved(blk) /\ Direct <= At /\ At < MaxBlocks /\ cur.slot[TableSlot] # 0
      BY <1>4 DEF LinkInTable, DiskInv, ReservedInv, NeedsTable
    <2>2. ASSUME NEW t \in Blocks, IsTable(Links, disk, inodeUsed, t),
                 ~DoubleTable(Links, inodeUsed, t), NEW e \in Entries,
                 disk' = [disk EXCEPT ![t][e] = blk]
          PROVE  ShapeInv'
      <3>1. /\ StructureInv' /\ CopyInv' /\ UnusedInv'
            /\ ~IsTable(Links', disk', inodeUsed', blk)
        <4>1. \A u \in 0 .. NBlocks, k \in Entries :
                disk'[u][k] = IF u = t /\ k = e THEN blk ELSE disk[u][k]
          BY <2>2, EntrySet DEF DiskInv
        <4> QED BY <1>2, <2>1, <2>2, <4>1, EntryWritten
      <3>2. ReservedInv'
        BY <1>2, <1>4, <2>1, <3>1, ReservedFacts DEF LinkInTable, Linked, ReservedInv
      <3> QED BY <3>1, <3>2 DEF ShapeInv
    <2>3. CASE At < Direct + Words
      <3>1. TableSlot = Single /\ At - Direct \in Entries
        BY <1>1, <2>1, <2>3, Place
      <3>2. disk' = [disk EXCEPT ![cur.slot[Single]][At - Direct] = blk]
        BY <1>4, <3>1 DEF LinkInTable
      <3>3. /\ cur.slot[Single] \in Blocks
            /\ IsTable(Links, disk, inodeUsed, cur.slot[Single])
            /\ ~DoubleTable(Links, inodeUsed, cur.slot[Single])
        BY <1>2, <2>1, <3>1, SingleTable
      <3> QED BY <2>2, <3>1, <3>2, <3>3
    <2>4. CASE Direct + Words <= At
      <3> DEFINE t == disk[cur.slot[Double]][IndexAt]
                 e == (At - Direct - Words) % Words
      <3>1. TableSlot = Double /\ IndexAt \in Entries /\ e \in Entries /\ Double # Single
        BY <1>1, <2>1, <2>4, Place, Geometry
      <3>2. disk' = [disk EXCEPT ![t][e] = blk]
        BY <1>4, <3>1 DEF LinkInTable
      <3>3. cur.slot[Double] \in Blocks /\ DoubleTable(Links, inodeUsed, cur.slot[Double])
        BY <1>2, <2>1, <3>1, UpperTable
      <3>4. t # 0
        BY <1>4, <2>1, <2>4, <3>1 DEF LinkInTable, NeedsIndex
      <3>5. /\ t \in Blocks /\ IsTable(Links, disk, inodeUsed, t)
            /\ ~DoubleTable(Links, inodeUsed, t)
        BY <3>1, <3>3, <3>4, LowerTable
      <3> HIDE DEF t, e
      <3> QED BY <2>2, <3>1, <3>2, <3>5
    <2> QED BY <1>1, <2>3, <2>4, Geometry
  <1> QED BY <1>3, <1>4

(* Every step of every call keeps the structure.                           *)
LEMMA ShapeKept ==
  ASSUME DiskInv, Next
  PROVE  ShapeInv'
  BY EndsKeepShape, BeginsKeepShape, SaveKeepsShape, TakesKeepShape, MovesKeepShape,
     DataKeepsShape, RecordKeepsShape, DirectKeepsShape, TableKeepsShape, ZeroKeepsShape,
     EntriesKeepShape
  DEF Next, Allocate, Link, Scan, Store

-----------------------------------------------------------------------------
(* The sizes that handles keep                                             *)

(* A handle that was alone knows the size on the disk: whoever writes is   *)
(* that handle, and whoever joins it ends its being alone.                 *)
LEMMA SizesKept ==
  ASSUME DiskInv, SizeInv, Next
  PROVE  SizeInv'
  <1>1. TypeOK /\ CallInv /\ HandleInv /\ RootInv
    BY DEF DiskInv
  <1>2. /\ inode \in [AllInodes -> Inode] /\ Root \in AllInodes
        /\ handle \in [Handles -> [ino : AllInodes, pos : Length, size : Length]]
    BY <1>1 DEF TypeOK, Length, AllInodes
  <1>3. \A g \in Handles : handle[g] # Closed => handle[g].ino \in Inodes /\ handle[g].ino # Root
                                                 /\ handle[g].ino \in AllInodes
    BY <1>1, RootApart DEF HandleInv
  <1>4. ASSUME NEW h \in Handles, NEW n \in Names, Open(h, n) PROVE SizeInv'
    <2> DEFINE i == listing[n]
               others == {g \in Handles : handle[g].ino = i}
    <2>1. /\ handle[h] = Closed /\ i \in Inodes /\ inode' = inode
          /\ handle' = [handle EXCEPT ![h] = [ino |-> i, pos |-> 0, size |-> inode[i].size]]
          /\ shared' = IF others = {} THEN shared \ {h} ELSE shared \cup others \cup {h}
      BY <1>1, <1>4 DEF Open, TypeOK, diskVars
    <2> HIDE DEF i
    <2>2. SUFFICES ASSUME NEW g \in Handles, handle'[g] # Closed, g \notin shared'
                   PROVE  /\ handle'[g].size = inode'[handle'[g].ino].size
                          /\ \A f \in Handles \ {g} : handle'[f].ino # handle'[g].ino
      BY DEF SizeInv
    <2>3. CASE g = h
      <3>1. others = {}
        BY <2>1, <2>2, <2>3
      <3> QED BY <1>2, <2>1, <2>3, <3>1
    <2>4. CASE g # h
      <3>1. handle'[g] = handle[g] /\ g \notin shared /\ handle[g].ino # i
        BY <1>2, <2>1, <2>2, <2>4
      <3>2. /\ handle[g].size = inode[handle[g].ino].size
            /\ \A f \in Handles \ {g} : handle[f].ino # handle[g].ino
        BY <2>2, <3>1 DEF SizeInv
      <3> QED BY <1>2, <2>1, <2>4, <3>1, <3>2
    <2> QED BY <2>3, <2>4
  <1>5. ASSUME NEW h \in Handles, NEW p \in Offsets, Seek(h, p) PROVE SizeInv'
    <2>1. /\ inode' = inode /\ shared' = shared
          /\ \A g \in Handles : handle'[g].ino = handle[g].ino /\ handle'[g].size = handle[g].size
      BY <1>2, <1>5 DEF Seek, diskVars, history
    <2>2. \A g \in Handles : handle'[g] # Closed => handle[g] # Closed
      BY <1>2, <1>5 DEF Seek
    <2> QED BY <2>1, <2>2 DEF SizeInv
  <1>6. ASSUME NEW h \in Handles, Close(h) PROVE SizeInv'
    <2>1. /\ shared' = shared /\ handle'[h] = Closed
          /\ \A g \in Handles \ {h} : handle'[g] = handle[g]
          /\ \A j \in AllInodes : j # handle[h].ino => inode'[j] = inode[j]
      BY <1>2, <1>6 DEF Close, history
    <2>2. SUFFICES ASSUME NEW g \in Handles, handle'[g] # Closed, g \notin shared'
                   PROVE  /\ handle'[g].size = inode'[handle'[g].ino].size
                          /\ \A f \in Handles \ {g} : handle'[f].ino # handle'[g].ino
      BY DEF SizeInv
    <2>3. g # h /\ handle'[g] = handle[g]
      BY <2>1, <2>2
    <2>4. /\ handle[g].size = inode[handle[g].ino].size
          /\ \A f \in Handles \ {g} : handle[f].ino # handle[g].ino
      BY <2>1, <2>2, <2>3 DEF SizeInv
    <2> QED BY <1>3, <2>1, <2>2, <2>3, <2>4, RootApart
  <1>7. CASE Crash
    BY <1>7 DEF Crash, SizeInv
  <1>8. CASE WriteRecord
    <2>1. /\ handle' = handle /\ shared' = shared
          /\ \A g \in Handles : handle[g].ino # call.ino
          /\ \A j \in AllInodes : j # call.ino => inode'[j] = inode[j]
      BY <1>1, <1>2, <1>8 DEF WriteRecord, CallInv, Running, Growing, history
    <2> QED BY <1>3, <2>1 DEF SizeInv
  <1>9. CASE SaveInode
    <2>1. /\ call.ino \in Inodes /\ call.ino \in AllInodes /\ call.ino # Root
          /\ call.op \in {"create", "mkdir", "write"} /\ Running
      BY <1>1, <1>9, RootApart DEF SaveInode, CallInv, Running
    <2>2. CASE call.op = "write"
      <3>1. /\ handle' = [handle EXCEPT ![call.h].pos = call.off, ![call.h].size = cur.size]
            /\ inode' = [inode EXCEPT ![call.ino] = cur] /\ shared' = shared
            /\ call.h \in Handles /\ handle[call.h].ino = call.ino
        BY <1>1, <1>9, <2>1, <2>2 DEF SaveInode, CallInv
      <3>2. /\ \A g \in Handles : handle'[g].ino = handle[g].ino
            /\ \A g \in Handles \ {call.h} : handle'[g] = handle[g]
            /\ handle'[call.h].size = cur.size
        BY <1>2, <3>1
      <3>3. handle[call.h] # Closed
        BY <2>1, <3>1, RootApart
      <3>4. SUFFICES ASSUME NEW g \in Handles, handle'[g] # Closed, g \notin shared'
                     PROVE  /\ handle'[g].size = inode'[handle'[g].ino].size
                            /\ \A f \in Handles \ {g} : handle'[f].ino # handle'[g].ino
        BY DEF SizeInv
      <3>5. handle[g] # Closed
        BY <3>2, <3>3, <3>4
      <3>6. /\ handle[g].size = inode[handle[g].ino].size
            /\ \A f \in Handles \ {g} : handle[f].ino # handle[g].ino
        BY <3>1, <3>4, <3>5 DEF SizeInv
      <3>7. CASE g = call.h
        BY <1>2, <2>1, <3>1, <3>2, <3>6, <3>7
      <3>8. CASE g # call.h
        <4>1. handle[g].ino # call.ino /\ handle[g].ino \in AllInodes
          BY <1>3, <3>1, <3>5, <3>6, <3>8
        <4> QED BY <1>2, <3>1, <3>2, <3>6, <3>8, <4>1
      <3> QED BY <3>7, <3>8
    <2>3. CASE call.op = "mkdir"
      <3>1. /\ handle' = handle /\ shared' = shared
            /\ \A j \in AllInodes : j # Root => inode'[j] = inode[j]
        BY <1>2, <1>9, <2>3 DEF SaveInode
      <3> QED BY <1>3, <3>1 DEF SizeInv
    <2>4. CASE call.op = "create"
      <3>1. /\ handle' = [handle EXCEPT ![call.h] = [ino |-> call.ino, pos |-> 0, size |-> 0]]
            /\ shared' = shared \ {call.h} /\ call.h \in Handles
            /\ \A j \in AllInodes : j # Root => inode'[j] = inode[j]
            /\ inode[call.ino].size = 0 /\ \A g \in Handles : handle[g].ino # call.ino
        BY <1>1, <1>2, <1>9, <2>1, <2>4 DEF SaveInode, CallInv, Growing
      <3>2. /\ handle'[call.h].ino = call.ino /\ handle'[call.h].size = 0
            /\ \A g \in Handles \ {call.h} : handle'[g] = handle[g]
        BY <1>2, <3>1
      <3>3. SUFFICES ASSUME NEW g \in Handles, handle'[g] # Closed, g \notin shared'
                     PROVE  /\ handle'[g].size = inode'[handle'[g].ino].size
                            /\ \A f \in Handles \ {g} : handle'[f].ino # handle'[g].ino
        BY DEF SizeInv
      <3>4. CASE g = call.h
        BY <2>1, <3>1, <3>2, <3>4
      <3>5. CASE g # call.h
        <4>1. /\ handle[g].size = inode[handle[g].ino].size
              /\ \A f \in Handles \ {g} : handle[f].ino # handle[g].ino
              /\ handle[g].ino # Root /\ handle[g].ino \in AllInodes
          BY <1>3, <3>1, <3>2, <3>3, <3>5 DEF SizeInv
        <4> QED BY <3>1, <3>2, <3>5, <4>1
      <3> QED BY <3>4, <3>5
    <2> QED BY <2>1, <2>2, <2>3, <2>4
  <1>10. UNCHANGED <<handle, inode, shared>> => SizeInv'
    BY DEF SizeInv
  <1> QED
    BY <1>4, <1>5, <1>6, <1>7, <1>8, <1>9, <1>10
    DEF Next, Allocate, Link, Scan, Store, LookupHangs, Create, Mkdir, TakeInode, BeginWrite,
        TakeDirBlock, NoDirBlock, TakeBlock, NoBlock, GiveUp, LinkDirect, TakeTable, ZeroTable,
        WriteIndex, LinkInTable, LinkFails, ScanDuplicate, ScanFindsRoom, ScanHangs, WriteDots,
        NextBlock, WriteWords, ClearBlock, EnterName, diskVars, history

-----------------------------------------------------------------------------
(* The invariant of the specification                                      *)

(* Only the root leads to a block when the disk is new: to block 1.        *)
LEMMA DiskStarts ==
  ASSUME Init
  PROVE  DiskInv /\ SizeInv
  <1>1. /\ ~Running /\ pc = "idle" /\ 1 \in Blocks /\ 0 \in Slots /\ 0 # Single /\ 0 # Double
        /\ Single \in Slots /\ Double \in Slots
    BY Geometry, Ext2Assumption DEF Init, Running, Blocks, Slots, Single, Double
  <1>2. \A i \in AllInodes, s \in Slots :
          inode[i].slot[s] = IF i = Root /\ s = 0 THEN 1 ELSE 0
    BY <1>1 DEF Init, DirInode, EmptyInode, AllInodes, Slots
  <1>3. \A i \in AllInodes, s \in Slots : Links[i][s] = IF i = Root /\ s = 0 THEN 1 ELSE 0
    BY <1>1, <1>2, LinkValues
  <1>4. inodeUsed \subseteq AllInodes /\ Root \in inodeUsed
    BY Ext2Assumption DEF Init, AllInodes
  <1>5. \A b : ~IsTable(Links, disk, inodeUsed, b)
    <2>1. \A i \in inodeUsed : Links[i][Single] = 0 /\ Links[i][Double] = 0
      BY <1>1, <1>3, <1>4
    <2>2. \A b : ~DoubleTable(Links, inodeUsed, b)
      BY <2>1 DEF DoubleTable
    <2> QED BY <2>1, <2>2 DEF IsTable
  <1>6. StructureInv
    <2>1. SlotsMarked(Links, inodeUsed, blockUsed) /\ SlotsApart(Links, inodeUsed)
      BY <1>3, <1>4 DEF SlotsMarked, SlotsApart, Init
    <2> QED
      BY <1>5, <2>1
      DEF StructureInv, Sound, EntriesMarked, SlotsAndEntriesApart, EntriesApart
  <1>7. UnusedInv
    <2>1. \A k \in Entries : disk[0][k] = 0
      BY Ext2Assumption DEF Init, Zeros, Entries
    <2>2. \A i \in Inodes : Empty(i)
      BY <1>2, RootApart DEF Empty
    <2> QED BY <2>1, <2>2 DEF UnusedInv
  <1>8. CopyInv /\ CallInv /\ ReservedInv /\ BoundInv
    BY <1>1 DEF CopyInv, CallInv, ReservedInv, BoundInv, Growing
  <1>9. RootInv
    BY <1>1, <1>4 DEF RootInv, Growing, Init, AllInodes
  <1>10. \A h \in Handles : handle[h] = Closed
    BY DEF Init
  <1>11. HandleInv /\ SizeInv
    BY <1>10 DEF HandleInv, SizeInv, Init
  <1>12. TypeOK
    <2>1. CallTypes
      BY Records DEF Init, CallTypes
    <2>2. DiskTypes
      <3>1. inode \in [AllInodes -> Inode]
        BY <1>1, Records DEF Init, AllInodes
      <3>2. disk \in [0 .. NBlocks -> Block]
        BY Ext2Assumption DEF Init, Zeros, Block, Word
      <3>3. listing \in [DOMAIN listing -> Inodes] /\ DOMAIN listing \subseteq Names
            /\ roomy \in BOOLEAN
        BY Ext2Assumption DEF Init
      <3> QED BY <1>1, <1>4, <3>1, <3>2, <3>3 DEF Init, DiskTypes, AllInodes
    <2>3. RestTypes
      <3>1. handle \in [Handles -> [ino : AllInodes, pos : Length, size : Length]]
        BY Records DEF Init, Closed, AllInodes
      <3>2. written \in [Inodes -> [0 .. MaxBlocks * Words - 1 -> Values \cup {Junk}]]
        BY DEF Init
      <3> QED BY <1>1, <3>1, <3>2, Ext2Assumption DEF Init, RestTypes, AllInodes
    <2> QED BY <2>1, <2>2, <2>3, TypeParts
  <1> QED BY <1>6, <1>7, <1>8, <1>9, <1>11, <1>12 DEF DiskInv

(* The invariant is inductive.                                             *)
LEMMA DiskKept ==
  ASSUME DiskInv, [Next]_vars
  PROVE  DiskInv'
  <1>1. CASE Next
    BY <1>1, TypesKept, ShapeKept, CallKept, BoundsKept, RootKept, HandlesKept
    DEF DiskInv, ShapeInv
  <1>2. CASE UNCHANGED vars
    <2>1. /\ UNCHANGED <<blockUsed, inodeUsed, inode, disk, listing, roomy>>
          /\ UNCHANGED <<handle, pc, call, cur, blk, tab, written, created, shared>>
      BY <1>2 DEF vars, diskVars, history
    <2>2. TypeOK' <=> TypeOK
      BY <2>1 DEF TypeOK
    <2>3. /\ Running' <=> Running
          /\ Growing' <=> Growing
          /\ Target' = Target /\ At' = At /\ TableSlot' = TableSlot
          /\ Unzeroed' <=> Unzeroed
      BY <2>1 DEF Running, Growing, Target, At, TableSlot, Unzeroed
    <2>4. Links' = Links
      BY <2>1, <2>3 DEF Links, Working
    <2>5. StructureInv' <=> StructureInv
      BY <2>1, <2>4 DEF StructureInv
    <2>6. CopyInv' <=> CopyInv
      BY <2>1, <2>3, <2>4 DEF CopyInv
    <2>7. UnusedInv' <=> UnusedInv
      BY <2>1 DEF UnusedInv, Empty
    <2>8. CallInv' <=> CallInv
      BY <2>1, <2>3 DEF CallInv, Empty
    <2>9. ReservedInv' <=> ReservedInv
      BY <2>1, <2>3, <2>4 DEF ReservedInv, Reserved
    <2>10. (BoundInv' <=> BoundInv) /\ (RootInv' <=> RootInv) /\ (HandleInv' <=> HandleInv)
      BY <2>1, <2>3 DEF BoundInv, RootInv, HandleInv, ScanNeverEnds
    <2> QED BY <2>2, <2>5, <2>6, <2>7, <2>8, <2>9, <2>10 DEF DiskInv
  <1> QED BY <1>1, <1>2

(* What the disk alone says is less than what the running call sees.       *)
LEMMA SavedSound ==
  ASSUME DiskInv
  PROVE  Sound(Saved, disk, inodeUsed, blockUsed)
  <1>1. \A i \in inodeUsed, s \in Slots :
          Saved[i][s] = 0 \/ (i \in inodeUsed /\ Saved[i][s] = Links[i][s])
    <2> SUFFICES ASSUME NEW i \in inodeUsed, NEW s \in Slots, Saved[i][s] # 0
                 PROVE  Saved[i][s] = Links[i][s]
      OBVIOUS
    <2>1. i \in AllInodes /\ Saved[i][s] = inode[i].slot[s]
      BY DEF DiskInv, TypeOK, Saved, AllInodes
    <2>2. CASE Running /\ i = Target
      BY <2>1, <2>2 DEF DiskInv, CopyInv
    <2>3. CASE ~(Running /\ i = Target)
      BY <2>1, <2>3, LinkValues
    <2> QED BY <2>2, <2>3
  <1> QED BY <1>1, Fewer DEF DiskInv, StructureInv

(* A pointer is a slot of an inode in use or an entry of a table.          *)
LEMMA PointerForms ==
  ASSUME DiskInv, NEW q \in Pointers
  PROVE  /\ q.to # 0
         /\ \/ \E i \in inodeUsed, s \in Slots :
                 q = [from |-> "inode", at |-> i, k |-> s, to |-> Saved[i][s]]
            \/ \E b \in Blocks, k \in Entries :
                 /\ IsTable(Saved, disk, inodeUsed, b)
                 /\ q = [from |-> "table", at |-> b, k |-> k, to |-> disk[b][k]]
  <1>1. \A i \in inodeUsed : i \in AllInodes /\ Saved[i] = inode[i].slot
    BY DEF DiskInv, TypeOK, Saved, AllInodes
  <1>2. \A i \in inodeUsed, s \in Slots : inode[i].slot[s] # 0 => inode[i].slot[s] \in Blocks
    BY <1>1, SavedSound DEF Sound, SlotsMarked, DiskInv, TypeOK
  <1>3. Single \in Slots /\ Double \in Slots
    BY Geometry
  <1>4. \A b \in DoubleTables :
          b \in Blocks /\ DoubleTable(Saved, inodeUsed, b) /\ IsTable(Saved, disk, inodeUsed, b)
    BY <1>1, <1>2, <1>3 DEF DoubleTables, DoubleTable, IsTable
  <1>5. \A b \in DoubleTables, k \in Entries : disk[b][k] # 0 => disk[b][k] \in Blocks
    BY <1>4, SavedSound DEF Sound, EntriesMarked, DiskInv, TypeOK
  <1>6. \A b \in Tables \ {0} : b \in Blocks /\ IsTable(Saved, disk, inodeUsed, b)
    <2> SUFFICES ASSUME NEW b \in Tables, b # 0
                 PROVE  b \in Blocks /\ IsTable(Saved, disk, inodeUsed, b)
      OBVIOUS
    <2>1. CASE b \in {inode[i].slot[Single] : i \in inodeUsed}
      BY <1>1, <1>2, <1>3, <2>1 DEF IsTable
    <2>2. CASE b \in DoubleTables
      BY <1>4, <2>2
    <2>3. CASE b \in {disk[d][k] : d \in DoubleTables, k \in Entries}
      BY <1>4, <1>5, <2>3 DEF IsTable
    <2> QED BY <2>1, <2>2, <2>3 DEF Tables
  <1>7. q.to # 0
    BY DEF Pointers
  <1>8. CASE q \in {[from |-> "inode", at |-> i, k |-> s, to |-> inode[i].slot[s]] :
                      i \in inodeUsed, s \in 0 .. Double}
    BY <1>1, <1>7, <1>8 DEF Slots
  <1>9. CASE q \in {[from |-> "table", at |-> b, k |-> k, to |-> disk[b][k]] :
                      b \in Tables \ {0}, k \in Entries}
    BY <1>6, <1>7, <1>9
  <1> QED BY <1>8, <1>9 DEF Pointers

(* The two properties of the disk follow.                                  *)
LEMMA MarkedFollows ==
  ASSUME DiskInv
  PROVE  LinkedBlocksMarked
  <1> SUFFICES ASSUME NEW q \in Pointers
               PROVE  q.to \in blockUsed
    BY DEF LinkedBlocksMarked
  <1>1. /\ SlotsMarked(Saved, inodeUsed, blockUsed)
        /\ EntriesMarked(Saved, disk, inodeUsed, blockUsed)
    BY SavedSound DEF Sound
  <1> QED BY <1>1, PointerForms DEF SlotsMarked, EntriesMarked

LEMMA ApartFollows ==
  ASSUME DiskInv
  PROVE  NoSharedBlock
  <1> SUFFICES ASSUME NEW q \in Pointers, NEW r \in Pointers, q.to = r.to
               PROVE  q = r
    BY DEF NoSharedBlock
  <1> DEFINE Slot(p) == \E i \in inodeUsed, s \in Slots :
                          p = [from |-> "inode", at |-> i, k |-> s, to |-> Saved[i][s]]
             Entry(p) == \E b \in Blocks, k \in Entries :
                           /\ IsTable(Saved, disk, inodeUsed, b)
                           /\ p = [from |-> "table", at |-> b, k |-> k, to |-> disk[b][k]]
  <1>1. /\ SlotsApart(Saved, inodeUsed) /\ SlotsAndEntriesApart(Saved, disk, inodeUsed)
        /\ EntriesApart(Saved, disk, inodeUsed)
    BY SavedSound DEF Sound
  <1>2. q.to # 0 /\ (Slot(q) \/ Entry(q)) /\ (Slot(r) \/ Entry(r))
    BY PointerForms
  <1>3. CASE Slot(q) /\ Slot(r)
    BY <1>1, <1>2, <1>3 DEF SlotsApart
  <1>4. CASE Slot(q) /\ Entry(r)
    BY <1>1, <1>2, <1>4 DEF SlotsAndEntriesApart
  <1>5. CASE Entry(q) /\ Slot(r)
    BY <1>1, <1>2, <1>5 DEF SlotsAndEntriesApart
  <1>6. CASE Entry(q) /\ Entry(r)
    BY <1>1, <1>2, <1>6 DEF EntriesApart
  <1> QED BY <1>2, <1>3, <1>4, <1>5, <1>6

-----------------------------------------------------------------------------
(* The theorems                                                            *)

(* So it always holds.                                                     *)
LEMMA DiskAlways == Spec => [](DiskInv /\ SizeInv)
  <1>1. Init => DiskInv /\ SizeInv
    BY DiskStarts
  <1>2. (DiskInv /\ SizeInv) /\ [Next]_vars => (DiskInv /\ SizeInv)'
    <2> SUFFICES ASSUME DiskInv, SizeInv, [Next]_vars
                 PROVE  SizeInv'
      BY DiskKept
    <2>1. CASE Next
      BY <2>1, SizesKept
    <2>2. CASE UNCHANGED vars
      BY <2>2 DEF vars, diskVars, history, SizeInv
    <2> QED BY <2>1, <2>2
  <1> QED BY <1>1, <1>2, PTL DEF Spec

(* Every variable of the file system keeps its type: no call computes a    *)
(* block number, a size or a position outside the disk or the largest      *)
(* file, whatever order the calls come in (ext2_write, ext2_create,        *)
(* ext2_mkdir, ext2_lseek, ext2_close).                                    *)
THEOREM FileTypes == Spec => []TypeOK
  <1>1. DiskInv => TypeOK
    BY DEF DiskInv
  <1> QED BY <1>1, DiskAlways, PTL

(* On a disk of any size, at every moment the power may go: whatever block *)
(* an inode in use leads to, through any table, is marked in the bitmap    *)
(* (ext2_alloc_block writes the bitmap before ext2_write_block_to_inode    *)
(* links the block, and the inode is written last).                        *)
THEOREM LinkedStayMarked == Spec => []LinkedBlocksMarked
  <1>1. DiskInv => LinkedBlocksMarked
    BY MarkedFollows
  <1> QED BY <1>1, DiskAlways, PTL

(* And no block is ever reached from two places, neither after failed      *)
(* calls of ext2_write, ext2_create and ext2_mkdir nor after crashes.      *)
THEOREM NoneShared == Spec => []NoSharedBlock
  <1>1. DiskInv => NoSharedBlock
    BY ApartFollows
  <1> QED BY <1>1, DiskAlways, PTL

(* A handle that was always alone on its file knows the size the disk has, *)
(* so that the size ext2_close writes back cuts nothing off.               *)
THEOREM LoneCloseKeeps == Spec => []LoneCloseKeepsSize
  <1>1. SizeInv => LoneCloseKeepsSize
    BY DEF SizeInv, LoneCloseKeepsSize
  <1> QED BY <1>1, DiskAlways, PTL
=============================================================================
