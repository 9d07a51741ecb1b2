------------------------- MODULE Ext2ContentsProofs -------------------------
(***************************************************************************)
(* What ext2.c keeps of the files' contents: a word within a file's size   *)
(* is the last one written there, on disks of any size and with a crash    *)
(* after any write.                                                        *)
(*                                                                         *)
(* Sizes are not enough for an inductive invariant.  A handle that is      *)
(* closed writes back an old size, so that another one may be positioned   *)
(* behind the end and write there: what lies between was not lost, for     *)
(* blocks are never taken from a file.  So the invariant is about all      *)
(* positions that some size or some handle still speaks of (Claimed).      *)
(***************************************************************************)
EXTENDS Ext2Proofs

(* The block that the slots sl lead to, for block number n of a file, when *)
(* the disk's contents are D: BlockAt without the inode around it.         *)
Reach(sl, D, n) ==
  IF n < Direct THEN sl[n]
  ELSE IF n < Direct + Words
    THEN IF sl[Single] = 0 THEN 0 ELSE D[sl[Single]][n - Direct]
  ELSE IF n < MaxBlocks /\ sl[Double] # 0
    THEN D[D[sl[Double]][(n - Direct - Words) \div Words]][(n - Direct - Words) % Words]
  ELSE 0

Positions == 0 .. MaxBlocks * Words - 1
Files == {i \in Inodes : i \in inodeUsed /\ ~inode[i].dir}

(* What the disk has at position p of file i is what was last written.     *)
Good(sl, D, W, i, p) ==
  /\ Reach(sl, D, p \div Words) # 0
  /\ D[Reach(sl, D, p \div Words)][p % Words] = W[i][p]

(* Positions that a size on the disk, or a handle, says are there.         *)
Claimed(i, p) ==
  \/ p < inode[i].size
  \/ \E h \in Handles : handle[h].ino = i /\ (p < handle[h].pos \/ p < handle[h].size)

ContentsInv ==
  \A i \in Files, p \in Positions : Claimed(i, p) => Good(inode[i].slot, disk, written, i, p)

WriteInv ==
  Running /\ call.op = "write" /\ ~inode[call.ino].dir =>
    \A p \in Positions : p < cur.size \/ p < call.off
                           => Good(Links[call.ino], disk, written, call.ino, p)

PlaceInv ==
  /\ pc \in {"link", "zero", "index"} => Reach(Links[Target], disk, At) = 0
  /\ pc = "zero" /\ ~Unzeroed => disk[cur.slot[Double]][IndexAt] = 0
  /\ pc = "index" => disk[cur.slot[Double]][IndexAt] = 0
  /\ pc \in {"data", "clear"} => Reach(Links[Target], disk, At) = blk
  /\ pc = "dots" => inode[call.ino].dir /\ inode[call.ino].slot[0] = blk

KindInv ==
  /\ inode[Root].dir
  /\ Running => cur.dir = inode[Target].dir
  /\ \A i \in Inodes : i \notin inodeUsed => inode[i].size = 0
  /\ pc \in {"dirblock", "record"} => inode[call.ino].size = 0

LeafInv == ContentsInv /\ WriteInv /\ PlaceInv /\ KindInv

-----------------------------------------------------------------------------
(* Which blocks are reached                                                *)

LEMMA ReachIsBlockAt ==
  ASSUME NEW in, NEW n
  PROVE  BlockAt(in, n) = Reach(in.slot, disk, n)
  BY DEF BlockAt, Reach

(* The three parts of the block numbers of a file.                         *)
LEMMA Parts ==
  ASSUME NEW n \in Nat
  PROVE  /\ n < Direct => n \in Slots /\ n # Single /\ n # Double
         /\ Direct <= n /\ n < Direct + Words => n - Direct \in Entries
         /\ Direct + Words <= n /\ n < MaxBlocks
              => /\ (n - Direct - Words) \div Words \in Entries
                 /\ (n - Direct - Words) % Words \in Entries
                 /\ n = Direct + Words + Words * ((n - Direct - Words) \div Words)
                           + ((n - Direct - Words) % Words)
  <1>1. Direct \in Nat /\ Words \in Nat /\ Words >= 2 /\ MaxBlocks = Direct + Words + Words * Words
    BY Geometry
  <1>2. n < Direct => n \in Slots /\ n # Single /\ n # Double
    BY <1>1 DEF Slots, Single, Double
  <1>3. Direct <= n /\ n < Direct + Words => n - Direct \in Entries
    BY <1>1 DEF Entries
  <1>4. ASSUME Direct + Words <= n, n < MaxBlocks
        PROVE  /\ (n - Direct - Words) \div Words \in Entries
               /\ (n - Direct - Words) % Words \in Entries
               /\ n = Direct + Words + Words * ((n - Direct - Words) \div Words)
                         + ((n - Direct - Words) % Words)
    <2> DEFINE k == n - Direct - Words
    <2>1. k \in Nat /\ k < Words * Words
      BY <1>1, <1>4
    <2>2. k \div Words \in Nat /\ k % Words \in Entries /\ k = Words * (k \div Words) + (k % Words)
          /\ (k < Words * Words <=> k \div Words < Words)
      <3> HIDE DEF k
      <3> QED BY <1>1, <2>1, Quotient
    <2>3. k \div Words \in Entries
      BY <1>1, <2>1, <2>2 DEF Entries
    <2>4. n = Direct + Words + k
      BY <1>1
    <2>5. Words * (k \div Words) \in Nat /\ k % Words \in Nat
      <3> HIDE DEF k
      <3> QED BY <1>1, <2>2 DEF Entries
    <2>6. n = Direct + Words + Words * (k \div Words) + (k % Words)
      <3> HIDE DEF k
      <3> QED BY <1>1, <2>2, <2>4, <2>5
    <2> QED BY <2>2, <2>3, <2>6
  <1> QED BY <1>2, <1>3, <1>4

Upper(n) == (n - Direct - Words) \div Words
Lower(n) == (n - Direct - Words) % Words

(* A block that is reached is reached from a slot, from an entry of the    *)
(* single table, or from one of a table below the double one.              *)
LEMMA Ways ==
  ASSUME NEW L, NEW D, NEW U, NEW B, Sound(L, D, U, B), B \subseteq Blocks,
         \A k \in Entries : D[0][k] = 0,
         NEW i \in U, NEW n \in Nat, Reach(L[i], D, n) # 0
  PROVE  \/ /\ n < Direct
            /\ Reach(L[i], D, n) = L[i][n]
         \/ /\ Direct <= n /\ n < Direct + Words
            /\ L[i][Single] \in Blocks /\ IsTable(L, D, U, L[i][Single])
            /\ ~DoubleTable(L, U, L[i][Single])
            /\ Reach(L[i], D, n) = D[L[i][Single]][n - Direct]
         \/ /\ Direct + Words <= n /\ n < MaxBlocks
            /\ L[i][Double] \in Blocks /\ DoubleTable(L, U, L[i][Double])
            /\ IsTable(L, D, U, L[i][Double])
            /\ D[L[i][Double]][Upper(n)] \in Blocks
            /\ IsTable(L, D, U, D[L[i][Double]][Upper(n)])
            /\ ~DoubleTable(L, U, D[L[i][Double]][Upper(n)])
            /\ Reach(L[i], D, n) = D[D[L[i][Double]][Upper(n)]][Lower(n)]
  <1>1. Direct \in Nat /\ Words \in Nat /\ Single \in Slots /\ Double \in Slots /\ 0 \notin Blocks
    BY Geometry DEF Blocks
  <1>2. SlotsMarked(L, U, B) /\ EntriesMarked(L, D, U, B)
    BY DEF Sound
  <1>3. CASE n < Direct
    BY <1>3 DEF Reach
  <1>4. CASE Direct <= n /\ n < Direct + Words
    <2>1. L[i][Single] # 0 /\ Reach(L[i], D, n) = D[L[i][Single]][n - Direct]
      BY <1>1, <1>4 DEF Reach
    <2>2. L[i][Single] \in Blocks /\ IsTable(L, D, U, L[i][Single])
      BY <1>1, <1>2, <2>1 DEF SlotsMarked, IsTable
    <2>3. ~DoubleTable(L, U, L[i][Single])
      BY SingleIsNotDouble
    <2> QED BY <1>4, <2>1, <2>2, <2>3
  <1>5. CASE Direct + Words <= n
    <2>1. /\ n < MaxBlocks /\ L[i][Double] # 0
          /\ Reach(L[i], D, n) = D[D[L[i][Double]][Upper(n)]][Lower(n)]
      BY <1>1, <1>5 DEF Reach, Upper, Lower
    <2>2. Upper(n) \in Entries /\ Lower(n) \in Entries
      BY <1>5, <2>1, Parts DEF Upper, Lower
    <2>3. /\ L[i][Double] \in Blocks /\ DoubleTable(L, U, L[i][Double])
          /\ IsTable(L, D, U, L[i][Double])
      BY <1>1, <1>2, <2>1 DEF SlotsMarked, IsTable, DoubleTable
    <2>4. D[L[i][Double]][Upper(n)] # 0
      BY <2>1, <2>2
    <2>5. D[L[i][Double]][Upper(n)] \in Blocks
      BY <1>2, <2>2, <2>3, <2>4 DEF EntriesMarked
    <2>6. IsTable(L, D, U, D[L[i][Double]][Upper(n)])
      BY <2>2, <2>3, <2>4 DEF IsTable
    <2>7. ~DoubleTable(L, U, D[L[i][Double]][Upper(n)])
      BY <2>2, <2>3, LowerIsNotDouble
    <2> QED BY <1>5, <2>1, <2>3, <2>5, <2>6, <2>7
  <1> QED BY <1>1, <1>3, <1>4, <1>5

(* What is reached is a marked block with data, ...                        *)
LEMMA LeafIsData ==
  ASSUME NEW L, NEW D, NEW U, NEW B, Sound(L, D, U, B), B \subseteq Blocks,
         \A k \in Entries : D[0][k] = 0,
         NEW i \in U, NEW n \in Nat, Reach(L[i], D, n) # 0
  PROVE  /\ Reach(L[i], D, n) \in B /\ Reach(L[i], D, n) \in Blocks
         /\ ~IsTable(L, D, U, Reach(L[i], D, n))
         /\ \A b : NotReached(L, D, U, b) => Reach(L[i], D, n) # b
  <1> DEFINE r == Reach(L[i], D, n)
  <1>1. SlotsMarked(L, U, B) /\ EntriesMarked(L, D, U, B)
    BY DEF Sound
  <1>2. CASE n < Direct /\ r = L[i][n]
    <2>1. n \in 0 .. Direct - 1 /\ n \in Slots
      BY <1>2, Parts, Geometry
    <2> QED BY <1>1, <1>2, <2>1, DirectIsData DEF SlotsMarked, NotReached
  <1>3. ASSUME NEW t \in Blocks, NEW k \in Entries, IsTable(L, D, U, t), ~DoubleTable(L, U, t),
               r = D[t][k]
        PROVE  /\ r \in B /\ ~IsTable(L, D, U, r)
               /\ \A b : NotReached(L, D, U, b) => r # b
    BY <1>1, <1>3, EntryIsData DEF EntriesMarked, NotReached
  <1> QED BY <1>2, <1>3, Ways, Parts DEF Upper, Lower

(* ... and is reached in one way only.                                     *)
LEMMA OneWay ==
  ASSUME NEW L, NEW D, NEW U, NEW B, Sound(L, D, U, B), B \subseteq Blocks,
         \A k \in Entries : D[0][k] = 0,
         NEW i \in U, NEW n \in Nat, Reach(L[i], D, n) # 0,
         NEW j \in U, NEW m \in Nat, Reach(L[j], D, m) = Reach(L[i], D, n)
  PROVE  i = j /\ n = m
  <1>1. /\ Direct \in Nat /\ Words \in Nat /\ Single \in Slots /\ Double \in Slots
        /\ Single # Double /\ 0 \notin Blocks
    BY Geometry DEF Blocks
  <1>2. SlotsApart(L, U) /\ SlotsAndEntriesApart(L, D, U) /\ EntriesApart(L, D, U)
    BY DEF Sound
  <1> DEFINE Slot(x, q) == q < Direct /\ q \in Slots /\ Reach(L[x], D, q) = L[x][q]
             First1(x, q) == /\ Direct <= q /\ q < Direct + Words /\ q - Direct \in Entries
                             /\ L[x][Single] \in Blocks /\ IsTable(L, D, U, L[x][Single])
                             /\ Reach(L[x], D, q) = D[L[x][Single]][q - Direct]
             Second(x, q) == /\ Upper(q) \in Entries /\ Lower(q) \in Entries
                             /\ q = Direct + Words + Words * Upper(q) + Lower(q)
                             /\ L[x][Double] \in Blocks /\ IsTable(L, D, U, L[x][Double])
                             /\ D[L[x][Double]][Upper(q)] \in Blocks
                             /\ IsTable(L, D, U, D[L[x][Double]][Upper(q)])
                             /\ Reach(L[x], D, q) = D[D[L[x][Double]][Upper(q)]][Lower(q)]
  <1>3. (Slot(i, n) \/ First1(i, n) \/ Second(i, n)) /\ (Slot(j, m) \/ First1(j, m) \/ Second(j, m))
    BY Ways, Parts DEF Upper, Lower
  <1>4. CASE Slot(i, n) /\ Slot(j, m)
    BY <1>2, <1>4 DEF SlotsApart
  <1>5. CASE (Slot(i, n) /\ First1(j, m)) \/ (Slot(j, m) /\ First1(i, n))
    BY <1>2, <1>5 DEF SlotsAndEntriesApart
  <1>6. CASE (Slot(i, n) /\ Second(j, m)) \/ (Slot(j, m) /\ Second(i, n))
    BY <1>2, <1>6 DEF SlotsAndEntriesApart
  <1>7. CASE First1(i, n) /\ First1(j, m)
    <2>1. L[i][Single] = L[j][Single] /\ n - Direct = m - Direct
      BY <1>2, <1>7 DEF EntriesApart
    <2> QED BY <1>1, <1>2, <2>1, <1>7 DEF SlotsApart
  <1>8. CASE (First1(i, n) /\ Second(j, m)) \/ (First1(j, m) /\ Second(i, n))
    <2>1. ASSUME NEW x \in U, NEW y \in U, NEW q \in Nat, NEW r \in Nat,
                 First1(x, q), Second(y, r), Reach(L[x], D, q) = Reach(L[y], D, r),
                 Reach(L[x], D, q) # 0
          PROVE  FALSE
      <3> DEFINE t == L[x][Single]
                 u == D[L[y][Double]][Upper(r)]
      <3>1. /\ t \in Blocks /\ u \in Blocks /\ IsTable(L, D, U, t) /\ IsTable(L, D, U, u)
            /\ q - Direct \in Entries /\ Lower(r) \in Entries /\ Upper(r) \in Entries
            /\ D[t][q - Direct] # 0 /\ D[t][q - Direct] = D[u][Lower(r)]
            /\ L[y][Double] \in Blocks /\ IsTable(L, D, U, L[y][Double])
        BY <2>1
      <3>2. t = u
        <4> HIDE DEF t, u
        <4> QED BY <1>2, <3>1 DEF EntriesApart
      <3> QED BY <1>1, <1>2, <3>1, <3>2 DEF SlotsAndEntriesApart
    <2> QED BY <1>8, <2>1
  <1>9. CASE Second(i, n) /\ Second(j, m)
    <2>1. /\ D[L[i][Double]][Upper(n)] = D[L[j][Double]][Upper(m)]
          /\ Lower(n) = Lower(m)
      BY <1>2, <1>9 DEF EntriesApart
    <2>2. D[L[i][Double]][Upper(n)] # 0
      BY <1>1, <1>9
    <2>3. L[i][Double] = L[j][Double] /\ Upper(n) = Upper(m)
      BY <1>2, <1>9, <2>1, <2>2 DEF EntriesApart
    <2>4. i = j
      BY <1>1, <1>2, <1>9, <2>3 DEF SlotsApart
    <2> QED BY <1>9, <2>1, <2>3, <2>4
  <1> QED BY <1>3, <1>4, <1>5, <1>6, <1>7, <1>8, <1>9

(* Where links and tables only gain, what was reached is reached still.    *)
LEMMA Kept ==
  ASSUME NEW L, NEW D, NEW E, NEW U, NEW B, Sound(L, D, U, B), B \subseteq Blocks,
         \A k \in Entries : D[0][k] = 0,
         NEW i \in U, NEW T, NEW n \in Nat, Reach(L[i], D, n) # 0,
         \A s \in Slots : L[i][s] # 0 => T[s] = L[i][s],
         \A t \in Blocks, k \in Entries : IsTable(L, D, U, t) /\ D[t][k] # 0 => E[t][k] = D[t][k]
  PROVE  Reach(T, E, n) = Reach(L[i], D, n)
  <1>1. Direct \in Nat /\ Words \in Nat /\ Single \in Slots /\ Double \in Slots /\ 0 \notin Blocks
    BY Geometry DEF Blocks
  <1>2. CASE n < Direct /\ Reach(L[i], D, n) = L[i][n]
    <2>1. n \in Slots
      BY <1>2, Parts
    <2> QED BY <1>2, <2>1 DEF Reach
  <1>3. CASE /\ Direct <= n /\ n < Direct + Words
             /\ L[i][Single] \in Blocks /\ IsTable(L, D, U, L[i][Single])
             /\ Reach(L[i], D, n) = D[L[i][Single]][n - Direct]
    <2>1. n - Direct \in Entries
      BY <1>3, Parts
    <2>2. T[Single] = L[i][Single] /\ T[Single] # 0
      BY <1>1, <1>3
    <2>3. E[T[Single]][n - Direct] = D[T[Single]][n - Direct]
      BY <1>3, <2>1, <2>2
    <2> QED BY <1>1, <1>3, <2>2, <2>3 DEF Reach
  <1>4. CASE /\ Direct + Words <= n /\ n < MaxBlocks
             /\ L[i][Double] \in Blocks /\ IsTable(L, D, U, L[i][Double])
             /\ D[L[i][Double]][Upper(n)] \in Blocks
             /\ IsTable(L, D, U, D[L[i][Double]][Upper(n)])
             /\ Reach(L[i], D, n) = D[D[L[i][Double]][Upper(n)]][Lower(n)]
    <2>1. Upper(n) \in Entries /\ Lower(n) \in Entries
      BY <1>4, Parts DEF Upper, Lower
    <2>2. T[Double] = L[i][Double] /\ T[Double] # 0
      BY <1>1, <1>4
    <2>3. E[T[Double]][Upper(n)] = D[T[Double]][Upper(n)]
      BY <1>1, <1>4, <2>1, <2>2
    <2>4. E[E[T[Double]][Upper(n)]][Lower(n)] = D[D[T[Double]][Upper(n)]][Lower(n)]
      BY <1>4, <2>1, <2>2, <2>3
    <2>5. Reach(T, E, n) = E[E[T[Double]][Upper(n)]][Lower(n)]
      BY <1>1, <1>4, <2>2 DEF Reach, Upper, Lower
    <2> QED BY <1>4, <2>2, <2>4, <2>5
  <1> QED BY <1>2, <1>3, <1>4, Ways

(* The copy of an inode on the disk leads nowhere else than its links.     *)
LEMMA SavedReach ==
  ASSUME DiskInv, NEW i \in inodeUsed, NEW n \in Nat, Reach(inode[i].slot, disk, n) # 0
  PROVE  Reach(Links[i], disk, n) = Reach(inode[i].slot, disk, n)
  <1>1. /\ i \in AllInodes /\ blockUsed \subseteq Blocks
        /\ \A k \in Entries : disk[0][k] = 0
    BY DEF DiskInv, TypeOK, AllInodes, UnusedInv
  <1>2. Saved[i] = inode[i].slot
    BY <1>1 DEF Saved
  <1>3. \A s \in Slots : Saved[i][s] # 0 => Links[i][s] = Saved[i][s]
    BY <1>1, <1>2, LinkValues DEF DiskInv, CopyInv
  <1> QED BY <1>1, <1>2, <1>3, SavedSound, Kept

(* What one file reaches, in the call's view or on the disk, no other does.*)
LEMMA NotElsewhere ==
  ASSUME DiskInv, NEW j \in inodeUsed, NEW m \in Nat, Reach(Links[j], disk, m) # 0,
         NEW i \in inodeUsed, NEW n \in Nat,
         Reach(inode[i].slot, disk, n) = Reach(Links[j], disk, m)
  PROVE  i = j /\ n = m
  <1>1. Reach(Links[i], disk, n) = Reach(Links[j], disk, m)
    BY SavedReach
  <1>2. /\ Sound(Links, disk, inodeUsed, blockUsed) /\ blockUsed \subseteq Blocks
        /\ \A k \in Entries : disk[0][k] = 0
    BY DEF DiskInv, TypeOK, StructureInv, UnusedInv
  <1> QED BY <1>1, <1>2, OneWay

(* Positions are words of a file's blocks.                                 *)
LEMMA PositionPlace ==
  ASSUME NEW p \in Positions
  PROVE  /\ p \div Words \in Nat /\ p \div Words < MaxBlocks /\ p % Words \in Entries
         /\ p = Words * (p \div Words) + (p % Words)
  <1>1. Words \in Nat /\ Words >= 2 /\ MaxBlocks \in Nat /\ p \in Nat /\ p < MaxBlocks * Words
    BY Geometry DEF Positions
  <1> QED BY <1>1, Quotient

(* A word keeps its place as long as links and tables only gain: it is     *)
(* there if the block it was in has it.                                    *)
LEMMA GoodKept ==
  ASSUME DiskInv, NEW i \in inodeUsed, NEW S, NEW T, NEW E, NEW W, NEW p \in Positions,
         \A s \in Slots : S[s] # 0 => S[s] = Links[i][s] /\ T[s] = S[s],
         \A t \in Blocks, k \in Entries :
           IsTable(Links, disk, inodeUsed, t) /\ disk[t][k] # 0 => E[t][k] = disk[t][k],
         Reach(S, disk, p \div Words) # 0,
         E[Reach(S, disk, p \div Words)][p % Words] = W[i][p]
  PROVE  Good(T, E, W, i, p)
  <1> DEFINE L == [x \in AllInodes |-> IF x = i THEN S ELSE Links[x]]
  <1>1. /\ i \in AllInodes /\ inodeUsed \subseteq AllInodes /\ blockUsed \subseteq Blocks
        /\ \A k \in Entries : disk[0][k] = 0
        /\ Sound(Links, disk, inodeUsed, blockUsed)
    BY DEF DiskInv, TypeOK, AllInodes, UnusedInv, StructureInv
  <1>2. L[i] = S
    BY <1>1
  <1>3. \A x \in inodeUsed, s \in Slots : L[x][s] = 0 \/ (x \in inodeUsed /\ L[x][s] = Links[x][s])
    BY <1>1
  <1>4. \A s \in Slots : L[i][s] # 0 => T[s] = L[i][s]
    BY <1>2
  <1> HIDE DEF L
  <1>5. /\ Sound(L, disk, inodeUsed, blockUsed)
        /\ \A t : IsTable(L, disk, inodeUsed, t) => IsTable(Links, disk, inodeUsed, t)
    BY <1>1, <1>3, Fewer
  <1>6. p \div Words \in Nat /\ Reach(L[i], disk, p \div Words) # 0
    BY <1>2, PositionPlace
  <1>7. \A t \in Blocks, k \in Entries :
          IsTable(L, disk, inodeUsed, t) /\ disk[t][k] # 0 => E[t][k] = disk[t][k]
    BY <1>5
  <1>8. Reach(T, E, p \div Words) = Reach(L[i], disk, p \div Words)
    BY <1>1, <1>4, <1>5, <1>6, <1>7, Kept
  <1> QED BY <1>2, <1>6, <1>8 DEF Good

LEMMA BelowLinks ==
  ASSUME DiskInv, NEW i \in inodeUsed, NEW s \in Slots, inode[i].slot[s] # 0
  PROVE  inode[i].slot[s] = Links[i][s]
  <1>1. i \in AllInodes
    BY DEF DiskInv, TypeOK, AllInodes
  <1> QED BY <1>1, LinkValues DEF DiskInv, CopyInv

-----------------------------------------------------------------------------
(* The contents that sizes and handles speak of                            *)

(* A step that writes no block and claims no more than before.             *)
LEMMA QuietKeeps ==
  ASSUME ContentsInv, disk' = disk, written' = written,
         \A i \in Files', p \in Positions : Claimed(i, p)' =>
           i \in Files /\ inode'[i].slot = inode[i].slot /\ Claimed(i, p)
  PROVE  ContentsInv'
  <1> SUFFICES ASSUME NEW i \in Files', NEW p \in Positions, Claimed(i, p)'
               PROVE  Good(inode'[i].slot, disk', written', i, p)
    BY DEF ContentsInv
  <1>1. i \in Files /\ inode'[i].slot = inode[i].slot /\ Claimed(i, p)
    OBVIOUS
  <1>2. Good(inode[i].slot, disk, written, i, p)
    BY <1>1 DEF ContentsInv
  <1> QED BY <1>1, <1>2

LEMMA SameClaims ==
  ASSUME ContentsInv, disk' = disk, written' = written, inode' = inode, handle' = handle,
         inodeUsed' \subseteq inodeUsed
  PROVE  ContentsInv'
  <1>1. Files' \subseteq Files
    BY DEF Files
  <1>2. \A i, p : Claimed(i, p)' <=> Claimed(i, p)
    BY DEF Claimed
  <1> QED BY <1>1, <1>2, QuietKeeps

(* Handles: each knows no more than the disk did when it was opened, or    *)
(* than it wrote itself.                                                   *)
LEMMA HandlesKeep ==
  ASSUME DiskInv, ContentsInv,
         \/ \E h \in Handles, n \in Names : Open(h, n)
         \/ \E h \in Handles, p \in Offsets : Seek(h, p)
         \/ \E h \in Handles : Close(h)
         \/ Crash
  PROVE  ContentsInv'
  <1>1. /\ handle \in [Handles -> [ino : AllInodes, pos : Length, size : Length]]
        /\ inode \in [AllInodes -> Inode] /\ inodeUsed \subseteq AllInodes
    BY DEF DiskInv, TypeOK, Length, AllInodes
  <1>2. \A i \in AllInodes : inode[i].size \in Nat
    BY <1>1, Geometry DEF Inode
  <1>3. \A h \in Handles : handle[h].pos \in Nat /\ handle[h].size \in Nat
    BY <1>1, Geometry DEF Length
  <1>4. ASSUME NEW h \in Handles, NEW n \in Names, Open(h, n) PROVE ContentsInv'
    <2>1. /\ disk' = disk /\ written' = written /\ inode' = inode /\ Files' = Files
          /\ \A g \in Handles : g # h => handle'[g] = handle[g]
          /\ handle'[h].pos = 0 /\ handle'[h].size = inode[handle'[h].ino].size
      BY <1>1, <1>4 DEF Open, diskVars, Files
    <2>2. ASSUME NEW i \in Files', NEW p \in Positions, Claimed(i, p)' PROVE Claimed(i, p)
      BY <1>1, <1>2, <2>1, <2>2 DEF Claimed, Positions
    <2> QED BY <2>1, <2>2, QuietKeeps
  <1>5. ASSUME NEW h \in Handles, NEW x \in Offsets, Seek(h, x) PROVE ContentsInv'
    <2>1. /\ disk' = disk /\ written' = written /\ inode' = inode /\ Files' = Files
          /\ \A g \in Handles : g # h => handle'[g] = handle[g]
          /\ handle'[h].ino = handle[h].ino /\ handle'[h].size = handle[h].size
          /\ handle'[h].pos = IF x > inode[handle[h].ino].size THEN inode[handle[h].ino].size ELSE x
      BY <1>1, <1>5 DEF Seek, diskVars, history, Files
    <2>2. x \in Nat /\ inode[handle[h].ino].size \in Nat
      BY <1>1, <1>2, Ext2Assumption
    <2>3. ASSUME NEW i \in Files', NEW p \in Positions, Claimed(i, p)' PROVE Claimed(i, p)
      BY <1>1, <2>1, <2>2, <2>3 DEF Claimed, Positions
    <2> QED BY <2>1, <2>3, QuietKeeps
  <1>6. ASSUME NEW h \in Handles, Close(h) PROVE ContentsInv'
    <2> DEFINE j == handle[h].ino
    <2>1. /\ disk' = disk /\ written' = written /\ inodeUsed' = inodeUsed
          /\ \A g \in Handles : g # h => handle'[g] = handle[g]
          /\ handle'[h].ino = Root /\ handle'[h].pos = 0 /\ handle'[h].size = 0
      BY <1>1, <1>6 DEF Close, Closed, history
    <2>2. \A i \in AllInodes : /\ inode'[i].dir = inode[i].dir /\ inode'[i].slot = inode[i].slot
                               /\ inode'[i].size = IF i = j THEN handle[h].size ELSE inode[i].size
      BY <1>1, <1>6 DEF Close, Inode
    <2>3. \A i \in Files' : i \in Files /\ i \in AllInodes
      BY <1>1, <2>1, <2>2 DEF Files
    <2>4. ASSUME NEW i \in Files', NEW p \in Positions, Claimed(i, p)' PROVE Claimed(i, p)
      <3>1. i \in AllInodes /\ p \in Nat
        BY <2>3 DEF Positions
      <3>2. CASE p < inode'[i].size
        BY <2>2, <3>1, <3>2 DEF Claimed
      <3>3. CASE \E g \in Handles : handle'[g].ino = i /\ (p < handle'[g].pos \/ p < handle'[g].size)
        <4>1. PICK g \in Handles : handle'[g].ino = i /\ (p < handle'[g].pos \/ p < handle'[g].size)
          BY <3>3
        <4>2. g # h
          BY <2>1, <3>1, <4>1
        <4> QED BY <2>1, <4>1, <4>2 DEF Claimed
      <3> QED BY <2>4, <3>2, <3>3 DEF Claimed
    <2> QED BY <2>1, <2>2, <2>3, <2>4, QuietKeeps
  <1>7. CASE Crash
    <2>1. /\ disk' = disk /\ written' = written /\ inode' = inode /\ Files' = Files
          /\ \A h \in Handles : handle'[h].pos = 0 /\ handle'[h].size = 0
      BY <1>7 DEF Crash, Closed, diskVars, history, Files
    <2>2. ASSUME NEW i \in Files', NEW p \in Positions, Claimed(i, p)' PROVE Claimed(i, p)
      BY <2>1, <2>2 DEF Claimed, Positions
    <2> QED BY <2>1, <2>2, QuietKeeps
  <1> QED BY <1>4, <1>5, <1>6, <1>7

(* Most steps of a call touch neither a file's words nor its inode.        *)
LEMMA CallsKeep ==
  ASSUME DiskInv, ContentsInv,
         \/ \E n \in Names : LookupHangs(n)
         \/ \E h \in Handles, src \in Sources : BeginWrite(h, src)
         \/ Allocate \/ Scan \/ LinkDirect \/ TakeTable \/ LinkFails \/ NextBlock \/ EnterName
  PROVE  ContentsInv'
  BY SameClaims
  DEF LookupHangs, BeginWrite, Allocate, TakeDirBlock, NoDirBlock, TakeBlock, NoBlock, GiveUp,
      Scan, ScanDuplicate, ScanFindsRoom, ScanHangs, LinkDirect, TakeTable, LinkFails, NextBlock,
      EnterName, diskVars, history

(* A new inode has no size yet, and no handle.                             *)
LEMMA BeginsKeep ==
  ASSUME DiskInv, ContentsInv, KindInv,
         \/ \E h \in Handles, n \in Names : Create(h, n)
         \/ \E n \in Names : Mkdir(n)
  PROVE  ContentsInv'
  <1>1. ASSUME NEW op, NEW h, NEW n, TakeInode(op, h, n) PROVE ContentsInv'
    <2> DEFINE new == Lowest(FreeInodes)
    <2>1. /\ disk' = disk /\ written' = written /\ inode' = inode /\ handle' = handle
          /\ inodeUsed' = inodeUsed \cup {new} /\ new \in Inodes /\ new \notin inodeUsed
      BY <1>1, FreshInode DEF TakeInode, history
    <2>2. ASSUME NEW i \in Files', NEW p \in Positions, Claimed(i, p)'
          PROVE  i \in Files /\ Claimed(i, p)
      <3>1. Claimed(i, p)
        BY <2>1, <2>2 DEF Claimed
      <3>2. i # new
        <4> SUFFICES ASSUME i = new PROVE FALSE
          OBVIOUS
        <4>1. inode[new].size = 0 /\ p \in Nat
          BY <2>1 DEF KindInv, Positions
        <4>2. PICK h2 \in Handles : handle[h2].ino = new /\ (p < handle[h2].pos \/ p < handle[h2].size)
          BY <3>1, <4>1 DEF Claimed
        <4>3. handle[h2] # Closed
          BY <2>1, <4>2, RootApart
        <4> QED BY <2>1, <4>2, <4>3 DEF DiskInv, HandleInv
      <3> QED BY <2>1, <3>1, <3>2 DEF Files
    <2> QED BY <2>1, <2>2, QuietKeeps
  <1> QED BY <1>1 DEF Create, Mkdir

(* The record of a new file has the same size, none, and that of a new     *)
(* directory is no file's.                                                 *)
LEMMA RecordKeeps ==
  ASSUME DiskInv, ContentsInv, WriteRecord
  PROVE  ContentsInv'
  <1>1. /\ disk' = disk /\ written' = written /\ handle' = handle /\ inodeUsed' = inodeUsed
        /\ call.op \in {"create", "mkdir"} /\ call.ino \in AllInodes
        /\ \A h \in Handles : handle[h].ino # call.ino
        /\ inode \in [AllInodes -> Inode] /\ inodeUsed \subseteq AllInodes
    BY DEF WriteRecord, history, DiskInv, TypeOK, CallInv, Running, Growing, AllInodes
  <1>2. \A i \in AllInodes : inode'[i] = IF i # call.ino THEN inode[i]
                                         ELSE IF call.op = "create" THEN EmptyInode ELSE DirInode(blk)
    BY <1>1 DEF WriteRecord
  <1>3. ASSUME NEW i \in Files', NEW p \in Positions, Claimed(i, p)'
        PROVE  i \in Files /\ inode'[i].slot = inode[i].slot /\ Claimed(i, p)
    <2>1. i \in AllInodes /\ p \in Nat
      BY <1>1 DEF Files, Positions
    <2>2. i # call.ino
      <3> SUFFICES ASSUME i = call.ino PROVE FALSE
        OBVIOUS
      <3>1. ~inode'[i].dir
        BY DEF Files
      <3>2. inode'[i] = EmptyInode
        BY <1>2, <2>1, <3>1 DEF DirInode
      <3> QED BY <1>1, <1>3, <2>1, <3>2 DEF Claimed, EmptyInode
    <2>3. inode'[i] = inode[i]
      BY <1>2, <2>1, <2>2
    <2> QED BY <1>1, <1>3, <2>3 DEF Files, Claimed
  <1> QED BY <1>1, <1>3, QuietKeeps

(* The inode a write saves has every word it wrote, and every word that    *)
(* another handle still speaks of.                                         *)
LEMMA SaveKeeps ==
  ASSUME DiskInv, ContentsInv, WriteInv, KindInv, SaveInode
  PROVE  ContentsInv'
  <1>1. /\ disk' = disk /\ written' = written /\ inodeUsed' = inodeUsed /\ Running /\ ~Unzeroed
        /\ inode \in [AllInodes -> Inode] /\ inodeUsed \subseteq AllInodes
        /\ handle \in [Handles -> [ino : AllInodes, pos : Length, size : Length]]
        /\ call.op \in {"create", "mkdir", "write"} /\ cur.dir = inode[Target].dir
        /\ \A k \in Entries : disk[0][k] = 0
    BY DEF SaveInode, Running, Unzeroed, DiskInv, TypeOK, AllInodes, Length, CallInv, KindInv, UnusedInv
  <1>2. /\ Target \in AllInodes /\ Target \in inodeUsed
        /\ \A s \in Slots : Links[Target][s] = cur.slot[s]
    BY <1>1, TargetLinks
  <1>3. \A i \in AllInodes : inode'[i] = IF i = Target THEN cur ELSE inode[i]
    BY <1>1, <1>2 DEF SaveInode, Target
  <1>4. ASSUME NEW i \in Files, NEW p \in Positions, Claimed(i, p)
        PROVE  Good(inode'[i].slot, disk', written', i, p)
    <2>1. i \in AllInodes /\ i \in inodeUsed /\ Good(inode[i].slot, disk, written, i, p)
      BY <1>1, <1>4 DEF ContentsInv, Files
    <2>2. \A s \in Slots : inode[i].slot[s] # 0 =>
            inode[i].slot[s] = Links[i][s] /\ inode'[i].slot[s] = inode[i].slot[s]
      BY <1>2, <1>3, <2>1, BelowLinks
    <2>3. /\ Reach(inode[i].slot, disk, p \div Words) # 0
          /\ disk[Reach(inode[i].slot, disk, p \div Words)][p % Words] = written[i][p]
      BY <2>1 DEF Good
    <2> QED BY <1>1, <2>1, <2>2, <2>3, GoodKept
  <1>5. CASE call.op # "write"
    <2>1. /\ Target = Root
          /\ \A h \in Handles : \/ handle'[h] = handle[h]
                                \/ handle'[h].pos = 0 /\ handle'[h].size = 0
      BY <1>1, <1>5 DEF SaveInode, Target
    <2>2. ASSUME NEW i \in Files', NEW p \in Positions, Claimed(i, p)'
          PROVE  i \in Files /\ Claimed(i, p)
      <3>1. i \in Inodes /\ i # Root /\ i \in AllInodes /\ inode'[i] = inode[i] /\ p \in Nat
        BY <1>3, <2>1, RootApart DEF Files, Positions
      <3>2. Claimed(i, p)
        BY <2>1, <2>2, <3>1 DEF Claimed
      <3> QED BY <1>1, <3>1, <3>2 DEF Files
    <2> QED BY <1>4, <2>2 DEF ContentsInv
  <1>6. CASE call.op = "write"
    <2>1. /\ Target = call.ino /\ call.h \in Handles
          /\ handle[call.h].ino = call.ino /\ call.ino \in Inodes
          /\ \A h \in Handles : h # call.h => handle'[h] = handle[h]
          /\ handle'[call.h].ino = call.ino
          /\ handle'[call.h].pos = call.off /\ handle'[call.h].size = cur.size
      BY <1>1, <1>6 DEF SaveInode, Target, DiskInv, CallInv
    <2>2. \A i \in Files' : i \in Files /\ i \in AllInodes
      BY <1>1, <1>3 DEF Files
    <2> SUFFICES ASSUME NEW i \in Files', NEW p \in Positions, Claimed(i, p)'
                 PROVE  Good(inode'[i].slot, disk', written', i, p)
      BY DEF ContentsInv
    <2>3. Claimed(i, p) \/ (i = call.ino /\ (p < cur.size \/ p < call.off))
      <3>1. CASE p < inode'[i].size
        BY <1>3, <2>1, <2>2, <3>1 DEF Claimed
      <3>2. CASE \E h \in Handles : handle'[h].ino = i /\ (p < handle'[h].pos \/ p < handle'[h].size)
        <4>1. PICK h \in Handles : handle'[h].ino = i /\ (p < handle'[h].pos \/ p < handle'[h].size)
          BY <3>2
        <4>2. CASE h = call.h
          BY <2>1, <4>1, <4>2
        <4>3. CASE h # call.h
          BY <2>1, <4>1, <4>3 DEF Claimed
        <4> QED BY <4>2, <4>3
      <3> QED BY <3>1, <3>2 DEF Claimed
    <2>4. CASE Claimed(i, p)
      BY <1>4, <2>2, <2>4
    <2>5. CASE i = call.ino /\ (p < cur.size \/ p < call.off)
      <3>1. Good(Links[i], disk, written, i, p) /\ i \in inodeUsed
        BY <1>1, <1>6, <2>2, <2>5 DEF WriteInv, Files
      <3>2. \A s \in Slots : Links[i][s] # 0 =>
              Links[i][s] = Links[i][s] /\ inode'[i].slot[s] = Links[i][s]
        BY <1>2, <1>3, <2>1, <2>2, <2>5
      <3>3. /\ Reach(Links[i], disk, p \div Words) # 0
            /\ disk[Reach(Links[i], disk, p \div Words)][p % Words] = written[i][p]
        BY <3>1 DEF Good
      <3> QED BY <1>1, <3>1, <3>2, <3>3, GoodKept
    <2> QED BY <2>3, <2>4, <2>5
  <1> QED BY <1>1, <1>5, <1>6

-----------------------------------------------------------------------------
(* The steps that write a block                                            *)

(* What slots below the links lead to is a block of data.                  *)
LEMMA BelowIsData ==
  ASSUME DiskInv, NEW i \in inodeUsed, NEW S, NEW n \in Nat, Reach(S, disk, n) # 0,
         \A s \in Slots : S[s] # 0 => S[s] = Links[i][s]
  PROVE  /\ Reach(S, disk, n) = Reach(Links[i], disk, n)
         /\ Reach(S, disk, n) \in Blocks
         /\ ~IsTable(Links, disk, inodeUsed, Reach(S, disk, n))
         /\ \A b : NotReached(Links, disk, inodeUsed, b) => Reach(S, disk, n) # b
  <1> DEFINE L == [x \in AllInodes |-> IF x = i THEN S ELSE Links[x]]
  <1>1. /\ i \in AllInodes /\ inodeUsed \subseteq AllInodes /\ blockUsed \subseteq Blocks
        /\ \A k \in Entries : disk[0][k] = 0
        /\ Sound(Links, disk, inodeUsed, blockUsed)
    BY DEF DiskInv, TypeOK, AllInodes, UnusedInv, StructureInv
  <1>2. L[i] = S
    BY <1>1
  <1>3. \A x \in inodeUsed, s \in Slots : L[x][s] = 0 \/ (x \in inodeUsed /\ L[x][s] = Links[x][s])
    BY <1>1
  <1>4. \A s \in Slots : L[i][s] # 0 => Links[i][s] = L[i][s]
    BY <1>2
  <1> HIDE DEF L
  <1>5. Sound(L, disk, inodeUsed, blockUsed)
    BY <1>1, <1>3, Fewer
  <1>6. Reach(L[i], disk, n) # 0
    BY <1>2
  <1>7. Reach(Links[i], disk, n) = Reach(L[i], disk, n)
    BY <1>1, <1>4, <1>5, <1>6, Kept
  <1>8. Reach(Links[i], disk, n) # 0 /\ Reach(S, disk, n) = Reach(Links[i], disk, n)
    BY <1>2, <1>7
  <1>9. /\ Reach(Links[i], disk, n) \in Blocks
        /\ ~IsTable(Links, disk, inodeUsed, Reach(Links[i], disk, n))
        /\ \A b : NotReached(Links, disk, inodeUsed, b) => Reach(Links[i], disk, n) # b
    BY <1>1, <1>8, LeafIsData
  <1> QED BY <1>8, <1>9

(* The one block written is not the word's.                                *)
LEMMA GoodElsewhere ==
  ASSUME DiskInv, NEW i \in inodeUsed, NEW S, NEW T, NEW p \in Positions,
         \A s \in Slots : S[s] # 0 => S[s] = Links[i][s] /\ T[s] = S[s],
         NEW b, \A c \in Blocks : c # b => disk'[c] = disk[c],
         \A k \in Entries : IsTable(Links, disk, inodeUsed, b) /\ disk[b][k] # 0
                              => disk'[b][k] = disk[b][k],
         Good(S, disk, written, i, p), Reach(S, disk, p \div Words) # b
  PROVE  Good(T, disk', written, i, p)
  <1>1. /\ Reach(S, disk, p \div Words) # 0 /\ p \div Words \in Nat
        /\ disk[Reach(S, disk, p \div Words)][p % Words] = written[i][p]
    BY PositionPlace DEF Good
  <1>2. Reach(S, disk, p \div Words) \in Blocks
    BY <1>1, BelowIsData
  <1>3. disk'[Reach(S, disk, p \div Words)][p % Words] = written[i][p]
    BY <1>1, <1>2
  <1>4. \A t \in Blocks, k \in Entries :
          IsTable(Links, disk, inodeUsed, t) /\ disk[t][k] # 0 => disk'[t][k] = disk[t][k]
    OBVIOUS
  <1> QED BY <1>1, <1>3, <1>4, GoodKept

(* What one of these steps does to the structure: one block changes, which *)
(* no file reaches as data, and a table only gains.                        *)
TouchesOnly(b) ==
  /\ inode' = inode /\ handle' = handle /\ inodeUsed' = inodeUsed /\ written' = written
  /\ \A c \in Blocks : c # b => disk'[c] = disk[c]
  /\ \A k \in Entries : IsTable(Links, disk, inodeUsed, b) /\ disk[b][k] # 0
                          => disk'[b][k] = disk[b][k]
  /\ IsTable(Links, disk, inodeUsed, b) \/ NotReached(Links, disk, inodeUsed, b)
     \/ \E j \in inodeUsed \ Files, m \in Nat : b # 0 /\ Reach(Links[j], disk, m) = b

LEMMA TouchKeepsGood ==
  ASSUME DiskInv, NEW b, TouchesOnly(b), NEW i \in Files, NEW S, NEW T, NEW p \in Positions,
         \A s \in Slots : S[s] # 0 => S[s] = Links[i][s] /\ T[s] = S[s],
         Good(S, disk, written, i, p)
  PROVE  Good(T, disk', written', i, p)
  <1>1. i \in inodeUsed /\ p \div Words \in Nat /\ Reach(S, disk, p \div Words) # 0
    BY PositionPlace DEF Files, Good
  <1>2. Reach(S, disk, p \div Words) # b
    <2>1. CASE IsTable(Links, disk, inodeUsed, b) \/ NotReached(Links, disk, inodeUsed, b)
      BY <1>1, <2>1, BelowIsData
    <2>2. CASE \E j \in inodeUsed \ Files, m \in Nat : b # 0 /\ Reach(Links[j], disk, m) = b
      <3>1. PICK j \in inodeUsed \ Files, m \in Nat : b # 0 /\ Reach(Links[j], disk, m) = b
        BY <2>2
      <3>2. /\ Sound(Links, disk, inodeUsed, blockUsed) /\ blockUsed \subseteq Blocks
            /\ \A k \in Entries : disk[0][k] = 0
        BY DEF DiskInv, TypeOK, StructureInv, UnusedInv
      <3>3. Reach(S, disk, p \div Words) = Reach(Links[i], disk, p \div Words)
        BY <1>1, BelowIsData
      <3> QED BY <1>1, <3>1, <3>2, <3>3, OneWay
    <2> QED BY <2>1, <2>2 DEF TouchesOnly
  <1>3. Good(T, disk', written, i, p)
    BY <1>1, <1>2, GoodElsewhere DEF TouchesOnly
  <1> QED BY <1>3 DEF TouchesOnly

LEMMA TouchesKeep ==
  ASSUME DiskInv, ContentsInv, NEW b, TouchesOnly(b)
  PROVE  ContentsInv'
  <1> SUFFICES ASSUME NEW i \in Files', NEW p \in Positions, Claimed(i, p)'
               PROVE  Good(inode'[i].slot, disk', written', i, p)
    BY DEF ContentsInv
  <1>1. i \in Files /\ i \in inodeUsed /\ Claimed(i, p) /\ inode' = inode
    BY DEF TouchesOnly, Files, Claimed
  <1>2. Good(inode[i].slot, disk, written, i, p)
    BY <1>1 DEF ContentsInv
  <1>3. \A s \in Slots : inode[i].slot[s] # 0 => inode[i].slot[s] = Links[i][s]
    BY <1>1, BelowLinks
  <1> QED BY <1>1, <1>2, <1>3, TouchKeepsGood

(* Zeroing a new table touches no file; nor does the first use of an entry *)
(* of a double table, ...                                                  *)
LEMMA ZeroTouches ==
  ASSUME DiskInv, ZeroTable
  PROVE  TouchesOnly(tab)
  <1>1. /\ disk \in [0 .. NBlocks -> Block] /\ Blocks \subseteq 0 .. NBlocks
        /\ Reserved(tab)
    BY Records DEF DiskInv, TypeOK, ReservedInv, ZeroTable
  <1>2. NotReached(Links, disk, inodeUsed, tab) /\ ~IsTable(Links, disk, inodeUsed, tab)
    BY <1>1, ReservedFacts
  <1>3. \A c \in Blocks : c # tab => disk'[c] = disk[c]
    BY <1>1 DEF ZeroTable
  <1> QED BY <1>2, <1>3 DEF ZeroTable, TouchesOnly, history

LEMMA IndexWritten ==
  ASSUME DiskInv, WriteIndex
  PROVE  /\ cur.slot[Double] \in Blocks /\ IndexAt \in Entries
         /\ IsTable(Links, disk, inodeUsed, cur.slot[Double])
         /\ \A u \in 0 .. NBlocks, k \in Entries :
              disk'[u][k] = IF u = cur.slot[Double] /\ k = IndexAt THEN tab ELSE disk[u][k]
  <1>1. TypeOK /\ call.off \in Nat /\ Running /\ ~Unzeroed
    <2>1. call.off \in Nat
      BY Geometry DEF DiskInv, TypeOK
    <2> QED BY <2>1 DEF DiskInv, WriteIndex, Running, Unzeroed
  <1>2. Direct + Words <= At /\ At < MaxBlocks /\ cur.slot[Double] # 0
    BY DEF WriteIndex, DiskInv, ReservedInv
  <1>3. cur.slot[Double] \in Blocks /\ IsTable(Links, disk, inodeUsed, cur.slot[Double])
    BY <1>1, <1>2, UpperTable
  <1>4. IndexAt \in Entries
    BY <1>1, <1>2, Place
  <1>5. disk' = [disk EXCEPT ![cur.slot[Double]][IndexAt] = tab]
    BY DEF WriteIndex
  <1>6. PICK t \in Blocks, e \in Entries : t = cur.slot[Double] /\ e = IndexAt
    BY <1>3, <1>4
  <1>7. \A u \in 0 .. NBlocks, k \in Entries :
          [disk EXCEPT ![t][e] = tab][u][k] = IF u = t /\ k = e THEN tab ELSE disk[u][k]
    BY <1>1, EntrySet
  <1> QED BY <1>3, <1>4, <1>5, <1>6, <1>7

LEMMA IndexTouches ==
  ASSUME DiskInv, PlaceInv, WriteIndex
  PROVE  TouchesOnly(cur.slot[Double])
  <1>1. disk \in [0 .. NBlocks -> Block] /\ Blocks \subseteq 0 .. NBlocks
    BY Records DEF DiskInv, TypeOK
  <1>2. disk[cur.slot[Double]][IndexAt] = 0
    BY DEF PlaceInv, WriteIndex
  <1>3. \A c \in Blocks : c # cur.slot[Double] => disk'[c] = disk[c]
    BY <1>1 DEF WriteIndex
  <1>4. /\ cur.slot[Double] \in 0 .. NBlocks
        /\ \A k \in Entries : disk[cur.slot[Double]][k] # 0
             => disk'[cur.slot[Double]][k] = disk[cur.slot[Double]][k]
    BY <1>1, <1>2, IndexWritten
  <1> QED BY <1>3, <1>4, IndexWritten DEF WriteIndex, TouchesOnly, history

(* ... or of the entry that leads to the new block.                        *)
LEMMA LinkWritten ==
  ASSUME DiskInv, PlaceInv, LinkInTable
  PROVE  /\ \E t \in Blocks, e \in Entries :
              /\ IsTable(Links, disk, inodeUsed, t) /\ disk[t][e] = 0
              /\ disk' = [disk EXCEPT ![t][e] = blk]
         /\ Reach(cur.slot, disk', At) = blk
  <1>1. /\ TypeOK /\ call.off \in Nat /\ At \in Nat /\ Running /\ ~Unzeroed
        /\ Target \in inodeUsed /\ \A s \in Slots : Links[Target][s] = cur.slot[s]
    <2>1. call.off \in Nat
      BY Geometry DEF DiskInv, TypeOK
    <2>2. Running /\ ~Unzeroed
      BY DEF LinkInTable, Running, Unzeroed
    <2> QED BY <2>1, <2>2, Place, TargetLinks DEF DiskInv
  <1>2. /\ Direct <= At /\ At < MaxBlocks /\ cur.slot[TableSlot] # 0
        /\ Reach(Links[Target], disk, At) = 0
    BY DEF LinkInTable, NeedsTable, PlaceInv
  <1>3. ASSUME NEW t \in Blocks, NEW e \in Entries, disk' = [disk EXCEPT ![t][e] = blk]
        PROVE  \A u \in 0 .. NBlocks, k \in Entries :
                 disk'[u][k] = IF u = t /\ k = e THEN blk ELSE disk[u][k]
    BY <1>1, <1>3, EntrySet
  <1>4. CASE At < Direct + Words
    <2> DEFINE t == cur.slot[Single]
               e == At - Direct
    <2>1. TableSlot = Single /\ e \in Entries /\ t # 0 /\ Single \in Slots
      BY <1>1, <1>2, <1>4, Place, Geometry
    <2>2. disk' = [disk EXCEPT ![t][e] = blk]
      BY <2>1 DEF LinkInTable
    <2>3. t \in Blocks /\ IsTable(Links, disk, inodeUsed, t)
      BY <1>1, <2>1, SingleTable
    <2>4. Reach(Links[Target], disk, At) = disk[t][e]
      BY <1>1, <1>2, <1>4, <2>1, Geometry DEF Reach
    <2>5. Reach(cur.slot, disk', At) = disk'[t][e]
      BY <1>1, <1>2, <1>4, <2>1, Geometry DEF Reach
    <2>6. disk'[t][e] = blk
      <3> HIDE DEF t, e
      <3>1. \A u \in 0 .. NBlocks, k \in Entries :
              disk'[u][k] = IF u = t /\ k = e THEN blk ELSE disk[u][k]
        BY <1>3, <2>1, <2>2, <2>3
      <3> QED BY <2>1, <2>3, <3>1, Records
    <2> QED BY <1>2, <2>1, <2>2, <2>3, <2>4, <2>5, <2>6
  <1>5. CASE Direct + Words <= At
    <2> DEFINE d == cur.slot[Double]
               t == disk[d][IndexAt]
               e == (At - Direct - Words) % Words
    <2>1. TableSlot = Double /\ IndexAt \in Entries /\ e \in Entries /\ Double # Single /\ d # 0
          /\ Double \in Slots
      BY <1>1, <1>2, <1>5, Place, Geometry
    <2>2. disk' = [disk EXCEPT ![t][e] = blk]
      BY <2>1 DEF LinkInTable
    <2>3. d \in Blocks /\ DoubleTable(Links, inodeUsed, d)
      BY <1>1, <2>1, UpperTable
    <2>4. t # 0
      BY <1>2, <1>5, <2>1 DEF LinkInTable, NeedsIndex
    <2>5. /\ t \in Blocks /\ IsTable(Links, disk, inodeUsed, t)
          /\ ~DoubleTable(Links, inodeUsed, t)
      BY <2>1, <2>3, <2>4, LowerTable
    <2>6. Reach(Links[Target], disk, At) = disk[t][e]
      BY <1>1, <1>2, <1>5, <2>1, Geometry DEF Reach, IndexAt
    <2>7. Reach(cur.slot, disk', At) = disk'[disk'[d][IndexAt]][e]
      BY <1>1, <1>2, <1>5, <2>1, Geometry DEF Reach, IndexAt
    <2>8. disk'[d][IndexAt] = t /\ disk'[t][e] = blk
      <3>1. d # t
        BY <2>3, <2>5
      <3>2. d \in 0 .. NBlocks /\ t \in 0 .. NBlocks
        BY <2>3, <2>5, Records
      <3>3. \A u \in 0 .. NBlocks, k \in Entries :
              disk'[u][k] = IF u = t /\ k = e THEN blk ELSE disk[u][k]
        <4> HIDE DEF t, e
        <4> QED BY <1>3, <2>1, <2>2, <2>5
      <3>4. disk[d][IndexAt] = t
        OBVIOUS
      <3> HIDE DEF d, t, e
      <3> QED BY <2>1, <3>1, <3>2, <3>3, <3>4
    <2> QED BY <1>2, <2>1, <2>2, <2>5, <2>6, <2>7, <2>8
  <1> QED BY <1>1, <1>4, <1>5, Geometry

LEMMA LinkTouches ==
  ASSUME DiskInv, PlaceInv, LinkInTable
  PROVE  \E b : TouchesOnly(b)
  <1>1. PICK t \in Blocks, e \in Entries :
          /\ IsTable(Links, disk, inodeUsed, t) /\ disk[t][e] = 0
          /\ disk' = [disk EXCEPT ![t][e] = blk]
    BY LinkWritten
  <1>2. disk \in [0 .. NBlocks -> [Entries -> Word]] /\ Blocks \subseteq 0 .. NBlocks
    BY Records DEF DiskInv, TypeOK, Block, Entries
  <1>3. \A c \in Blocks : c # t => disk'[c] = disk[c]
    BY <1>1, <1>2
  <1>4. \A k \in Entries : disk[t][k] # 0 => disk'[t][k] = disk[t][k]
    BY <1>1, <1>2
  <1>5. TouchesOnly(t)
    BY <1>1, <1>3, <1>4 DEF LinkInTable, TouchesOnly, history
  <1> QED BY <1>5

(* The blocks of directories are no file's.                                *)
LEMMA DirectoryTouches ==
  ASSUME DiskInv, PlaceInv, WriteDots \/ ClearBlock
  PROVE  TouchesOnly(blk)
  <1>1. /\ disk \in [0 .. NBlocks -> Block] /\ Blocks \subseteq 0 .. NBlocks
        /\ blk \in Blocks /\ ~IsTable(Links, disk, inodeUsed, blk) /\ blk # 0
        /\ Running /\ ~Unzeroed /\ call.op # "write" /\ Target = Root
        /\ Root \in inodeUsed /\ Root \notin Files
        /\ call.ino \in Inodes /\ call.ino \in inodeUsed /\ call.off \in Nat
    <2>1. /\ disk \in [0 .. NBlocks -> Block] /\ Blocks \subseteq 0 .. NBlocks /\ call.off \in Nat
      <3>1. call.off \in Nat
        BY Geometry DEF DiskInv, TypeOK
      <3> QED BY <3>1, Records DEF DiskInv, TypeOK
    <2>2. Running /\ ~Unzeroed /\ blk \in Blocks /\ ~IsTable(Links, disk, inodeUsed, blk)
      BY DEF DiskInv, ReservedInv, WriteDots, ClearBlock, Running, Unzeroed
    <2>3. call.op # "write" /\ call.ino \in Inodes /\ call.ino \in inodeUsed
      BY <2>2 DEF DiskInv, CallInv, WriteDots, ClearBlock
    <2>4. Root \in inodeUsed /\ Root \notin Files
      BY RootApart DEF DiskInv, RootInv, Files
    <2> QED BY <2>1, <2>2, <2>3, <2>4 DEF Target, Blocks
  <1>2. \A c \in Blocks : c # blk => disk'[c] = disk[c]
    BY <1>1 DEF WriteDots, ClearBlock
  <1>3. \E j \in inodeUsed \ Files, m \in Nat : Reach(Links[j], disk, m) = blk
    <2>1. CASE WriteDots
      <3>1. call.ino \notin Files /\ inode[call.ino].slot[0] = blk
        BY <2>1 DEF PlaceInv, WriteDots, Files
      <3>2. /\ call.ino \in AllInodes /\ call.ino # Root /\ 0 \in Slots /\ 0 < Direct /\ 0 \in Nat
        BY <1>1, RootApart, Geometry DEF Slots
      <3>3. Links[call.ino][0] = blk
        BY <1>1, <3>1, <3>2, LinkValues
      <3>4. Reach(Links[call.ino], disk, 0) = blk
        BY <3>2, <3>3 DEF Reach
      <3> QED BY <1>1, <3>1, <3>2, <3>4
    <2>2. CASE ClearBlock
      BY <1>1, <2>2, Place DEF PlaceInv, ClearBlock
    <2> QED BY <2>1, <2>2
  <1> QED BY <1>1, <1>2, <1>3 DEF WriteDots, ClearBlock, TouchesOnly, history

(* Where the words of one ext2_write_block_to_inode lie in the file.       *)
LEMMA RangePlace ==
  ASSUME DiskInv, pc = "data", NEW p \in Positions
  PROVE  /\ p \in call.off .. call.off + Count - 1
              <=> p \div Words = At /\ p % Words \in First .. First + Count - 1
         /\ p \div Words = At => p - call.off = (p % Words) - First
  <1>1. call.off \in Nat /\ call.src \in Seq(Values) /\ Len(call.src) \in Nat
    BY Geometry DEF DiskInv, TypeOK
  <1>2. /\ At \in Nat /\ First \in 0 .. Words - 1 /\ call.off = Words * At + First
        /\ \A m \in Nat : call.off < m * Words <=> At < m
    BY <1>1, Quotient DEF At, First, Entries
  <1>3. Words \in Nat /\ Words >= 2
    BY Geometry
  <1>4. Count \in Nat /\ First + Count <= Words
    BY <1>1, <1>2, <1>3 DEF Count
  <1>5. /\ p \in Nat /\ p \div Words \in Nat /\ p % Words \in 0 .. Words - 1
        /\ p = Words * (p \div Words) + (p % Words)
        /\ \A m \in Nat : p < m * Words <=> p \div Words < m
    <2>1. p \in Nat
      BY DEF Positions
    <2> QED BY <2>1, Quotient DEF Entries
  <1> DEFINE q == p \div Words
             r == p % Words
             x == Words * At
  <1>6. x \in Nat /\ At * Words = x /\ (At + 1) * Words = x + Words
    <2>1. \A w \in Nat, a \in Nat : w * a \in Nat /\ a * w = w * a /\ (a + 1) * w = w * a + w
      BY Z3
    <2> QED BY <1>2, <1>3, <2>1
  <1>7. (p < x <=> q < At) /\ (p < x + Words <=> q < At + 1)
    BY <1>2, <1>5, <1>6
  <1>8. q = At => p = x + r
    BY <1>5
  <1>9. q \in Nat /\ r \in 0 .. Words - 1 /\ call.off = x + First
    BY <1>2, <1>5
  <1> HIDE DEF q, r, x
  <1>10. CASE q = At
    BY <1>2, <1>3, <1>4, <1>5, <1>6, <1>8, <1>9, <1>10 DEF q, r
  <1>11. CASE q # At
    <2>1. p < x \/ p >= x + Words
      BY <1>2, <1>3, <1>5, <1>6, <1>7, <1>9, <1>11
    <2>2. p \notin call.off .. call.off + Count - 1
      BY <1>2, <1>3, <1>4, <1>5, <1>6, <1>9, <2>1
    <2> QED BY <1>11, <2>2 DEF q
  <1> QED BY <1>10, <1>11

(* A write changes the words it is given, and no others, of this file and  *)
(* of no other.                                                            *)
LEMMA WordsWritten ==
  ASSUME DiskInv, PlaceInv, WriteWords, NEW i \in inodeUsed, i \in Inodes, NEW S, NEW T,
         NEW p \in Positions,
         \A s \in Slots : S[s] # 0 => S[s] = Links[i][s] /\ T[s] = S[s],
         Reach(S, disk, p \div Words) # 0,
         \/ i = call.ino /\ p \in call.off .. call.off + Count - 1
         \/ Good(S, disk, written, i, p)
  PROVE  Good(T, disk', written', i, p)
  <1> DEFINE r == Reach(S, disk, p \div Words)
             now == i = call.ino /\ p \in call.off .. call.off + Count - 1
  <1>1. /\ disk \in [0 .. NBlocks -> Block] /\ Blocks \subseteq 0 .. NBlocks
        /\ written \in [Inodes -> [Positions -> Values \cup {Junk}]]
        /\ call.off \in Nat
    <2>1. call.off \in Nat
      BY Geometry DEF DiskInv, TypeOK
    <2> QED BY <2>1, Records DEF DiskInv, TypeOK, Positions
  <1>2. /\ blk \in Blocks /\ blk # 0 /\ ~IsTable(Links, disk, inodeUsed, blk)
        /\ Reach(Links[Target], disk, At) = blk /\ pc = "data" /\ At \in Nat
        /\ Target = call.ino /\ Target \in inodeUsed
    <2>1. pc = "data" /\ Running
      BY DEF WriteWords, Running
    <2>2. call.op = "write"
      BY <2>1 DEF DiskInv, CallInv, Growing
    <2>3. Target = call.ino /\ Target \in inodeUsed
      BY <2>1, <2>2, TargetLinks DEF Target
    <2> QED BY <1>1, <2>1, <2>3, Place DEF DiskInv, ReservedInv, PlaceInv, Blocks
  <1>3. /\ r \in Blocks /\ r = Reach(Links[i], disk, p \div Words)
        /\ p \div Words \in Nat /\ p % Words \in Entries
    BY PositionPlace, BelowIsData
  <1>4. \A c \in Blocks : c # blk => disk'[c] = disk[c]
    BY <1>1 DEF WriteWords
  <1>5. \A w \in Entries : disk'[blk][w] = IF w \in First .. First + Count - 1
                                            THEN call.src[w - First + 1] ELSE disk[blk][w]
    BY <1>1, <1>2 DEF WriteWords, Entries
  <1>6. written'[i][p] = IF now THEN call.src[p - call.off + 1] ELSE written[i][p]
    BY <1>1, <1>2 DEF WriteWords, Noted, Positions
  <1>7. disk'[r][p % Words] = written'[i][p]
    <2>1. CASE now
      <3>1. /\ p \div Words = At /\ p % Words \in First .. First + Count - 1
            /\ p - call.off = (p % Words) - First
        BY <1>2, <2>1, RangePlace
      <3>2. r = blk
        BY <1>2, <1>3, <2>1, <3>1
      <3> QED BY <1>3, <1>5, <1>6, <2>1, <3>1, <3>2
    <2>2. CASE ~now
      <3>1. disk[r][p % Words] = written[i][p]
        BY <2>2 DEF Good
      <3>2. CASE r = blk
        <4>1. i = Target /\ p \div Words = At
          <5>1. /\ Sound(Links, disk, inodeUsed, blockUsed) /\ blockUsed \subseteq Blocks
                /\ \A k \in Entries : disk[0][k] = 0
            BY DEF DiskInv, TypeOK, StructureInv, UnusedInv
          <5>2. Reach(Links[i], disk, p \div Words) = Reach(Links[Target], disk, At)
            BY <1>2, <1>3, <3>2
          <5>3. Reach(Links[Target], disk, At) # 0
            BY <1>2
          <5> HIDE DEF r, now
          <5> QED BY <1>2, <1>3, <5>1, <5>2, <5>3, OneWay
        <4>2. p % Words \notin First .. First + Count - 1
          BY <1>2, <2>2, <4>1, RangePlace
        <4> QED BY <1>3, <1>5, <1>6, <2>2, <3>1, <3>2, <4>2
      <3>3. CASE r # blk
        BY <1>3, <1>4, <1>6, <2>2, <3>1, <3>3
      <3> QED BY <3>2, <3>3
    <2> QED BY <2>1, <2>2
  <1>8. \A t \in Blocks, k \in Entries :
          IsTable(Links, disk, inodeUsed, t) /\ disk[t][k] # 0 => disk'[t][k] = disk[t][k]
    BY <1>2, <1>4
  <1> QED BY <1>7, <1>8, GoodKept

LEMMA WordsKeep ==
  ASSUME DiskInv, ContentsInv, PlaceInv, WriteWords
  PROVE  ContentsInv'
  <1> SUFFICES ASSUME NEW i \in Files', NEW p \in Positions, Claimed(i, p)'
               PROVE  Good(inode'[i].slot, disk', written', i, p)
    BY DEF ContentsInv
  <1>1. /\ i \in Files /\ i \in inodeUsed /\ i \in Inodes /\ Claimed(i, p) /\ inode' = inode
    BY DEF WriteWords, Files, Claimed
  <1>2. Good(inode[i].slot, disk, written, i, p)
    BY <1>1 DEF ContentsInv
  <1>3. Reach(inode[i].slot, disk, p \div Words) # 0
    BY <1>2 DEF Good
  <1>4. \A s \in Slots : inode[i].slot[s] # 0 => inode[i].slot[s] = Links[i][s]
    BY <1>1, BelowLinks
  <1> QED BY <1>1, <1>2, <1>3, <1>4, WordsWritten

-----------------------------------------------------------------------------
(* What a write has done so far                                            *)

(* A call only adds to the links.                                          *)
LEMMA LinksGrow ==
  ASSUME DiskInv,
         TakeBlock \/ LinkDirect \/ TakeTable \/ ZeroTable \/ WriteIndex \/ LinkInTable
           \/ NextBlock \/ WriteWords
  PROVE  /\ Running /\ Running' /\ Target' = Target /\ inode' = inode
         /\ Target \in inodeUsed /\ Target \in AllInodes
         /\ \A s \in Slots : Links[Target][s] # 0 => Links'[Target][s] = Links[Target][s]
  <1>1. Running /\ Running'
    BY DEF TakeBlock, NeedsBlock, ScanNeedsBlock, LinkDirect, Linked, TakeTable, ZeroTable,
           WriteIndex, LinkInTable, NextBlock, WriteWords, Running
  <1>2. /\ cur \in Inode /\ call.off \in Nat /\ At \in Nat
        /\ call \in [op : {"none", "create", "mkdir", "write"}, ino : {Root} \cup Inodes,
                     h : Handles \cup {Nil}, name : Names \cup {Nil},
                     off : 0 .. MaxBlocks * Words, src : Seq(Values)]
    <2>1. call.off \in Nat
      BY Geometry DEF DiskInv, TypeOK
    <2> QED BY <2>1, Place DEF DiskInv, TypeOK
  <1>3. Target \in inodeUsed /\ Target \in AllInodes
    BY <1>1, TargetLinks
  <1>4. Target' = Target /\ inode' = inode
    BY <1>2 DEF TakeBlock, LinkDirect, TakeTable, ZeroTable, WriteIndex, LinkInTable, NextBlock,
                WriteWords, Target, diskVars
  <1>5. /\ \A s \in Slots : Links[Target][s] = IF Unzeroed /\ s = TableSlot THEN 0 ELSE cur.slot[s]
        /\ \A s \in Slots : Links'[Target][s] = IF Unzeroed' /\ s = TableSlot' THEN 0 ELSE cur'.slot[s]
    BY <1>1, <1>3, <1>4, LinkValues, NextLinkValues
  <1>6. CASE TakeBlock \/ WriteIndex \/ LinkInTable \/ NextBlock \/ WriteWords
    <2>1. ~Unzeroed' /\ cur'.slot = cur.slot
      BY <1>2, <1>6 DEF TakeBlock, WriteIndex, LinkInTable, Linked, NextBlock, WriteWords, Unzeroed,
                        Inode
    <2> QED BY <1>1, <1>3, <1>4, <1>5, <2>1
  <1>7. CASE LinkDirect
    <2>1. /\ ~Unzeroed /\ ~Unzeroed' /\ At \in Slots /\ cur.slot[At] = 0
          /\ \A s \in Slots : s # At => cur'.slot[s] = cur.slot[s]
      BY <1>2, <1>7, Place DEF LinkDirect, Linked, Unzeroed, DiskInv, ReservedInv, Inode, Slots
    <2> QED BY <1>1, <1>3, <1>4, <1>5, <2>1
  <1>8. CASE TakeTable
    <2>1. /\ ~Unzeroed /\ TableSlot \in Slots /\ TableSlot' = TableSlot
          /\ tab' \notin blockUsed
      BY <1>8, Geometry, FreshBlock DEF TakeTable, Unzeroed, TableSlot, At
    <2>2. CASE NeedsTable
      BY <1>1, <1>2, <1>3, <1>4, <1>5, <1>8, <2>1, <2>2 DEF TakeTable, NeedsTable, Inode, Slots
    <2>3. CASE ~NeedsTable
      <3>1. cur' = cur
        BY <1>8, <2>3 DEF TakeTable
      <3>2. cur.slot[TableSlot] # 0 => cur.slot[TableSlot] \in blockUsed
        BY <1>3, <1>5, <2>1, MarkedSlot
      <3> QED BY <1>1, <1>3, <1>4, <1>5, <2>1, <3>1, <3>2 DEF Unzeroed
    <2> QED BY <2>2, <2>3
  <1>9. CASE ZeroTable
    BY <1>1, <1>3, <1>4, <1>5, <1>9 DEF ZeroTable, Unzeroed, TableSlot, At
  <1> QED BY <1>6, <1>7, <1>8, <1>9

LEMMA WriteStays ==
  ASSUME DiskInv, WriteInv, KindInv,
         TakeBlock \/ LinkDirect \/ TakeTable \/ ZeroTable \/ WriteIndex \/ LinkInTable \/ NextBlock,
         \/ disk' = disk /\ written' = written
         \/ \E b : TouchesOnly(b)
  PROVE  WriteInv'
  <1>1. call' = call /\ cur'.size = cur.size
    <2>1. cur \in Inode
      BY DEF DiskInv, TypeOK
    <2> QED BY <2>1 DEF TakeBlock, LinkDirect, TakeTable, ZeroTable, WriteIndex, LinkInTable,
                        NextBlock, diskVars, Inode
  <1> SUFFICES ASSUME Running', call'.op = "write", ~inode'[call'.ino].dir,
                      NEW p \in Positions, p < cur'.size \/ p < call'.off
               PROVE  Good(Links'[call'.ino], disk', written', call'.ino, p)
    BY DEF WriteInv
  <1>2. /\ Running /\ Target = call.ino /\ inode' = inode /\ call.ino \in inodeUsed
        /\ \A s \in Slots : Links[call.ino][s] # 0 => Links'[call.ino][s] = Links[call.ino][s]
    BY <1>1, LinksGrow DEF Target
  <1>3. Good(Links[call.ino], disk, written, call.ino, p)
    BY <1>1, <1>2 DEF WriteInv
  <1>4. CASE disk' = disk /\ written' = written
    <2>1. /\ Reach(Links[call.ino], disk, p \div Words) # 0
          /\ disk[Reach(Links[call.ino], disk, p \div Words)][p % Words] = written[call.ino][p]
      BY <1>3 DEF Good
    <2>2. Good(Links'[call.ino], disk, written, call.ino, p)
      BY <1>2, <2>1, GoodKept
    <2> QED BY <1>1, <1>4, <2>2
  <1>5. CASE \E b : TouchesOnly(b)
    <2>1. call.ino \in Files
      BY <1>1, <1>2 DEF DiskInv, CallInv, Files
    <2> QED BY <1>1, <1>2, <1>3, <1>5, <2>1, TouchKeepsGood
  <1> QED BY <1>4, <1>5

(* At the start of a write, its copy of the inode is the one on the disk   *)
(* and its position one that the handle has reached.                       *)
LEMMA WriteBegins ==
  ASSUME DiskInv, ContentsInv, NEW h \in Handles, NEW src, BeginWrite(h, src)
  PROVE  WriteInv'
  <1>1. /\ call'.op = "write" /\ call'.ino = handle[h].ino /\ call'.off = handle[h].pos
        /\ cur' = inode[handle[h].ino] /\ pc' = "next" /\ handle[h] # Closed
        /\ inode' = inode /\ disk' = disk /\ written' = written /\ inodeUsed' = inodeUsed
    BY DEF BeginWrite, NoCall, diskVars, history
  <1>2. handle[h].ino \in Inodes /\ handle[h].ino \in inodeUsed /\ handle[h].ino \in AllInodes
    BY <1>1 DEF DiskInv, HandleInv, AllInodes
  <1>3. Running' /\ Target' = handle[h].ino /\ ~Unzeroed'
    BY <1>1 DEF Running, Target, Unzeroed
  <1>4. \A s \in Slots : Links'[handle[h].ino][s] = inode[handle[h].ino].slot[s]
    BY <1>1, <1>2, <1>3, NextLinkValues
  <1> SUFFICES ASSUME ~inode[handle[h].ino].dir, NEW p \in Positions,
                      p < inode[handle[h].ino].size \/ p < handle[h].pos
               PROVE  Good(Links'[handle[h].ino], disk, written, handle[h].ino, p)
    BY <1>1 DEF WriteInv
  <1>5. Good(inode[handle[h].ino].slot, disk, written, handle[h].ino, p)
    BY <1>2 DEF ContentsInv, Files, Claimed
  <1>6. /\ Reach(inode[handle[h].ino].slot, disk, p \div Words) # 0
        /\ disk[Reach(inode[handle[h].ino].slot, disk, p \div Words)][p % Words]
             = written[handle[h].ino][p]
    BY <1>5 DEF Good
  <1>7. \A s \in Slots : inode[handle[h].ino].slot[s] # 0
                           => /\ inode[handle[h].ino].slot[s] = Links[handle[h].ino][s]
                              /\ Links'[handle[h].ino][s] = inode[handle[h].ino].slot[s]
    BY <1>2, <1>4, BelowLinks
  <1> QED
    <2> DEFINE i == handle[h].ino
               S == inode[i].slot
               T == Links'[i]
    <2>1. /\ i \in inodeUsed /\ \A s \in Slots : S[s] # 0 => S[s] = Links[i][s] /\ T[s] = S[s]
          /\ Reach(S, disk, p \div Words) # 0
          /\ disk[Reach(S, disk, p \div Words)][p % Words] = written[i][p]
      BY <1>2, <1>6, <1>7
    <2>2. Good(T, disk, written, i, p)
      <3> HIDE DEF i, S, T
      <3> QED BY <2>1, GoodKept
    <2> QED BY <2>2

(* Up to its position a write has written, or found, every word.           *)
LEMMA WriteGoesOn ==
  ASSUME DiskInv, WriteInv, PlaceInv, WriteWords
  PROVE  WriteInv'
  <1>1. /\ pc = "data" /\ Running /\ call'.op = call.op /\ call'.ino = call.ino
        /\ call'.off = call.off + Count
        /\ cur'.size = IF call.off + Count > cur.size THEN call.off + Count ELSE cur.size
        /\ call.off \in Nat /\ Count \in Int
        /\ cur.size \in Nat
    <2>1. /\ cur \in Inode
          /\ call \in [op : {"none", "create", "mkdir", "write"}, ino : {Root} \cup Inodes,
                       h : Handles \cup {Nil}, name : Names \cup {Nil},
                       off : 0 .. MaxBlocks * Words, src : Seq(Values)]
      BY DEF DiskInv, TypeOK
    <2>2. call.off \in Nat /\ cur.size \in Nat
      BY <2>1, Geometry DEF Inode
    <2>3. pc = "data" /\ Count \in Int
      BY WithinBlock DEF WriteWords
    <2>4. call'.op = call.op /\ call'.ino = call.ino /\ call'.off = call.off + Count
      BY <2>1 DEF WriteWords
    <2>5. cur'.size = IF call.off + Count > cur.size THEN call.off + Count ELSE cur.size
      BY <2>1 DEF WriteWords, Inode
    <2> QED BY <2>2, <2>3, <2>4, <2>5 DEF Running
  <1> SUFFICES ASSUME Running', call.op = "write", ~inode'[call.ino].dir,
                      NEW p \in Positions, p < cur'.size \/ p < call'.off
               PROVE  Good(Links'[call.ino], disk', written', call.ino, p)
    BY <1>1 DEF WriteInv
  <1>2. /\ Target = call.ino /\ inode' = inode /\ call.ino \in inodeUsed /\ call.ino \in Inodes
        /\ \A s \in Slots : Links[call.ino][s] # 0 => Links'[call.ino][s] = Links[call.ino][s]
    BY <1>1, LinksGrow DEF Target, DiskInv, CallInv
  <1>3. p \in Nat
    BY DEF Positions
  <1>4. CASE p < cur.size \/ p < call.off
    <2>1. Good(Links[call.ino], disk, written, call.ino, p)
      BY <1>1, <1>2, <1>4 DEF WriteInv
    <2>2. Reach(Links[call.ino], disk, p \div Words) # 0
      BY <2>1 DEF Good
    <2> QED BY <1>2, <2>1, <2>2, WordsWritten
  <1>5. CASE ~(p < cur.size \/ p < call.off)
    <2>1. p \in call.off .. call.off + Count - 1
      BY <1>1, <1>3, <1>5
    <2>2. Reach(Links[call.ino], disk, p \div Words) = blk /\ blk # 0
      <3>1. p \div Words = At
        BY <1>1, <2>1, RangePlace
      <3>2. blk \in Blocks /\ Reach(Links[Target], disk, At) = blk
        BY <1>1 DEF DiskInv, ReservedInv, PlaceInv
      <3> QED BY <1>2, <3>1, <3>2 DEF Blocks
    <2> QED BY <1>2, <2>1, <2>2, WordsWritten
  <1> QED BY <1>4, <1>5

-----------------------------------------------------------------------------
(* Where the running call is                                               *)

LEMMA ReachSame ==
  ASSUME NEW S, NEW T, NEW D, NEW n \in Nat, \A s \in Slots : T[s] = S[s]
  PROVE  Reach(T, D, n) = Reach(S, D, n)
  <1>1. n < Direct => T[n] = S[n]
    BY Parts
  <1>2. T[Single] = S[Single] /\ T[Double] = S[Double]
    BY Geometry
  <1> QED BY <1>1, <1>2 DEF Reach

(* The place of the next block, as a step of the call leaves it.           *)
LEMMA CallPlace ==
  ASSUME DiskInv, Running
  PROVE  /\ call.off \in Nat /\ At \in Nat /\ cur \in Inode
         /\ Target \in inodeUsed /\ Target \in AllInodes
         /\ ~Unzeroed => \A s \in Slots : Links[Target][s] = cur.slot[s]
         /\ ~Unzeroed => Reach(Links[Target], disk, At) = Reach(cur.slot, disk, At)
         /\ \A k \in Entries : disk[0][k] = 0
  <1>1. call.off \in Nat /\ At \in Nat
    <2>1. call.off \in Nat
      BY Geometry DEF DiskInv, TypeOK
    <2> QED BY <2>1, Place
  <1>2. /\ Target \in inodeUsed /\ Target \in AllInodes
        /\ ~Unzeroed => \A s \in Slots : Links[Target][s] = cur.slot[s]
    BY TargetLinks
  <1>3. ~Unzeroed => Reach(Links[Target], disk, At) = Reach(cur.slot, disk, At)
    BY <1>1, <1>2, ReachSame
  <1> QED BY <1>1, <1>2, <1>3 DEF DiskInv, TypeOK, UnusedInv

(* A block is only taken where the file has none.                          *)
LEMMA TakePlaced ==
  ASSUME DiskInv, TakeBlock
  PROVE  PlaceInv'
  <1>1. /\ Running /\ Running' /\ ~Unzeroed /\ ~Unzeroed' /\ Target' = Target /\ At' = At
        /\ cur' = cur /\ disk' = disk /\ pc' = "link" /\ inode' = inode
    BY DEF TakeBlock, NeedsBlock, ScanNeedsBlock, Running, Unzeroed, Target, At
  <1>2. /\ At \in Nat /\ cur \in Inode /\ Target \in AllInodes
        /\ \A s \in Slots : Links[Target][s] = cur.slot[s]
    BY <1>1, CallPlace
  <1>3. Reach(cur.slot, disk, At) = 0
    <2>1. CASE ScanNeedsBlock
      <3>1. cur = inode[Root] /\ inode[Root] = DirInode(1) /\ call.off = inode[Root].size
        BY <2>1 DEF DiskInv, RootInv, CallInv, ScanNeedsBlock, Running, Growing
      <3>2. call.off = Words /\ cur.slot = [EmptyInode.slot EXCEPT ![0] = 1]
        BY <3>1 DEF DirInode
      <3>3. \A w \in Nat \ {0} : w \div w = 1
        BY Z3
      <3>4. At = 1
        BY <3>2, <3>3, Geometry DEF At
      <3>5. At < Direct + Words /\ At \in Slots /\ Single \in Slots /\ Single # 0 /\ Single = Direct
        BY <3>4, Geometry DEF Slots
      <3>6. cur.slot[Single] = 0 /\ (At < Direct => cur.slot[At] = 0)
        BY <3>2, <3>4, <3>5 DEF EmptyInode, Slots
      <3> QED BY <3>5, <3>6 DEF Reach
    <2>2. CASE pc = "next" /\ BlockAt(cur, call.off \div Words) = 0
      BY <2>2, ReachIsBlockAt DEF At
    <2> QED BY <2>1, <2>2 DEF TakeBlock, NeedsBlock
  <1>4. \A s \in Slots : Links'[Target][s] = cur.slot[s]
    BY <1>1, <1>2, NextLinkValues
  <1>5. Reach(Links'[Target], disk, At) = 0
    BY <1>2, <1>3, <1>4, ReachSame
  <1> QED BY <1>1, <1>5 DEF PlaceInv

LEMMA DirectPlaced ==
  ASSUME DiskInv, LinkDirect
  PROVE  PlaceInv'
  <1>1. /\ Running /\ Running' /\ ~Unzeroed /\ ~Unzeroed' /\ Target' = Target /\ At' = At
        /\ disk' = disk /\ pc' \in {"data", "clear"} /\ blk' = blk /\ inode' = inode
    BY DEF LinkDirect, Linked, Running, Unzeroed, Target, At, diskVars
  <1>2. /\ At \in Nat /\ cur \in Inode /\ Target \in AllInodes /\ At < Direct /\ At \in Slots
    BY <1>1, CallPlace, Parts DEF LinkDirect
  <1>3. cur'.slot[At] = blk
    BY <1>2 DEF LinkDirect, Inode, Slots
  <1>4. Links'[Target][At] = blk
    BY <1>1, <1>2, <1>3, NextLinkValues
  <1>5. Reach(Links'[Target], disk, At) = blk
    BY <1>2, <1>4 DEF Reach
  <1> QED BY <1>1, <1>5 DEF PlaceInv

(* While a table is being made nothing is reached through it.              *)
LEMMA TablePlaced ==
  ASSUME DiskInv, PlaceInv, TakeTable
  PROVE  PlaceInv'
  <1>1. /\ Running /\ Running' /\ ~Unzeroed /\ Target' = Target /\ At' = At /\ IndexAt' = IndexAt
        /\ TableSlot' = TableSlot /\ TableSlot \in Slots
        /\ disk' = disk /\ pc' = "zero" /\ pc = "link" /\ blk' = blk /\ inode' = inode
    BY Geometry DEF TakeTable, Running, Unzeroed, Target, At, IndexAt, TableSlot
  <1>2. /\ At \in Nat /\ cur \in Inode /\ Target \in AllInodes /\ Target \in inodeUsed
        /\ \A s \in Slots : Links[Target][s] = cur.slot[s]
        /\ Reach(Links[Target], disk, At) = 0
    BY <1>1, CallPlace DEF PlaceInv
  <1>3. tab' \notin blockUsed
    BY FreshBlock DEF TakeTable
  <1>4. \A s \in Slots : Links'[Target][s] = Links[Target][s]
    <2>1. CASE NeedsTable
      <3>1. cur'.slot = [cur.slot EXCEPT ![TableSlot] = tab'] /\ cur.slot[TableSlot] = 0
        BY <1>2, <2>1 DEF TakeTable, NeedsTable, Inode
      <3>2. \A s \in Slots : cur'.slot[s] = IF s = TableSlot THEN tab' ELSE cur.slot[s]
        BY <1>2, <3>1 DEF Inode, Slots
      <3>3. Unzeroed'
        BY <1>1, <3>2 DEF Unzeroed
      <3> QED BY <1>1, <1>2, <3>1, <3>2, <3>3, NextLinkValues
    <2>2. CASE ~NeedsTable
      <3>1. cur' = cur
        BY <2>2 DEF TakeTable
      <3>2. cur.slot[TableSlot] # 0 => cur.slot[TableSlot] \in blockUsed
        BY <1>1, <1>2, MarkedSlot
      <3> QED BY <1>1, <1>2, <1>3, <3>1, <3>2, NextLinkValues DEF Unzeroed
    <2> QED BY <2>1, <2>2
  <1>5. Reach(Links'[Target], disk, At) = 0
    BY <1>2, <1>4, ReachSame
  <1>6. ~Unzeroed' => disk[cur'.slot[Double]][IndexAt] = 0
    <2>1. CASE NeedsTable
      <3>1. cur'.slot[TableSlot] = tab'
        BY <1>1, <1>2, <2>1 DEF TakeTable, Inode, Slots
      <3> QED BY <1>1, <3>1 DEF Unzeroed
    <2>2. CASE ~NeedsTable
      BY <2>2 DEF TakeTable, NeedsIndex
    <2> QED BY <2>1, <2>2
  <1> QED BY <1>1, <1>5, <1>6 DEF PlaceInv

LEMMA ZeroPlaced ==
  ASSUME DiskInv, PlaceInv, ZeroTable
  PROVE  PlaceInv'
  <1>1. /\ Running /\ Running' /\ ~Unzeroed' /\ Target' = Target /\ At' = At /\ IndexAt' = IndexAt
        /\ TableSlot \in Slots /\ cur' = cur /\ blk' = blk /\ inode' = inode
        /\ pc' \in {"link", "index"}
    BY Geometry DEF ZeroTable, Running, Unzeroed, Target, At, IndexAt, TableSlot
  <1>2. /\ At \in Nat /\ cur \in Inode /\ Target \in AllInodes /\ call.off \in Nat
        /\ \A k \in Entries : disk[0][k] = 0
    BY <1>1, CallPlace
  <1>3. /\ tab \in Blocks /\ tab # 0 /\ ~IsTable(Links, disk, inodeUsed, tab)
        /\ Direct <= At /\ At < MaxBlocks
        /\ ~Unzeroed => Direct + Words <= At /\ cur.slot[Double] # 0
    BY ReservedFacts DEF ZeroTable, DiskInv, ReservedInv
  <1>4. /\ \A c \in 0 .. NBlocks : c # tab => disk'[c] = disk[c]
        /\ \A k \in Entries : disk'[tab][k] = 0 /\ disk'[0][k] = 0
    <2>1. disk \in [0 .. NBlocks -> Block] /\ 0 \in 0 .. NBlocks /\ tab \in 0 .. NBlocks
      BY <1>3, Records DEF DiskInv, TypeOK
    <2> QED BY <1>2, <1>3, <2>1 DEF ZeroTable, Zeros, Entries
  <1>5. \A s \in Slots : Links'[Target][s] = cur.slot[s]
    BY <1>1, <1>2, NextLinkValues
  <1>6. /\ At < Direct + Words => At - Direct \in Entries /\ TableSlot = Single
        /\ Direct + Words <= At => /\ IndexAt \in Entries /\ TableSlot = Double
                                   /\ (At - Direct - Words) % Words \in Entries
    BY <1>2, <1>3, Place
  <1>7. CASE Unzeroed
    <2>1. pc' = "link" /\ cur.slot[TableSlot] = tab
      BY <1>7 DEF ZeroTable, Unzeroed
    <2>2. CASE At < Direct + Words
      <3>1. Reach(cur.slot, disk', At) = disk'[tab][At - Direct]
        BY <1>2, <1>3, <1>6, <2>1, <2>2, Geometry DEF Reach
      <3>2. Reach(Links'[Target], disk', At) = 0
        BY <1>2, <1>4, <1>5, <1>6, <2>2, <3>1, ReachSame
      <3> QED BY <1>1, <2>1, <3>2 DEF PlaceInv
    <2>3. CASE Direct + Words <= At
      <3>1. Reach(cur.slot, disk', At) = disk'[disk'[tab][IndexAt]][(At - Direct - Words) % Words]
        BY <1>2, <1>3, <1>6, <2>1, <2>3, Geometry DEF Reach, IndexAt
      <3>2. Reach(Links'[Target], disk', At) = 0
        BY <1>2, <1>4, <1>5, <1>6, <2>3, <3>1, ReachSame
      <3> QED BY <1>1, <2>1, <3>2 DEF PlaceInv
    <2> QED BY <1>2, <2>2, <2>3, Geometry
  <1>8. CASE ~Unzeroed
    <2>1. pc' = "index" /\ disk[cur.slot[Double]][IndexAt] = 0
      BY <1>8 DEF ZeroTable, Unzeroed, PlaceInv
    <2>2. cur.slot[Double] \in Blocks /\ IsTable(Links, disk, inodeUsed, cur.slot[Double])
      BY <1>1, <1>3, <1>8, UpperTable
    <2>3. disk'[cur.slot[Double]][IndexAt] = 0
      <3>1. cur.slot[Double] \in 0 .. NBlocks /\ cur.slot[Double] # tab
        BY <1>3, <2>2, Records
      <3> QED BY <1>4, <2>1, <3>1
    <2>4. Reach(cur.slot, disk', At)
            = disk'[disk'[cur.slot[Double]][IndexAt]][(At - Direct - Words) % Words]
      BY <1>2, <1>3, <1>8, Geometry DEF Reach, IndexAt
    <2>5. Reach(Links'[Target], disk', At) = 0
      BY <1>2, <1>3, <1>4, <1>5, <1>6, <1>8, <2>3, <2>4, ReachSame
    <2> QED BY <1>1, <2>1, <2>3, <2>5 DEF PlaceInv
  <1> QED BY <1>7, <1>8

LEMMA IndexPlaced ==
  ASSUME DiskInv, PlaceInv, WriteIndex
  PROVE  PlaceInv'
  <1>1. /\ Running /\ Running' /\ ~Unzeroed /\ ~Unzeroed' /\ Target' = Target /\ At' = At
        /\ cur' = cur /\ inode' = inode /\ pc' = "link"
    BY DEF WriteIndex, Running, Unzeroed, Target, At
  <1>2. /\ At \in Nat /\ cur \in Inode /\ Target \in AllInodes /\ call.off \in Nat
    BY <1>1, CallPlace
  <1>3. /\ tab \in Blocks /\ ~IsTable(Links, disk, inodeUsed, tab)
        /\ Direct + Words <= At /\ At < MaxBlocks /\ cur.slot[Double] # 0
        /\ \A k \in Entries : disk[tab][k] = 0
    BY ReservedFacts DEF WriteIndex, DiskInv, ReservedInv
  <1>4. IndexAt \in Entries /\ (At - Direct - Words) % Words \in Entries
    BY <1>2, <1>3, Place
  <1>5. disk'[cur.slot[Double]][IndexAt] = tab /\ \A k \in Entries : disk'[tab][k] = 0
    <2>1. /\ cur.slot[Double] \in Blocks /\ cur.slot[Double] # tab
          /\ \A u \in 0 .. NBlocks, k \in Entries :
               disk'[u][k] = IF u = cur.slot[Double] /\ k = IndexAt THEN tab ELSE disk[u][k]
      BY <1>3, IndexWritten
    <2>2. cur.slot[Double] \in 0 .. NBlocks /\ tab \in 0 .. NBlocks
      BY <1>3, <2>1, Records
    <2> QED BY <1>3, <1>4, <2>1, <2>2
  <1>6. Reach(cur.slot, disk', At)
          = disk'[disk'[cur.slot[Double]][IndexAt]][(At - Direct - Words) % Words]
    BY <1>2, <1>3, Geometry DEF Reach, IndexAt
  <1>7. \A s \in Slots : Links'[Target][s] = cur.slot[s]
    BY <1>1, <1>2, NextLinkValues
  <1>8. Reach(Links'[Target], disk', At) = 0
    BY <1>2, <1>4, <1>5, <1>6, <1>7, ReachSame
  <1> QED BY <1>1, <1>8 DEF PlaceInv

LEMMA EntryPlaced ==
  ASSUME DiskInv, PlaceInv, LinkInTable
  PROVE  PlaceInv'
  <1>1. /\ Running /\ Running' /\ ~Unzeroed /\ ~Unzeroed' /\ Target' = Target /\ At' = At
        /\ cur' = cur /\ inode' = inode /\ pc' \in {"data", "clear"} /\ blk' = blk
    BY DEF LinkInTable, Linked, Running, Unzeroed, Target, At
  <1>2. At \in Nat /\ Target \in AllInodes
    BY <1>1, CallPlace
  <1>3. \A s \in Slots : Links'[Target][s] = cur.slot[s]
    BY <1>1, <1>2, NextLinkValues
  <1>4. Reach(Links'[Target], disk', At) = blk
    BY <1>2, <1>3, LinkWritten, ReachSame
  <1> QED BY <1>1, <1>4 DEF PlaceInv

LEMMA NextPlaced ==
  ASSUME DiskInv, NextBlock
  PROVE  PlaceInv'
  <1>1. /\ Running /\ Running' /\ ~Unzeroed /\ ~Unzeroed' /\ Target' = Target /\ At' = At
        /\ cur' = cur /\ inode' = inode /\ disk' = disk
        /\ pc' = "save" \/ (pc' = "data" /\ blk' = BlockAt(cur, At))
    BY DEF NextBlock, Running, Unzeroed, Target, At, diskVars
  <1>2. At \in Nat /\ Target \in AllInodes
    BY <1>1, CallPlace
  <1>3. \A s \in Slots : Links'[Target][s] = cur.slot[s]
    BY <1>1, <1>2, NextLinkValues
  <1>4. Reach(Links'[Target], disk, At) = BlockAt(cur, At)
    BY <1>2, <1>3, ReachSame, ReachIsBlockAt
  <1> QED BY <1>1, <1>4 DEF PlaceInv

LEMMA PlaceKept ==
  ASSUME DiskInv, PlaceInv, Next
  PROVE  PlaceInv'
  <1>1. ASSUME pc' \in {"idle", "hung", "next", "record", "dirblock", "scan", "enter", "save"}
        PROVE  PlaceInv'
    BY <1>1 DEF PlaceInv
  <1>2. CASE \/ \E h \in Handles, n \in Names : Open(h, n) \/ Create(h, n)
             \/ \E n \in Names : LookupHangs(n) \/ Mkdir(n)
             \/ \E h \in Handles, src \in Sources : BeginWrite(h, src)
             \/ \E h \in Handles, p \in Offsets : Seek(h, p)
             \/ \E h \in Handles : Close(h)
             \/ TakeDirBlock \/ NoDirBlock \/ NoBlock \/ LinkFails \/ Scan \/ WriteDots
             \/ WriteWords \/ ClearBlock \/ EnterName \/ SaveInode \/ Crash
    BY <1>1, <1>2 DEF Open, Create, LookupHangs, Mkdir, BeginWrite, Seek, Close, TakeDirBlock,
       NoDirBlock, NoBlock, LinkFails, GiveUp, EndCall, Scan, ScanDuplicate, ScanFindsRoom,
       ScanHangs, WriteDots, WriteWords, ClearBlock, EnterName, SaveInode, Crash
  <1>3. CASE WriteRecord
    <2>1. /\ call.ino \in AllInodes /\ call' = call /\ blk' = blk /\ 0 \in Slots
          /\ inode \in [AllInodes -> Inode] /\ pc = "record"
      BY <1>3, Geometry DEF WriteRecord, DiskInv, TypeOK, AllInodes, Slots
    <2>2. pc' = "dots" => inode'[call.ino].dir /\ inode'[call.ino].slot[0] = blk
      BY <1>3, <2>1 DEF WriteRecord, DirInode, EmptyInode, Slots
    <2>3. pc' \in {"scan", "dots"}
      BY <1>3 DEF WriteRecord
    <2> QED BY <2>1, <2>2, <2>3 DEF PlaceInv
  <1> QED BY <1>2, <1>3, TakePlaced, DirectPlaced, TablePlaced, ZeroPlaced, IndexPlaced, EntryPlaced,
             NextPlaced DEF Next, Allocate, Link, Store

-----------------------------------------------------------------------------
(* Kinds and sizes                                                         *)

(* An inode that nobody has is empty, so that its next owner's file is.    *)
LEMMA KindsKept ==
  ASSUME DiskInv, KindInv, Next
  PROVE  KindInv'
  <1>1. /\ inode \in [AllInodes -> Inode] /\ Root \in AllInodes /\ inodeUsed \subseteq AllInodes
        /\ cur \in Inode /\ Inodes \subseteq AllInodes /\ CallInv
        /\ call \in [op : {"none", "create", "mkdir", "write"}, ino : {Root} \cup Inodes,
                     h : Handles \cup {Nil}, name : Names \cup {Nil},
                     off : 0 .. MaxBlocks * Words, src : Seq(Values)]
    BY DEF DiskInv, TypeOK, AllInodes
  <1>2. Running => Target \in AllInodes /\ Target \in inodeUsed
    BY TargetLinks
  <1>3. ASSUME NEW op \in {"create", "mkdir"}, NEW h, NEW n, TakeInode(op, h, n) PROVE KindInv'
    <2> DEFINE new == Lowest(FreeInodes)
    <2>1. /\ inode' = inode /\ inodeUsed' = inodeUsed \cup {new}
          /\ new \in Inodes /\ new \notin inodeUsed
          /\ call'.op = op /\ call'.ino = new /\ cur' = inode[Root]
      BY <1>3, FreshInode DEF TakeInode, NoCall
    <2>2. Target' = Root
      BY <2>1 DEF Target
    <2> QED BY <2>1, <2>2 DEF KindInv
  <1>4. CASE \/ \E h \in Handles, n \in Names : Open(h, n)
             \/ \E h \in Handles, p \in Offsets : Seek(h, p)
             \/ \E n \in Names : LookupHangs(n)
             \/ Crash
    <2>1. inode' = inode /\ inodeUsed' = inodeUsed /\ ~Running' /\ pc' \in {"idle", "hung"}
      BY <1>4 DEF Open, Seek, LookupHangs, Crash, EndCall, Running, diskVars
    <2> QED BY <2>1 DEF KindInv
  <1>5. ASSUME NEW h \in Handles, Close(h) PROVE KindInv'
    <2>1. handle[h].ino \in inodeUsed /\ pc' = "idle" /\ inodeUsed' = inodeUsed
      BY <1>5 DEF Close, DiskInv, HandleInv
    <2>2. \A i \in AllInodes : /\ inode'[i].dir = inode[i].dir
                               /\ i # handle[h].ino => inode'[i] = inode[i]
      BY <1>1, <1>5 DEF Close, Inode
    <2> QED BY <1>1, <2>1, <2>2 DEF KindInv, Running
  <1>6. ASSUME NEW h \in Handles, NEW src \in Sources, BeginWrite(h, src) PROVE KindInv'
    <2>1. /\ call'.op = "write" /\ call'.ino = handle[h].ino /\ cur' = inode[handle[h].ino]
          /\ pc' = "next" /\ inode' = inode /\ inodeUsed' = inodeUsed
      BY <1>6 DEF BeginWrite, NoCall, diskVars
    <2> QED BY <2>1 DEF KindInv, Target
  <1>7. CASE NoDirBlock \/ NoBlock \/ LinkFails \/ Scan
    <2>1. /\ inode' = inode
          /\ \/ inodeUsed' = inodeUsed
             \/ inodeUsed' = inodeUsed \ {call.ino} /\ inode[call.ino].size = 0
          /\ \/ pc' \in {"idle", "hung"}
             \/ pc' = "enter" /\ cur' = cur /\ call' = call /\ pc = "scan"
      BY <1>1, <1>7 DEF NoDirBlock, NoBlock, NeedsBlock, ScanNeedsBlock, LinkFails, Scan,
         ScanDuplicate, ScanFindsRoom, ScanHangs, GiveUp, EndCall, CallInv, KindInv, Running, diskVars
    <2>2. Running' => Running /\ Target' = Target /\ cur' = cur
      BY <2>1 DEF Running, Target
    <2> QED BY <2>1, <2>2 DEF KindInv
  <1>8. CASE WriteRecord
    <2>1. /\ Running /\ Running' /\ Target' = Target /\ Target = Root /\ cur' = cur
          /\ call.ino \in Inodes /\ call.ino \in inodeUsed /\ call.ino # Root
          /\ inodeUsed' = inodeUsed /\ pc' \in {"scan", "dots"}
      BY <1>8, RootApart DEF WriteRecord, Running, Target, DiskInv, CallInv, Growing
    <2>2. \A i \in AllInodes : i # call.ino => inode'[i] = inode[i]
      BY <1>1, <1>8 DEF WriteRecord
    <2> QED BY <1>1, <2>1, <2>2 DEF KindInv
  <1>9. CASE SaveInode
    <2>1. Running /\ ~Running' /\ pc' = "idle" /\ inodeUsed' = inodeUsed
      BY <1>9 DEF SaveInode, EndCall, Running
    <2>2. \A i \in AllInodes : inode'[i] = IF i = Target THEN cur ELSE inode[i]
      BY <1>1, <1>9 DEF SaveInode, Target
    <2> QED BY <1>1, <1>2, <2>1, <2>2 DEF KindInv
  <1>10. CASE \/ TakeDirBlock \/ TakeBlock \/ LinkDirect \/ TakeTable \/ ZeroTable \/ WriteIndex
              \/ LinkInTable \/ WriteDots \/ NextBlock \/ WriteWords \/ ClearBlock \/ EnterName
    <2>1. /\ Running /\ inode' = inode /\ inodeUsed' = inodeUsed
          /\ call'.op = call.op /\ call'.ino = call.ino
          /\ pc' = "dirblock" => FALSE
          /\ pc' = "record" => pc = "dirblock"
      BY <1>1, <1>10
      DEF TakeDirBlock, TakeBlock, NeedsBlock, ScanNeedsBlock, LinkDirect, Linked, TakeTable,
          ZeroTable, WriteIndex, LinkInTable, WriteDots, NextBlock, WriteWords, ClearBlock,
          EnterName, Running, diskVars
    <2>2. cur'.dir = cur.dir
      BY <1>1, <1>10
      DEF TakeDirBlock, TakeBlock, LinkDirect, TakeTable, ZeroTable, WriteIndex, LinkInTable,
          WriteDots, NextBlock, WriteWords, ClearBlock, EnterName, Inode
    <2>3. Target' = Target
      BY <2>1 DEF Target
    <2> QED BY <2>1, <2>2, <2>3 DEF KindInv
  <1> QED BY <1>3, <1>4, <1>5, <1>6, <1>7, <1>8, <1>9, <1>10
          DEF Next, Create, Mkdir, Allocate, Link, Store

-----------------------------------------------------------------------------
(* The invariant and the theorem                                           *)

LEMMA ContentsStay ==
  ASSUME DiskInv, LeafInv, Next
  PROVE  ContentsInv'
  <1>1. ContentsInv /\ WriteInv /\ PlaceInv /\ KindInv
    BY DEF LeafInv
  <1>2. CASE ZeroTable \/ WriteIndex \/ LinkInTable \/ WriteDots \/ ClearBlock
    BY <1>1, <1>2, ZeroTouches, IndexTouches, LinkTouches, DirectoryTouches, TouchesKeep
  <1>3. CASE ~(ZeroTable \/ WriteIndex \/ LinkInTable \/ WriteDots \/ ClearBlock)
    BY <1>1, <1>3, HandlesKeep, CallsKeep, BeginsKeep, RecordKeeps, SaveKeeps, WordsKeep
    DEF Next, Link, Store
  <1> QED BY <1>2, <1>3

LEMMA WritesStay ==
  ASSUME DiskInv, LeafInv, Next
  PROVE  WriteInv'
  <1>1. ContentsInv /\ WriteInv /\ PlaceInv /\ KindInv
    BY DEF LeafInv
  <1>2. /\ Growing => call.op # "write"
        /\ Running /\ call.op = "write" => pc \in {"next", "link", "zero", "index", "data", "save"}
    BY DEF Growing, DiskInv, CallInv
  <1>3. ASSUME ~Running' \/ call'.op # "write" PROVE WriteInv'
    BY <1>3 DEF WriteInv
  <1>4. CASE \/ \E h \in Handles, n \in Names : Open(h, n) \/ Create(h, n)
             \/ \E n \in Names : LookupHangs(n) \/ Mkdir(n)
             \/ \E h \in Handles, p \in Offsets : Seek(h, p)
             \/ \E h \in Handles : Close(h)
             \/ NoDirBlock \/ NoBlock \/ LinkFails \/ SaveInode \/ Crash
             \/ ScanDuplicate \/ ScanHangs
    BY <1>3, <1>4 DEF Open, Create, LookupHangs, Mkdir, TakeInode, NoCall, Seek, Close, NoDirBlock,
       NoBlock, LinkFails, GiveUp, EndCall, SaveInode, Crash, ScanDuplicate, ScanHangs, Running
  <1>5. CASE TakeDirBlock \/ WriteRecord \/ WriteDots \/ ClearBlock \/ EnterName \/ ScanFindsRoom
    <2>1. Running /\ call' = call /\ call.op # "write"
      BY <1>2, <1>5 DEF TakeDirBlock, WriteRecord, WriteDots, ClearBlock, EnterName, ScanFindsRoom,
                        Running
    <2> QED BY <1>3, <2>1
  <1>6. CASE \E h \in Handles, src \in Sources : BeginWrite(h, src)
    BY <1>1, <1>6, WriteBegins
  <1>7. CASE WriteWords
    BY <1>1, <1>7, WriteGoesOn
  <1>8. CASE ZeroTable \/ WriteIndex \/ LinkInTable
    BY <1>1, <1>8, ZeroTouches, IndexTouches, LinkTouches, WriteStays
  <1>9. CASE TakeBlock \/ LinkDirect \/ TakeTable \/ NextBlock
    <2>1. disk' = disk /\ written' = written
      BY <1>9 DEF TakeBlock, LinkDirect, TakeTable, NextBlock, diskVars, history
    <2> QED BY <1>1, <1>9, <2>1, WriteStays
  <1> QED BY <1>4, <1>5, <1>6, <1>7, <1>8, <1>9 DEF Next, Allocate, Link, Scan, Store

LEMMA LeafStarts ==
  ASSUME Init
  PROVE  LeafInv
  <1>1. /\ pc = "idle" /\ Root \in AllInodes /\ 0 \in Nat
        /\ \A i \in AllInodes : inode[i] = IF i = Root THEN DirInode(1) ELSE EmptyInode
        /\ \A h \in Handles : handle[h] = Closed
    BY DEF Init, AllInodes
  <1>2. \A i \in Inodes : i \in AllInodes /\ inode[i].size = 0
    BY <1>1, RootApart DEF EmptyInode
  <1>3. ContentsInv
    <2> SUFFICES ASSUME NEW i \in Files, NEW p \in Positions, Claimed(i, p)
                 PROVE  FALSE
      BY DEF ContentsInv
    <2> QED BY <1>1, <1>2 DEF Files, Positions, Claimed, Closed
  <1>4. WriteInv /\ PlaceInv
    BY <1>1 DEF WriteInv, PlaceInv, Running
  <1>5. KindInv
    BY <1>1, <1>2 DEF KindInv, Running, DirInode
  <1> QED BY <1>3, <1>4, <1>5 DEF LeafInv

LEMMA LeafKept ==
  ASSUME DiskInv, LeafInv, [Next]_vars
  PROVE  LeafInv'
  <1>1. CASE Next
    <2>1. PlaceInv' /\ KindInv'
      BY <1>1, PlaceKept, KindsKept DEF LeafInv
    <2> QED BY <1>1, <2>1, ContentsStay, WritesStay DEF LeafInv
  <1>2. CASE UNCHANGED vars
    <2>1. /\ UNCHANGED <<blockUsed, inodeUsed, inode, disk, listing, roomy>>
          /\ UNCHANGED <<handle, pc, call, cur, blk, tab, written, created, shared>>
      BY <1>2 DEF vars, diskVars, history
    <2>2. /\ Running' <=> Running
          /\ Target' = Target /\ At' = At /\ TableSlot' = TableSlot /\ IndexAt' = IndexAt
          /\ Unzeroed' <=> Unzeroed
          /\ Files' = Files
      BY <2>1 DEF Running, Target, At, TableSlot, IndexAt, Unzeroed, Files
    <2>3. Links' = Links
      BY <2>1, <2>2 DEF Links, Working
    <2>4. \A i, p : Claimed(i, p)' <=> Claimed(i, p)
      BY <2>1 DEF Claimed
    <2>5. ContentsInv'
      BY <2>1, <2>2, <2>4 DEF LeafInv, ContentsInv
    <2>6. WriteInv' /\ PlaceInv' /\ KindInv'
      BY <2>1, <2>2, <2>3 DEF LeafInv, WriteInv, PlaceInv, KindInv
    <2> QED BY <2>5, <2>6 DEF LeafInv
  <1> QED BY <1>1, <1>2

LEMMA ContentsFollow ==
  ASSUME DiskInv, LeafInv
  PROVE  ContentsKept
  <1> SUFFICES ASSUME NEW i \in inodeUsed, ~inode[i].dir, NEW p \in 0 .. inode[i].size - 1
               PROVE  /\ BlockAt(inode[i], p \div Words) # 0
                      /\ disk[BlockAt(inode[i], p \div Words)][p % Words] = written[i][p]
    BY DEF ContentsKept
  <1>1. i \in Files
    BY DEF DiskInv, TypeOK, LeafInv, KindInv, Files
  <1>2. p \in Positions /\ p < inode[i].size
    <2>1. inode[i] \in Inode
      BY DEF DiskInv, TypeOK
    <2>2. inode[i].size \in 0 .. MaxBlocks * Words
      BY <2>1 DEF Inode
    <2> QED BY <2>2, Geometry DEF Positions
  <1>3. Good(inode[i].slot, disk, written, i, p)
    BY <1>1, <1>2 DEF LeafInv, ContentsInv, Claimed
  <1> QED BY <1>3, ReachIsBlockAt DEF Good

(* A file has, word by word up to its size, what was last written to it:   *)
(* through whichever handle, around whatever ext2_create and ext2_mkdir do *)
(* to the directory, after any crash and any failed call, on a disk and    *)
(* with a block size of any size (ext2_write, ext2_write_block_to_inode).  *)
THEOREM FilesKeepContents == Spec => []ContentsKept
  <1>1. Init => DiskInv /\ LeafInv
    BY DiskStarts, LeafStarts
  <1>2. (DiskInv /\ LeafInv) /\ [Next]_vars => (DiskInv /\ LeafInv)'
    BY DiskKept, LeafKept
  <1>3. DiskInv /\ LeafInv => ContentsKept
    BY ContentsFollow
  <1> QED BY <1>1, <1>2, <1>3, PTL DEF Spec
=============================================================================
