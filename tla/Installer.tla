----------------------------- MODULE Installer -----------------------------
(***************************************************************************)
(* The installer (installer_syst/src/kernel/main.c): choosing a disk and   *)
(* writing the system image to it, block by block, onto a disk that keeps  *)
(* what it is given in a cache until it is told to flush.  Writes may fail *)
(* part of the way, and the power may fail between any two steps.          *)
(***************************************************************************)
EXTENDS Integers

CONSTANTS
  DiskCount,    \* disk_get_count()
  IsATAPI,      \* [Disks -> BOOLEAN]
  DiskSectors,  \* [Disks -> Nat]
  ImageSectors, \* system_img_size / 512
  BlockSectors, \* write_sectors_per_block, and the sectors prepare_disk clears
  FlushEvery    \* blocks between two flushes, 8

Disks == 0..DiskCount - 1

ASSUME DiskAssumption ==
  /\ DiskCount \in Nat
  /\ IsATAPI \in [Disks -> BOOLEAN] /\ DiskSectors \in [Disks -> Nat]
ASSUME ImageAssumption == {ImageSectors, BlockSectors, FlushEvery} \subseteq Nat \ {0}

VARIABLES
  current_stage, selected_disk, installing,
  step,    \* where perform_installation is
  block,   \* its loop variable
  media,   \* what reading a sector of a disk returns
  platter, \* what is left of it when the power fails
  lost     \* a write or a flush of this installation failed

installVars == <<current_stage, selected_disk, installing, step, block, media, platter, lost>>

Content == {"old", "zero", "image", "stamped"}
Sectors(d) == 0..DiskSectors[d] - 1

(* The signature is in the image's first sector, and where it was put.     *)
Signed(content) == content \in {"image", "stamped"}

FitsAnyHardDisk(d) == ~IsATAPI[d]

Fits(d) == ~IsATAPI[d] /\ DiskSectors[d] >= ImageSectors
HardDisks == {d \in Disks : ~IsATAPI[d]}

WholeBlocks == ImageSectors \div BlockSectors

TotalBlocks == (ImageSectors + BlockSectors - 1) \div BlockSectors

Lower(a, b) == IF a < b THEN a ELSE b

FreshInstaller ==
  /\ current_stage' = "welcome" /\ selected_disk' = 0 /\ installing' = FALSE
  /\ step' = "none" /\ block' = 0 /\ lost' = FALSE

InstallerInit ==
  /\ current_stage = "welcome" /\ selected_disk = 0 /\ installing = FALSE
  /\ step = "none" /\ block = 0 /\ lost = FALSE
  /\ media = [d \in Disks |-> [s \in Sectors(d) |-> "old"]]
  /\ platter = media

-----------------------------------------------------------------------------
(* The pages of the window                                                 *)

(* "Install" of the first page, and "Back" of the second: the first hard   *)
(* disk becomes the selected one.                                          *)
WelcomeInstall ==
  /\ current_stage \in {"welcome", "select_disk"}
  /\ current_stage' = "select_disk"
  /\ selected_disk' = IF HardDisks = {} THEN selected_disk
                      ELSE CHOOSE d \in HardDisks : \A e \in HardDisks : d <= e
  /\ UNCHANGED <<installing, step, block, media, platter, lost>>

(* There is a button for every hard disk, those that are too small too.    *)
SelectDisk(d) ==
  /\ current_stage = "select_disk" /\ ~installing /\ d \in HardDisks
  /\ selected_disk' = d
  /\ UNCHANGED <<current_stage, installing, step, block, media, platter, lost>>

(* What was on the disk is from here on no more than what was there: the   *)
(* sectors it held of an earlier image do not belong to this one.          *)
StartInstallation ==
  /\ current_stage = "select_disk" /\ ~installing
  /\ selected_disk < DiskCount /\ Fits(selected_disk)
  /\ installing' = TRUE /\ current_stage' = "installing" /\ step' = "check"
  /\ media' = [media EXCEPT ![selected_disk] = [s \in Sectors(selected_disk) |-> "old"]]
  /\ platter' = [platter EXCEPT ![selected_disk] = [s \in Sectors(selected_disk) |-> "old"]]
  /\ UNCHANGED <<selected_disk, block, lost>>

(* The same button, with a disk the image does not fit on: a message says  *)
(* so (module Notifications).                                              *)
RefuseSmallDisk ==
  /\ current_stage = "select_disk" /\ ~installing
  /\ selected_disk < DiskCount /\ ~IsATAPI[selected_disk] /\ ~Fits(selected_disk)
  /\ UNCHANGED installVars

-----------------------------------------------------------------------------
(* perform_installation                                                    *)

(* A write that fails has done the sectors before the one it failed at.    *)
Write(start, count, content) ==
  \E done \in 0..count :
    /\ done > 0 => start + done <= DiskSectors[selected_disk]
    /\ media' = [media EXCEPT ![selected_disk] =
                   [s \in Sectors(selected_disk) |->
                      IF s \in start..start + done - 1 THEN content ELSE @[s]]]
    /\ lost' = (lost \/ done < count)

(* Its result is ignored.                                                  *)
Flush ==
  \/ platter' = [platter EXCEPT ![selected_disk] = media[selected_disk]] /\ UNCHANGED lost
  \/ lost' = TRUE /\ UNCHANGED platter

CheckTargetStrict ==
  /\ step = "check" /\ selected_disk < DiskCount
  /\ step' = IF Fits(selected_disk) /\ DiskSectors[selected_disk] > ImageSectors
               THEN "clear" ELSE "none"
  /\ UNCHANGED <<current_stage, selected_disk, installing, block, media, platter, lost>>

(* The checks of start_installation once more: one that failed here would  *)
(* leave the installer in this stage for good.                             *)
CheckTarget ==
  /\ step = "check" /\ selected_disk < DiskCount
  /\ step' = IF Fits(selected_disk) THEN "clear" ELSE "none"
  /\ UNCHANGED <<current_stage, selected_disk, installing, block, media, platter, lost>>

(* Without memory for the zeros nothing is cleared, nor flushed.           *)
ClearBootArea ==
  /\ step = "clear"
  /\ \/ Write(0, BlockSectors, "zero") /\ step' = "clear_flush"
     \/ step' = "write" /\ UNCHANGED <<media, lost>>
  /\ UNCHANGED <<current_stage, selected_disk, installing, block, platter>>

FlushBootArea ==
  /\ step = "clear_flush" /\ step' = "write" /\ Flush
  /\ UNCHANGED <<current_stage, selected_disk, installing, block, media>>

WriteBlock ==
  LET start == block * BlockSectors IN
  /\ step = "write" /\ block < TotalBlocks
  /\ Write(start, Lower(BlockSectors, ImageSectors - start), "image")
  /\ IF (block + 1) % FlushEvery = 0 \/ block = TotalBlocks - 1
       THEN step' = "flush" /\ UNCHANGED block
       ELSE block' = block + 1 /\ UNCHANGED step
  /\ UNCHANGED <<current_stage, selected_disk, installing, platter>>

FlushBlocks ==
  /\ step = "flush" /\ block' = block + 1 /\ step' = "write" /\ Flush
  /\ UNCHANGED <<current_stage, selected_disk, installing, media>>

(* The five flushes at the end, of which one is enough.                    *)
FinalSync ==
  /\ step = "write" /\ block = TotalBlocks /\ step' = "verify" /\ Flush
  /\ UNCHANGED <<current_stage, selected_disk, installing, block, media>>

(* A first sector without the signature is given one, which is not flushed;*)
(* then completion_message, whatever became of the writes.                 *)
VerifyMBR ==
  /\ step = "verify" /\ step' = "none" /\ current_stage' = "complete"
  /\ \/ UNCHANGED media \* the sector cannot be read, or is signed
     \/ /\ ~Signed(media[selected_disk][0])
        /\ media' = [media EXCEPT ![selected_disk][0] = "stamped"]
  /\ UNCHANGED <<selected_disk, installing, block, platter, lost>>

PerformInstallation ==
  \/ CheckTarget \/ ClearBootArea \/ FlushBootArea
  \/ WriteBlock \/ FlushBlocks \/ FinalSync \/ VerifyMBR

InstallerNext ==
  \/ WelcomeInstall \/ StartInstallation \/ PerformInstallation
  \/ \E d \in Disks : SelectDisk(d)

(* Of the sectors still in a disk's cache any may have been written.       *)
LoseCache ==
  /\ platter' \in {[d \in Disks |-> [s \in Sectors(d) |->
                      IF <<d, s>> \in kept THEN media[d][s] ELSE platter[d][s]]] :
                     kept \in SUBSET {c \in UNION {{d} \X Sectors(d) : d \in Disks} :
                                        media[c[1]][c[2]] # platter[c[1]][c[2]]}}
  /\ media' = platter'

-----------------------------------------------------------------------------
InstallerTypeOK ==
  /\ current_stage \in {"welcome", "select_disk", "installing", "complete"}
  /\ selected_disk \in Nat /\ installing \in BOOLEAN /\ lost \in BOOLEAN
  /\ step \in {"none", "check", "clear", "clear_flush", "write", "flush", "verify"}
  /\ block \in 0..TotalBlocks
  /\ \A d \in Disks : media[d] \in [Sectors(d) -> Content] /\ platter[d] \in [Sectors(d) -> Content]

ImageOn(d) == \A s \in 0..ImageSectors - 1 : platter[d][s] = "image"

(* An installation that says it is complete, and none of whose writes or   *)
(* flushes failed, has left the whole image on the selected disk, where a  *)
(* power failure does not reach it.                                        *)
CompleteIsWhole ==
  current_stage = "complete" /\ ~lost => ImageOn(selected_disk)

(* Nothing is ever written to a disk the image does not fit on, nor to a   *)
(* CD: not with the disk selected at the start, which nobody chose, nor    *)
(* with the one that stays selected when a page is left and entered again. *)
OnlyFittingTouched ==
  \A d \in Disks : (\E s \in Sectors(d) : media[d][s] # "old") =>
                 ~IsATAPI[d] /\ DiskSectors[d] >= ImageSectors
=============================================================================
