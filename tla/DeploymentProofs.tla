-------------------------- MODULE DeploymentProofs --------------------------
(***************************************************************************)
(* What the installer and the set-up keep for any number of disks, any     *)
(* sizes of them, of the image and of the blocks, and any number of power  *)
(* failures.                                                               *)
(***************************************************************************)
EXTENDS Deployment, TextInputProofs, FiniteSetTheorems, WellFoundedInduction

(* Every set of numbers that is not empty has a least one.                 *)
LEMMA LeastExists ==
  ASSUME NEW T \in SUBSET Nat, T # {}
  PROVE  \E x \in T : \A y \in T : x <= y
  <1> DEFINE Less == {p \in Nat \X Nat : p[1] < p[2]}
  <1>1. IsWellFoundedOn(Less, Nat)
    BY NatLessThanWellFounded, Zenon DEF OpToRel
  <1>2. \E x \in T : \A y \in T : ~(<<y, x>> \in Less)
    <2> HIDE DEF Less
    <2> QED BY <1>1, WFMin
  <1>3. \A x \in Nat, y \in Nat : x <= y \/ <<y, x>> \in Less
    OBVIOUS
  <1> HIDE DEF Less
  <1> QED BY <1>2, <1>3

-----------------------------------------------------------------------------
(* Only disks that fit are written to                                      *)

PerDisk(m) == m = [d \in Disks |-> m[d]]
Untouched(m) == \A d \in Disks : ~Fits(d) => \A s \in Sectors(d) : m[d][s] = "old"

(* Every page that changes the selected disk is left before a step of      *)
(* perform_installation runs, and the first of those checks it again.      *)
TargetInv ==
  /\ step # "none" => current_stage = "installing"
  /\ step \notin {"none", "check"} => Fits(selected_disk)

FitInv ==
  /\ PerDisk(media) /\ PerDisk(platter) /\ Untouched(media) /\ Untouched(platter)
  /\ TargetInv

LEMMA TargetSteps ==
  ASSUME TargetInv, InstallerNext
  PROVE  TargetInv'
  <1>1. CASE \/ WelcomeInstall \/ StartInstallation \/ \E d \in Disks : SelectDisk(d)
    BY <1>1 DEF WelcomeInstall, StartInstallation, SelectDisk, TargetInv, Fits
  <1>2. CASE PerformInstallation
    BY <1>2 DEF PerformInstallation, CheckTarget, ClearBootArea, FlushBootArea, WriteBlock,
                FlushBlocks, FinalSync, VerifyMBR, TargetInv, Fits
  <1> QED BY <1>1, <1>2 DEF InstallerNext

(* A change to the sectors of the selected disk alone leaves every disk    *)
(* that does not fit as it was.                                            *)
LEMMA SelectedChanged ==
  ASSUME NEW m, NEW content, PerDisk(m), Untouched(m), Fits(selected_disk)
  PROVE  LET n == [m EXCEPT ![selected_disk] = content] IN PerDisk(n) /\ Untouched(n)
  BY DEF PerDisk, Untouched

LEMMA WriteFits ==
  ASSUME FitInv, Fits(selected_disk), NEW start, NEW count, NEW content, Write(start, count, content)
  PROVE  PerDisk(media)' /\ Untouched(media)'
  <1>1. PICK new : media' = [media EXCEPT ![selected_disk] = new]
    BY DEF Write
  <1>2. PerDisk(media') /\ Untouched(media')
    BY <1>1, SelectedChanged DEF FitInv
  <1> QED BY <1>2 DEF PerDisk, Untouched, Disks, Fits, Sectors

LEMMA FlushFits ==
  ASSUME FitInv, Fits(selected_disk), Flush
  PROVE  PerDisk(platter)' /\ Untouched(platter)'
  <1>1. PerDisk(platter') /\ Untouched(platter')
    BY SelectedChanged DEF Flush, FitInv
  <1> QED BY <1>1 DEF PerDisk, Untouched, Disks, Fits, Sectors

LEMMA InstallerFits ==
  ASSUME FitInv, InstallerNext
  PROVE  FitInv'
  <1> DEFINE Whole(m) == PerDisk(m) /\ Untouched(m)
  <1>1. TargetInv'
    BY TargetSteps DEF FitInv
  <1>2. SUFFICES Whole(media') /\ Whole(platter')
    BY <1>1 DEF FitInv, PerDisk, Untouched, Disks, Fits, Sectors
  <1>3. Whole(media) /\ Whole(platter)
    BY DEF FitInv
  <1>4. CASE WelcomeInstall \/ (\E d \in Disks : SelectDisk(d)) \/ CheckTarget
    BY <1>3, <1>4 DEF WelcomeInstall, SelectDisk, CheckTarget
  <1>5. CASE StartInstallation
    BY <1>3, <1>5, SelectedChanged DEF StartInstallation
  <1>6. CASE ClearBootArea \/ WriteBlock
    <2>1. Fits(selected_disk) /\ platter' = platter
      BY <1>6 DEF FitInv, TargetInv, ClearBootArea, WriteBlock
    <2>2. media' = media
          \/ \E start, count, content : Write(start, count, content)
      BY <1>6 DEF ClearBootArea, WriteBlock
    <2>3. Whole(media')
      BY <1>3, <2>1, <2>2, WriteFits DEF PerDisk, Untouched, Disks, Fits, Sectors
    <2> QED BY <1>3, <2>1, <2>3
  <1>7. CASE FlushBootArea \/ FlushBlocks \/ FinalSync
    <2>1. Fits(selected_disk) /\ media' = media /\ Flush
      BY <1>7 DEF FitInv, TargetInv, FlushBootArea, FlushBlocks, FinalSync
    <2>2. Whole(platter')
      BY <2>1, FlushFits DEF PerDisk, Untouched, Disks, Fits, Sectors
    <2> QED BY <1>3, <2>1, <2>2
  <1>8. CASE VerifyMBR
    <2>1. Fits(selected_disk) /\ platter' = platter
      BY <1>8 DEF FitInv, TargetInv, VerifyMBR
    <2>2. \/ media' = media
          \/ \E new : media' = [media EXCEPT ![selected_disk] = new]
      BY <1>8 DEF VerifyMBR
    <2> QED BY <1>3, <2>1, <2>2, SelectedChanged
  <1> QED BY <1>4, <1>5, <1>6, <1>7, <1>8 DEF InstallerNext, PerformInstallation

(* What a power failure leaves of a sector is what one of the two held.    *)
LEMMA LossFits ==
  ASSUME FitInv, LoseCache
  PROVE  /\ PerDisk(media') /\ PerDisk(platter')
         /\ Untouched(media') /\ Untouched(platter')
  <1>1. PICK kept : platter' = [d \in Disks |-> [s \in Sectors(d) |->
                      IF <<d, s>> \in kept THEN media[d][s] ELSE platter[d][s]]]
    BY DEF LoseCache
  <1>2. PerDisk(platter') /\ Untouched(platter')
    BY <1>1 DEF PerDisk, Untouched, FitInv
  <1> QED BY <1>2 DEF LoseCache

(* The messages on the screen have no part in any of this.                 *)
LEMMA MessagesAside ==
  ASSUME Refuse \/ Frame \/ TimePasses
  PROVE  UNCHANGED <<installVars, textVars, setupVars, running>>
  BY DEF Refuse, Frame, TimePasses

LEMMA FitStarts ==
  ASSUME Init
  PROVE  FitInv
  BY DEF Init, InstallerInit, FitInv, PerDisk, Untouched, TargetInv

LEMMA FitKept ==
  ASSUME FitInv, [Next]_vars
  PROVE  FitInv'
  <1>1. CASE Install
    BY <1>1, InstallerFits DEF Install
  <1>2. CASE PowerCut /\ running = "medium"
    <2>1. LoseCache /\ step' = "none"
      BY <1>2 DEF PowerCut, FreshInstaller
    <2> QED BY <2>1, LossFits DEF FitInv, TargetInv, PerDisk, Untouched, Disks, Fits, Sectors
  <1>3. CASE UNCHANGED installVars
    BY <1>3 DEF installVars, FitInv, TargetInv, PerDisk, Untouched, Disks, Fits, Sectors
  <1>4. UNCHANGED installVars \/ Install \/ (PowerCut /\ running = "medium")
    BY MessagesAside DEF Next, vars, PowerCut, StartMedium, StartDisk, RunSystem
  <1> QED BY <1>1, <1>2, <1>3, <1>4

(* Whatever is clicked, wherever a write or a flush fails and whenever the *)
(* power does, a CD and a disk too small for the image keep every sector.  *)
THEOREM OnlyFittingDisksWritten == Spec => []OnlyFittingTouched
  <1>1. FitInv => OnlyFittingTouched
    BY DEF FitInv, Untouched, OnlyFittingTouched, Fits
  <1> QED BY <1>1, FitStarts, FitKept, PTL DEF Spec

-----------------------------------------------------------------------------
(* The name field of the form                                              *)

LEMMA FormStarts == FormInit => TextInv'
  <1>1. TextInit => TextInv
    BY FieldStarts
  <1>2. (TextInit => TextInv)'
    BY <1>1, PTL
  <1> QED BY <1>2 DEF FormInit, TextInit, PutAt

LEMMA BlankIsCopy == \E junk \in [Index -> Byte] : Blank = Copy(Initial, junk)
  <1>1. [i \in Index |-> Nul] \in [Index -> Byte]
    BY DEF Byte
  <1> QED BY <1>1 DEF Blank

LEMMA NoFormText ==
  ASSUME NoForm
  PROVE  TextInv
  BY BlankIsCopy, FieldStarts DEF NoForm, TextInit

LEMMA FormGoneText ==
  ASSUME FormGone
  PROVE  TextInv'
  BY BlankIsCopy, FormStarts DEF FormGone, FormInit

LEMMA FieldKept ==
  ASSUME TextInv, [Next]_vars
  PROVE  TextInv'
  <1>1. CASE [TextNext]_textVars
    BY <1>1, StepKeeps
  <1>2. CASE FormGone \/ FormInit
    BY <1>2, FormStarts, FormGoneText
  <1>3. [TextNext]_textVars \/ FormGone \/ FormInit
    BY MessagesAside DEF Next, vars, Install, PowerCut, StartMedium, StartDisk, RunSystem,
           SetupNext, ReadConfiguration, TypeIntoForm, Finish
  <1> QED BY <1>1, <1>2, <1>3

(* The name that is typed while the system is set up ends in the field's   *)
(* buffer, whatever the heap held there and however often the machine is   *)
(* started.                                                                *)
THEOREM FormStringKept == Spec => []StringInBuffer
  <1>1. Init => TextInv
    BY NoFormText DEF Init
  <1>2. TextInv => StringInBuffer
    BY DEF TextInv
  <1> QED BY <1>1, <1>2, FieldKept, PTL DEF Spec

-----------------------------------------------------------------------------
(* What the configuration says is so                                       *)

WellFormed(f) == f = [passwd |-> f.passwd, conf |-> f.conf]

(* A user whose directory is on the disk, or in the one case in which a    *)
(* set-up goes on without it.                                              *)
Housed(u) == u \in image.homes \/ HomeLostUnnoticed

(* Whoever passwd names, flushed or not, has been housed; and once either  *)
(* copy of the configuration says that all is done, both copies of passwd  *)
(* name somebody, so that it does not matter which mixture of the copies a *)
(* power failure leaves.                                                   *)
DoneInv ==
  \A u \in {files.passwd, synced.passwd} :
    /\ u = <<>> \/ Housed(u)
    /\ "done" \in {files.conf, synced.conf} /\ Has("passwd") => u # <<>>

(* How far "Finish" has come with its user: a directory that was only      *)
(* reported made has left its trace in /users, unless there was room.      *)
Progress ==
  /\ sys = "template" => Housed(user) \/ "users" \in spoiled \/ "users" \in image.room
  /\ sys \in {"passwd", "conf", "write_conf", "close_conf"} => Housed(user)
  /\ sys \in {"conf", "write_conf", "close_conf"} /\ Has("passwd") =>
       files.passwd = user /\ synced.passwd = user

(* Before a root was mounted there are no files, and a user has a name.    *)
SetupInv ==
  /\ running # "disk" => sys = "down"
  /\ sys \in Steps => user # <<>>
  /\ WellFormed(files) /\ WellFormed(synced)
  /\ image = NoImage => files = FreshFiles /\ synced = FreshFiles
  /\ ~failed => DoneInv /\ Progress

(* What ext2 reports made changes no name, and spoils a directory only     *)
(* more.                                                                   *)
LEMMA ReportOnly ==
  ASSUME NEW dir, ReportMade(dir)
  PROVE  /\ spoiled \subseteq spoiled' /\ (~failed' => ~failed)
         /\ ~failed' => dir \in image.room \/ dir \in spoiled'
  BY DEF ReportMade

(* A step that leaves the files as they are, and what it must not do.      *)
LEMMA FilesLeft ==
  ASSUME SetupInv, UNCHANGED <<running, mounted, user, image, files, synced>>,
         running = "disk", ~failed' => ~failed, spoiled \subseteq spoiled',
         sys' \in Steps => sys \in Steps,
         ~failed' /\ sys' = "template" => sys = "template" \/ Housed(user) \/ "users" \in spoiled'
                                           \/ "users" \in image.room,
         ~failed' /\ sys' \in {"passwd", "conf", "write_conf", "close_conf"} =>
           \/ sys \in {"passwd", "conf", "write_conf", "close_conf"}
           \/ Housed(user),
         ~failed' /\ sys' \in {"conf", "write_conf", "close_conf"} /\ Has("passwd") =>
           sys \in {"conf", "write_conf", "close_conf"}
  PROVE  SetupInv'
  <1>1. \A u : Housed(u)' <=> Housed(u)
    BY DEF Housed, HomeLostUnnoticed
  <1>2. Has("passwd")' <=> Has("passwd")
    BY DEF Has
  <1>3. ASSUME ~failed' PROVE DoneInv'
    BY <1>1, <1>2, <1>3 DEF SetupInv, DoneInv
  <1>4. ASSUME ~failed' PROVE Progress'
    BY <1>1, <1>2, <1>4 DEF SetupInv, Progress
  <1> QED BY <1>3, <1>4 DEF SetupInv, WellFormed

LEMMA BootKeeps ==
  ASSUME SetupInv, running = "disk", running' = running, Ext2Test \/ ReadConfiguration
  PROVE  SetupInv'
  <1>1. CASE Ext2Test
    <2>1. spoiled \subseteq spoiled' /\ (~failed' => ~failed)
      BY <1>1, ReportOnly DEF Ext2Test, Ext2TestEnds, Ext2TestHangs
    <2>2. sys' \in {"config", "hung"} /\ UNCHANGED <<mounted, user, image, files, synced>>
      BY <1>1 DEF Ext2Test
    <2> QED BY <2>1, <2>2, FilesLeft DEF Steps
  <1>2. CASE ReadConfiguration
    <2>1. sys' \in {"hung", "form", "normal"} /\ UNCHANGED <<mounted, user, image, spoiled, files, synced, failed>>
      BY <1>2 DEF ReadConfiguration
    <2> QED BY <2>1, FilesLeft DEF Steps
  <1> QED BY <1>1, <1>2

LEMMA FinishKeeps ==
  ASSUME TextInv, SetupInv, running = "disk", running' = running, Finish
  PROVE  SetupInv'
  <1>1. Text # <<>>
    <2>1. HoldsString(buffer, strlen(buffer)) /\ strlen(buffer) > 0 /\ Text = TextOf(buffer, strlen(buffer))
      BY InvPlaced, TextNow DEF PlacedIn, Finish
    <2>2. Len(Text) = strlen(buffer)
      BY <2>1, TextIsText
    <2> QED BY <2>1, <2>2
  <1>2. user' # <<>> /\ sys' = "mkdir" /\ UNCHANGED <<mounted, image, spoiled, files, synced, failed>>
    BY <1>1 DEF Finish
  <1>3. DoneInv => DoneInv'
    BY <1>2 DEF DoneInv, Housed, HomeLostUnnoticed, Has
  <1> QED BY <1>2, <1>3 DEF SetupInv, Progress, WellFormed, Steps

LEMMA DirectoryKeeps ==
  ASSUME SetupInv, running = "disk", running' = running, MakeUserDirectory
  PROVE  SetupInv'
  <1>1. UNCHANGED <<mounted, user, image, files, synced>> /\ sys = "mkdir"
        /\ sys' \in {"stuck", "template", "hung"}
    BY DEF MakeUserDirectory
  <1>2. spoiled \subseteq spoiled' /\ (~failed' => ~failed)
    BY ReportOnly DEF MakeUserDirectory
  <1>3. ~failed' /\ sys' = "template" =>
          user \in image.homes \/ "users" \in spoiled' \/ "users" \in image.room
    BY ReportOnly DEF MakeUserDirectory
  <1> QED BY <1>1, <1>2, <1>3, FilesLeft DEF Steps, Housed

LEMMA TemplateKeeps ==
  ASSUME SetupInv, running = "disk", running' = running, CopyTemplate
  PROVE  SetupInv'
  <1>1. UNCHANGED <<mounted, user, image, files, synced>> /\ sys = "template"
        /\ sys' \in {"stuck", "passwd", "hung"}
    BY DEF CopyTemplate, CopyIntoHome, CopyIntoNothing
  <1>2. spoiled \subseteq spoiled' /\ (~failed' => ~failed)
    BY ReportOnly DEF CopyTemplate, CopyIntoHome, CopyIntoNothing
  <1>3. ASSUME ~failed', sys' = "passwd" PROVE Housed(user)
    <2>1. CASE user \in image.homes
      BY <2>1 DEF Housed
    <2>2. CASE user \notin image.homes
      <3>1. "users" \notin spoiled /\ image.template = "empty"
        BY <1>3, <2>2 DEF CopyTemplate, CopyIntoHome, CopyIntoNothing
      <3>2. Progress
        BY <1>2, <1>3 DEF SetupInv
      <3> QED BY <1>1, <3>1, <3>2 DEF Progress, Housed, HomeLostUnnoticed
    <2> QED BY <2>1, <2>2
  <1> QED BY <1>1, <1>2, <1>3, FilesLeft DEF Steps

LEMMA PasswdKeeps ==
  ASSUME SetupInv, running = "disk", running' = running, WritePasswd
  PROVE  SetupInv'
  <1>1. UNCHANGED <<mounted, user, image>> /\ sys = "passwd" /\ sys' \in {"conf", "hung"}
    BY DEF WritePasswd, NoPasswd
  <1>2. user # <<>>
    BY <1>1 DEF SetupInv, Steps
  <1>3. CASE Has("passwd") /\ files' = NewLine /\ synced' = files' /\ UNCHANGED <<spoiled, failed>>
    <2>1. WellFormed(files') /\ files'.passwd = user /\ files'.conf = files.conf
      BY <1>3 DEF NewLine, SetupInv, WellFormed
    <2>2. ~failed => Housed(user)
      BY <1>1 DEF SetupInv, Progress
    <2>3. image # NoImage
      BY <1>3 DEF Has, NoImage
    <2>4. ~failed' => DoneInv' /\ Progress'
      BY <1>1, <1>2, <1>3, <2>1, <2>2 DEF DoneInv, Progress, Housed, HomeLostUnnoticed, Has, SetupInv
    <2> QED BY <1>1, <1>2, <1>3, <2>1, <2>3, <2>4 DEF SetupInv, WellFormed, Steps
  <1>4. CASE NoPasswd
    <2>1. spoiled \subseteq spoiled' /\ (~failed' => ~failed) /\ ~Has("passwd") /\ UNCHANGED <<files, synced>>
      BY <1>4, ReportOnly DEF NoPasswd
    <2> QED BY <1>1, <2>1, FilesLeft DEF Steps
  <1>5. CASE /\ failed' = TRUE /\ UNCHANGED spoiled
             /\ files' = files \/ (Has("passwd") /\ files' = NewLine)
             /\ synced' \in {synced, files'}
    <2>1. WellFormed(files') /\ WellFormed(synced')
      BY <1>5 DEF NewLine, SetupInv, WellFormed
    <2>2. image = NoImage => files' = files /\ synced' \in {synced, files}
      BY <1>5 DEF Has, NoImage
    <2> QED BY <1>1, <1>2, <1>5, <2>1, <2>2 DEF SetupInv, WellFormed, Steps
  <1> QED BY <1>1, <1>3, <1>4, <1>5 DEF WritePasswd

LEMMA ConfKeeps ==
  ASSUME SetupInv, running = "disk", running' = running, OpenConf \/ WriteConf \/ CloseConf
  PROVE  SetupInv'
  <1>1. CASE OpenConf
    <2>1. UNCHANGED <<mounted, user, image, files, synced>> /\ sys = "conf"
          /\ sys' \in {"complete", "write_conf", "hung"}
      BY <1>1 DEF OpenConf
    <2>2. spoiled \subseteq spoiled' /\ (~failed' => ~failed)
      BY <1>1, ReportOnly DEF OpenConf
    <2> QED BY <2>1, <2>2, FilesLeft DEF Steps
  <1>2. CASE WriteConf
    <2>1. UNCHANGED <<mounted, user, image, spoiled, synced>> /\ sys = "write_conf" /\ sys' = "close_conf"
          /\ (~failed' => ~failed)
      BY <1>2 DEF WriteConf
    <2>2. WellFormed(files') /\ files'.passwd = files.passwd /\ (~Has("conf") => files' = files)
      BY <1>2 DEF WriteConf, SetupInv, WellFormed
    <2>3. image # NoImage \/ files' = files
      BY <2>2 DEF Has, NoImage
    <2>4. ASSUME ~failed' PROVE DoneInv' /\ Progress'
      <3>1. Progress /\ DoneInv /\ user # <<>>
        BY <2>1, <2>4 DEF SetupInv, Steps
      <3> QED BY <2>1, <2>2, <3>1 DEF DoneInv, Progress, Housed, HomeLostUnnoticed, Has
    <2> QED BY <2>1, <2>2, <2>3, <2>4 DEF SetupInv, WellFormed, Steps
  <1>3. CASE CloseConf
    <2>1. UNCHANGED <<mounted, user, image, spoiled, files>> /\ sys = "close_conf" /\ sys' = "complete"
          /\ (~failed' => ~failed) /\ synced' \in {synced, files}
      BY <1>3 DEF CloseConf
    <2>2. ASSUME ~failed' PROVE DoneInv' /\ Progress'
      BY <2>1, <2>2 DEF SetupInv, DoneInv, Progress, Housed, HomeLostUnnoticed, Has
    <2> QED BY <2>1, <2>2 DEF SetupInv, WellFormed, Steps
  <1> QED BY <1>1, <1>2, <1>3

LEMMA LossKeeps ==
  ASSUME SetupInv, LoseFiles
  PROVE  SetupInv'
  <1>1. PICK p \in {synced.passwd, files.passwd}, c \in {synced.conf, files.conf} :
          files' = [passwd |-> p, conf |-> c]
    BY DEF LoseFiles
  <1>2. synced' = files' /\ sys' = "down" /\ mounted' = FALSE /\ UNCHANGED <<image, spoiled, failed>>
    BY DEF LoseFiles
  <1>3. WellFormed(files') /\ (files = FreshFiles /\ synced = FreshFiles => files' = FreshFiles)
    BY <1>1 DEF WellFormed, FreshFiles
  <1>4. DoneInv => DoneInv'
    BY <1>1, <1>2 DEF DoneInv, Housed, HomeLostUnnoticed, Has
  <1> QED BY <1>2, <1>3, <1>4 DEF SetupInv, Progress, WellFormed, Steps

LEMMA MountKeeps ==
  ASSUME SetupInv, running = "off", running' = "disk", NEW hasRoot, MountRoot(hasRoot)
  PROVE  SetupInv'
  <1>1. sys' = "test" /\ mounted' = hasRoot /\ UNCHANGED <<spoiled, files, synced, failed>>
    BY DEF MountRoot
  <1>2. image' = image \/ (image = NoImage /\ image' \in Images)
    BY DEF MountRoot
  <1>3. DoneInv /\ image' # image => DoneInv'
    BY <1>1, <1>2 DEF SetupInv, DoneInv, FreshFiles
  <1>4. DoneInv /\ image' = image => DoneInv'
    BY <1>1 DEF DoneInv, Housed, HomeLostUnnoticed, Has
  <1>5. image' = NoImage => image = NoImage
    BY <1>2
  <1> QED BY <1>1, <1>3, <1>4, <1>5 DEF SetupInv, Progress, WellFormed, Steps

LEMMA InstallKeeps ==
  ASSUME SetupInv, Install
  PROVE  SetupInv'
  <1>1. /\ running = "medium"
        /\ \/ files' = FreshFiles /\ synced' = FreshFiles
           \/ files' = files /\ synced' = synced
        /\ UNCHANGED <<sys, mounted, user, image, failed, running>>
    BY DEF Install
  <1>2. WellFormed(FreshFiles) /\ FreshFiles.conf # "done" /\ FreshFiles.passwd = <<>>
    BY DEF FreshFiles, WellFormed
  <1>3. sys' = "down" /\ running' # "disk" /\ "down" \notin Steps
    BY <1>1 DEF SetupInv, Steps
  <1>4. CASE files' = FreshFiles /\ synced' = FreshFiles
    <2>1. DoneInv'
      BY <1>2, <1>4 DEF DoneInv
    <2> QED BY <1>1, <1>2, <1>3, <1>4, <2>1 DEF SetupInv, Progress
  <1>5. CASE files' = files /\ synced' = synced
    <2>1. DoneInv => DoneInv'
      BY <1>1, <1>5 DEF DoneInv, Housed, HomeLostUnnoticed, Has
    <2> QED BY <1>1, <1>3, <1>5, <2>1 DEF SetupInv, Progress, WellFormed
  <1> QED BY <1>1, <1>4, <1>5

LEMMA SetupKept ==
  ASSUME TextInv, SetupInv, [Next]_vars
  PROVE  SetupInv'
  <1>1. CASE Install
    BY <1>1, InstallKeeps
  <1>2. CASE UNCHANGED setupVars /\ (running' = running \/ (running # "disk" /\ running' # "disk"))
    <2>1. (DoneInv => DoneInv') /\ (Progress => Progress')
      BY <1>2 DEF setupVars, DoneInv, Progress, Housed, HomeLostUnnoticed, Has
    <2> QED BY <1>2, <2>1 DEF setupVars, SetupInv, WellFormed, Steps
  <1>3. CASE PowerCut
    <2>1. LoseFiles \/ (UNCHANGED setupVars /\ running # "disk" /\ running' # "disk")
      BY <1>3 DEF PowerCut
    <2> QED BY <1>2, <2>1, LossKeeps
  <1>4. ASSUME NEW d \in Disks, StartDisk(d) PROVE SetupInv'
    BY <1>4, MountKeeps DEF StartDisk
  <1>5. CASE RunSystem
    <2>1. running = "disk" /\ running' = running
      BY <1>5 DEF RunSystem
    <2>2. CASE UNCHANGED setupVars
      BY <1>2, <2>1, <2>2
    <2> QED BY <1>5, <2>1, <2>2, BootKeeps, FinishKeeps, DirectoryKeeps, TemplateKeeps, PasswdKeeps, ConfKeeps
            DEF RunSystem, SetupNext, TypeIntoForm, FinishSteps
  <1>6. CASE StartMedium \/ Refuse \/ Frame \/ TimePasses \/ UNCHANGED vars
    <2>1. UNCHANGED setupVars /\ (running' = running \/ (running # "disk" /\ running' # "disk"))
      BY <1>6, MessagesAside DEF StartMedium, vars
    <2> QED BY <1>2, <2>1
  <1> QED BY <1>1, <1>3, <1>4, <1>5, <1>6 DEF Next

LEMMA SetupStarts ==
  ASSUME Init
  PROVE  SetupInv
  BY DEF Init, SetupInit, FreshFiles, SetupInv, DoneInv, Progress, WellFormed, Steps

(* However often the power fails between any two file operations of the    *)
(* set-up, and whatever was flushed by then, a configuration that says     *)
(* "done" is found beside a passwd whose user has a directory, on every    *)
(* image that has a passwd: ext2's report that it made one takes no set-up *)
(* that far, but for the case that DoneIsDone names.                       *)
THEOREM DoneStaysDone == Spec => []DoneIsDone
  <1>1. Init => TextInv /\ SetupInv
    <2>1. Init => TextInv
      BY NoFormText DEF Init
    <2> QED BY <2>1, SetupStarts
  <1>2. SetupInv => DoneIsDone
    BY DEF SetupInv, DoneInv, Housed, DoneIsDone
  <1> QED BY <1>1, <1>2, FieldKept, SetupKept, PTL DEF Spec

-----------------------------------------------------------------------------
(* What is complete is whole                                               *)

(* The first n of the image's sectors are on the selected disk.            *)
Written(n) == \A s \in 0..ImageSectors - 1 : s < n => media[selected_disk][s] = "image"

(* No page but the last leaves a block behind; a disk is written to only   *)
(* when it is there.                                                       *)
CourseInv ==
  /\ selected_disk \in Nat /\ block \in Nat
  /\ current_stage \in {"welcome", "select_disk"} \/ step \in {"check", "clear", "clear_flush"} =>
       block = 0
  /\ step \notin {"none", "check"} => selected_disk \in Disks

(* Where perform_installation is, so much of the image has been written;   *)
(* only the flush at the end makes the last of it last.                    *)
WholeInv ==
  ~lost => /\ step = "write" => Written(block * BlockSectors)
           /\ step = "flush" => Written((block + 1) * BlockSectors)
           /\ step = "verify" => ImageOn(selected_disk)
           /\ current_stage = "complete" => ImageOn(selected_disk)

ImageInv == FitInv /\ CourseInv /\ WholeInv

(* The blocks, the last of which may be cut short, cover the image.        *)
LEMMA BlocksCover ==
  TotalBlocks * BlockSectors >= ImageSectors /\ TotalBlocks * BlockSectors \in Int
  <1>1. \A a \in Nat, b \in Nat \ {0} : (a \div b) * b > a - b /\ a \div b \in Int
    BY Z3
  <1>2. /\ ImageSectors \in Nat /\ BlockSectors \in Nat \ {0}
        /\ ImageSectors + BlockSectors - 1 \in Nat
    BY ImageAssumption
  <1>3. TotalBlocks * BlockSectors > (ImageSectors + BlockSectors - 1) - BlockSectors
        /\ TotalBlocks \in Int
    BY <1>1, <1>2 DEF TotalBlocks
  <1>4. TotalBlocks * BlockSectors \in Int
    BY <1>2, <1>3
  <1> QED BY <1>2, <1>3, <1>4

(* The first hard disk is one.                                             *)
LEMMA FirstHardDisk ==
  ASSUME HardDisks # {}
  PROVE  (CHOOSE d \in HardDisks : \A e \in HardDisks : d <= e) \in Nat
  <1>1. HardDisks \subseteq Nat
    BY DiskAssumption DEF HardDisks, Disks
  <1>2. \E d \in HardDisks : \A e \in HardDisks : d <= e
    BY <1>1, LeastExists
  <1> QED BY <1>1, <1>2

LEMMA CourseSteps ==
  ASSUME FitInv, CourseInv, InstallerNext
  PROVE  CourseInv'
  <1>1. CASE WelcomeInstall
    BY <1>1, FirstHardDisk DEF WelcomeInstall, FitInv, TargetInv, CourseInv, Disks
  <1>2. CASE StartInstallation \/ \E d \in Disks : SelectDisk(d)
    BY <1>2 DEF StartInstallation, SelectDisk, FitInv, TargetInv, CourseInv, Disks, HardDisks
  <1>3. CASE CheckTarget
    BY <1>3, DiskAssumption DEF CheckTarget, FitInv, TargetInv, CourseInv, Disks
  <1>4. CASE PerformInstallation /\ ~CheckTarget
    BY <1>4 DEF PerformInstallation, ClearBootArea, FlushBootArea, WriteBlock,
                FlushBlocks, FinalSync, VerifyMBR, FitInv, TargetInv, CourseInv, Disks
  <1> QED BY <1>1, <1>2, <1>3, <1>4 DEF InstallerNext

(* A block that was written without an error is there, and so is what was. *)
LEMMA BlockWritten ==
  ASSUME FitInv, CourseInv, step = "write", WriteBlock, Written(block * BlockSectors), ~lost'
  PROVE  \A s \in 0..ImageSectors - 1 :
           s < (block + 1) * BlockSectors => media'[selected_disk][s] = "image"
  <1>1. PICK start \in Nat : start = block * BlockSectors /\ (block + 1) * BlockSectors = start + BlockSectors
    BY ImageAssumption DEF CourseInv
  <1> DEFINE count == Lower(BlockSectors, ImageSectors - start)
  <1>2. Write(start, count, "image")
    BY <1>1 DEF WriteBlock
  <1>3. PICK done \in 0..count :
          /\ media' = [media EXCEPT ![selected_disk] =
                         [s \in Sectors(selected_disk) |->
                            IF s \in start..start + done - 1 THEN "image" ELSE @[s]]]
          /\ lost' = (lost \/ done < count)
    BY <1>2 DEF Write
  <1>4. count \in Int /\ done \in Int /\ done <= count
    BY ImageAssumption, <1>1, <1>3 DEF Lower
  <1>5. ~(done < count)
    BY <1>3, Zenon
  <1>6. done = count
    BY <1>4, <1>5
  <1>7. selected_disk \in Disks /\ \A s \in 0..ImageSectors - 1 : s \in Sectors(selected_disk)
    BY ImageAssumption, DiskAssumption DEF CourseInv, FitInv, TargetInv, Fits, Sectors
  <1>8. \A s \in Sectors(selected_disk) :
          media'[selected_disk][s] = IF s \in start..start + done - 1 THEN "image"
                                     ELSE media[selected_disk][s]
    BY <1>3, <1>7 DEF FitInv, PerDisk
  <1>9. ASSUME NEW s \in 0..ImageSectors - 1, s < start + BlockSectors
        PROVE  media'[selected_disk][s] = "image"
    <2>1. CASE s < start
      <3>1. media[selected_disk][s] = "image" /\ s \notin start..start + done - 1
        BY <1>1, <2>1 DEF Written
      <3> QED BY <1>7, <1>8, <3>1
    <2>2. CASE ~(s < start)
      <3>1. s \in start..start + done - 1
        BY <1>1, <1>6, <1>9, <2>2, ImageAssumption DEF Lower
      <3> QED BY <1>7, <1>8, <3>1
    <2> QED BY <2>1, <2>2
  <1> QED BY <1>1, <1>9

(* A flush that was answered leaves on the platter what reading returns.   *)
LEMMA Flushed ==
  ASSUME FitInv, CourseInv, step \notin {"none", "check"}, Flush, ~lost'
  PROVE  platter'[selected_disk] = media[selected_disk]
  <1>1. selected_disk \in Disks
    BY DEF CourseInv
  <1>2. platter' = [platter EXCEPT ![selected_disk] = media[selected_disk]]
    BY DEF Flush
  <1> QED BY <1>1, <1>2 DEF FitInv, PerDisk

LEMMA WholeSteps ==
  ASSUME FitInv, CourseInv, WholeInv, InstallerNext
  PROVE  WholeInv'
  <1> SUFFICES ASSUME ~lost'
               PROVE  /\ step' = "write" => Written(block * BlockSectors)'
                      /\ step' = "flush" => Written((block + 1) * BlockSectors)'
                      /\ step' = "verify" => ImageOn(selected_disk)'
                      /\ current_stage' = "complete" => ImageOn(selected_disk)'
    BY DEF WholeInv
  <1>1. CASE WelcomeInstall \/ StartInstallation \/ CheckTarget \/ \E d \in Disks : SelectDisk(d)
    BY <1>1 DEF WelcomeInstall, StartInstallation, CheckTarget, SelectDisk, FitInv, TargetInv
  <1>2. CASE ClearBootArea \/ FlushBootArea
    <2>1. block' = 0 /\ step' \in {"clear_flush", "write"} /\ current_stage' = "installing"
      BY <1>2 DEF ClearBootArea, FlushBootArea, CourseInv, FitInv, TargetInv
    <2>2. Written(block * BlockSectors)'
      BY <2>1, ImageAssumption DEF Written
    <2> QED BY <2>1, <2>2
  <1>3. CASE WriteBlock
    <2>1. /\ ~lost /\ step = "write" /\ current_stage' = "installing"
          /\ selected_disk' = selected_disk
          /\ \/ step' = "flush" /\ block' = block
             \/ step' = "write" /\ block' = block + 1
      BY <1>3 DEF WriteBlock, Write, FitInv, TargetInv
    <2>2. \A s \in 0..ImageSectors - 1 :
            s < (block + 1) * BlockSectors => media'[selected_disk][s] = "image"
      BY <1>3, <2>1, BlockWritten DEF WholeInv
    <2> QED BY <2>1, <2>2 DEF Written
  <1>4. CASE FlushBlocks
    <2>1. /\ ~lost /\ step = "flush" /\ current_stage' = "installing" /\ step' = "write"
          /\ selected_disk' = selected_disk /\ media' = media /\ block' = block + 1
      BY <1>4 DEF FlushBlocks, Flush, FitInv, TargetInv
    <2> QED BY <2>1 DEF WholeInv, Written
  <1>5. CASE FinalSync
    <2>1. /\ ~lost /\ step = "write" /\ current_stage' = "installing" /\ step' = "verify"
          /\ selected_disk' = selected_disk /\ block = TotalBlocks
      BY <1>5 DEF FinalSync, Flush, FitInv, TargetInv
    <2>2. \A s \in 0..ImageSectors - 1 : s < TotalBlocks * BlockSectors
      BY BlocksCover, ImageAssumption
    <2>3. \A s \in 0..ImageSectors - 1 : media[selected_disk][s] = "image"
      BY <2>1, <2>2 DEF WholeInv, Written
    <2>4. platter'[selected_disk] = media[selected_disk]
      BY <1>5, <2>1, Flushed DEF FinalSync
    <2> QED BY <2>1, <2>3, <2>4 DEF ImageOn
  <1>6. CASE VerifyMBR
    <2>1. /\ ~lost /\ step = "verify" /\ step' = "none"
          /\ selected_disk' = selected_disk /\ platter' = platter
      BY <1>6 DEF VerifyMBR
    <2> QED BY <2>1 DEF WholeInv, ImageOn
  <1> QED BY <1>1, <1>2, <1>3, <1>4, <1>5, <1>6 DEF InstallerNext, PerformInstallation

LEMMA ImageStarts ==
  ASSUME Init
  PROVE  CourseInv /\ WholeInv
  BY DEF Init, InstallerInit, CourseInv, WholeInv

LEMMA ImageKept ==
  ASSUME ImageInv, [Next]_vars
  PROVE  ImageInv'
  <1>1. FitInv'
    BY FitKept DEF ImageInv
  <1>2. CourseInv' /\ WholeInv'
    <2>1. CASE Install
      BY <2>1, CourseSteps, WholeSteps DEF Install, ImageInv
    <2>2. CASE PowerCut /\ running = "medium"
      BY <2>2 DEF PowerCut, FreshInstaller, CourseInv, WholeInv
    <2>3. CASE UNCHANGED installVars
      BY <2>3 DEF installVars, ImageInv, CourseInv, WholeInv, Written, ImageOn
    <2>4. UNCHANGED installVars \/ Install \/ (PowerCut /\ running = "medium")
      BY MessagesAside DEF Next, vars, PowerCut, StartMedium, StartDisk, RunSystem
    <2> QED BY <2>1, <2>2, <2>3, <2>4
  <1> QED BY <1>1, <1>2 DEF ImageInv

(* For disks, images and blocks of any size: an installation that says it  *)
(* is complete, none of whose writes and flushes failed, has left every    *)
(* sector of the image where a power failure does not reach it.            *)
THEOREM CompleteStaysWhole == Spec => []CompleteIsWhole
  <1>1. Init => ImageInv
    BY FitStarts, ImageStarts DEF ImageInv
  <1>2. ImageInv => CompleteIsWhole
    BY DEF ImageInv, WholeInv, CompleteIsWhole
  <1> QED BY <1>1, <1>2, ImageKept, PTL DEF Spec

-----------------------------------------------------------------------------
(* The messages                                                            *)

(* The slots are taken from the first one on, by older messages before     *)
(* younger ones.                                                           *)
Packed(ns) ==
  /\ ns \subseteq Message
  /\ \A n, m \in ns : n.slot < m.slot => n.id < m.id
  /\ \A n, m \in ns : n.slot = m.slot => n = m
  /\ \A n \in ns : \A j \in 0..n.slot - 1 : \E m \in ns : m.slot = j

(* A message's place is its slot.                                          *)
Drawn(n) == ~n.late => n.slot = IF n.moving THEN n.target_y ELSE n.current_y

(* What notif_recalc_targets finds right for every message and leaves so   *)
(* for those that move.                                                    *)
OnItsWay(n) == n.moving /\ ~n.late => n.target_y = n.slot

Shown(ns) == Packed(ns) /\ \A n \in ns : Drawn(n)

LEMMA MessageFields ==
  ASSUME NEW n \in Message
  PROVE  /\ n.slot \in Nat /\ n.slot < MaxCount /\ n.id \in Nat /\ n.id \in 1..MaxPosts
         /\ n.target_y \in Slots /\ n.current_y \in Slots /\ n.slot \in Slots
         /\ n.moving \in BOOLEAN /\ n.late \in BOOLEAN /\ n.expired \in BOOLEAN
         /\ n.move_step \in 0..MoveSteps - 1
  BY NotifAssumption DEF Message, Slots

(* As many messages are in the slots below one as there are such slots,    *)
(* when all of these are taken.                                            *)
LEMMA SlotsBelow ==
  ASSUME NEW ns, Packed(ns), NEW k \in Nat, \A j \in 0..k - 1 : \E m \in ns : m.slot = j
  PROVE  /\ Place(ns, k) = k /\ IsFiniteSet({n \in ns : n.slot < k})
  <1> DEFINE below == {n \in ns : n.slot < k}
             at == [j \in 0..k - 1 |-> CHOOSE m \in ns : m.slot = j]
  <1>1. \A j \in 0..k - 1 : at[j] \in below /\ at[j].slot = j
    OBVIOUS
  <1>2. \A n \in below : n.slot \in 0..k - 1 /\ at[n.slot] = n
    <2> SUFFICES ASSUME NEW n \in below PROVE n.slot \in 0..k - 1 /\ at[n.slot] = n
      OBVIOUS
    <2>1. n.slot \in 0..k - 1 /\ n \in ns
      BY MessageFields DEF Packed
    <2>2. at[n.slot] \in ns /\ at[n.slot].slot = n.slot
      BY <1>1, <2>1
    <2> HIDE DEF at
    <2> QED BY <2>1, <2>2 DEF Packed
  <1>3. at \in Bijection(0..k - 1, below)
    <2>1. at \in [0..k - 1 -> below]
      BY <1>1
    <2>2. \A i, j \in 0..k - 1 : at[i] = at[j] => i = j
      BY <1>1
    <2>3. \A n \in below : \E j \in 0..k - 1 : at[j] = n
      BY <1>2
    <2> HIDE DEF at, below
    <2> QED BY <2>1, <2>2, <2>3 DEF Bijection, Injection, Surjection, IsInjective
  <1>4. IsFiniteSet(0..k - 1) /\ Cardinality(0..k - 1) = k
    BY FS_Interval
  <1>5. IsFiniteSet(below) /\ Cardinality(below) = k
    <2> HIDE DEF at, below
    <2> QED BY <1>3, <1>4, FS_Bijection DEF ExistsBijection
  <1> QED BY <1>5 DEF Place

LEMMA PlaceIsSlot ==
  ASSUME NEW ns, Packed(ns), NEW n \in ns
  PROVE  Place(ns, n.slot) = n.slot
  <1>1. n.slot \in Nat
    BY MessageFields DEF Packed
  <1>2. \A j \in 0..n.slot - 1 : \E m \in ns : m.slot = j
    BY DEF Packed
  <1> QED BY <1>1, <1>2, SlotsBelow

(* The messages up to one fill the slots up to it.                         *)
LEMMA UpToIs ==
  ASSUME NEW ns, Packed(ns), NEW n \in ns
  PROVE  IsFiniteSet(UpTo(ns, n.slot)) /\ Cardinality(UpTo(ns, n.slot)) = n.slot + 1
  <1>1. n.slot \in Nat /\ n.slot + 1 \in Nat
    BY MessageFields DEF Packed
  <1>2. \A j \in 0..(n.slot + 1) - 1 : \E m \in ns : m.slot = j
    BY <1>1 DEF Packed
  <1>3. UpTo(ns, n.slot) = {m \in ns : m.slot < n.slot + 1}
    <2>1. \A m \in ns : m.slot <= n.slot <=> m.slot < n.slot + 1
      BY <1>1, MessageFields DEF Packed
    <2> QED BY <2>1 DEF UpTo
  <1> QED BY <1>1, <1>2, <1>3, SlotsBelow DEF Place

(* There are never more messages than slots, and with fewer of them one is *)
(* free: the first such is above all the messages.                         *)
FirstFree(ns, slot) ==
  /\ slot \in Slots /\ \A n \in ns : n.slot # slot
  /\ \A j \in 0..slot - 1 : \E n \in ns : n.slot = j

LEMMA AboveAll ==
  ASSUME NEW ns, Packed(ns), NEW slot, FirstFree(ns, slot)
  PROVE  slot \in Nat /\ \A n \in ns : n.slot < slot
  <1>1. slot \in Nat
    BY NotifAssumption DEF FirstFree, Slots
  <1> SUFFICES ASSUME NEW n \in ns, ~(n.slot < slot) PROVE FALSE
    BY <1>1
  <1>2. n.slot \in Nat /\ n.slot # slot
    BY MessageFields DEF Packed, FirstFree
  <1>3. slot \in 0..n.slot - 1
    BY <1>1, <1>2
  <1> QED BY <1>3 DEF Packed, FirstFree

LEMMA FreeExists ==
  ASSUME NEW ns, Packed(ns), NEW s \in Slots, \A n \in ns : n.slot # s
  PROVE  \E slot : FirstFree(ns, slot)
  <1> DEFINE free == {i \in Slots : \A n \in ns : n.slot # i}
  <1>1. free \in SUBSET Nat /\ s \in free
    BY NotifAssumption DEF Slots
  <1>2. PICK slot \in free : \A i \in free : slot <= i
    <2> HIDE DEF free
    <2> QED BY <1>1, LeastExists
  <1>3. \A j \in 0..slot - 1 : j \in Slots /\ ~(slot <= j)
    BY <1>1, <1>2, NotifAssumption DEF Slots
  <1>4. \A j \in 0..slot - 1 : \E n \in ns : n.slot = j
    BY <1>2, <1>3
  <1> QED BY <1>2, <1>4 DEF FirstFree

LEMMA AllSlotsTaken ==
  ASSUME NEW ns, Packed(ns), \A s \in Slots : \E n \in ns : n.slot = s
  PROVE  Cardinality(ns) = MaxCount
  <1>1. MaxCount \in Nat /\ \A j \in 0..MaxCount - 1 : \E n \in ns : n.slot = j
    BY NotifAssumption DEF Slots
  <1>2. ns = {n \in ns : n.slot < MaxCount}
    BY MessageFields DEF Packed
  <1> QED BY <1>1, <1>2, SlotsBelow DEF Place

(* Changes of the messages that leave them their slots.                    *)
LEMMA SlotsKept ==
  ASSUME NEW ns, Packed(ns), NEW f \in [ns -> Message],
         \A n \in ns : f[n].slot = n.slot /\ f[n].id = n.id,
         NEW ms, ms = {f[n] : n \in ns}
  PROVE  Packed(ms) /\ Ids(ms) = Ids(ns)
  <1>1. ms \subseteq Message
    OBVIOUS
  <1>2. \A n, m \in ms : n.slot < m.slot => n.id < m.id
    BY DEF Packed
  <1>3. \A n, m \in ms : n.slot = m.slot => n = m
    BY DEF Packed
  <1>4. \A n \in ms : \A j \in 0..n.slot - 1 : \E m \in ms : m.slot = j
    <2> SUFFICES ASSUME NEW n \in ns, NEW j \in 0..f[n].slot - 1 PROVE \E m \in ms : m.slot = j
      OBVIOUS
    <2>1. PICK m \in ns : m.slot = j
      BY DEF Packed
    <2> QED BY <2>1
  <1>5. Ids(ms) = Ids(ns)
    BY DEF Ids
  <1> QED BY <1>1, <1>2, <1>3, <1>4, <1>5 DEF Packed

Recalculated(n, place) ==
  IF n.moving \/ n.current_y = place THEN n
  ELSE [n EXCEPT !.moving = TRUE, !.target_y = place, !.move_step = 0, !.late = FALSE]

LEMMA RecalculatedDrawn ==
  ASSUME NEW n \in Message, OnItsWay(n), NEW r, r = Recalculated(n, n.slot)
  PROVE  r \in Message /\ r.slot = n.slot /\ r.id = n.id /\ Drawn(r)
  <1>1. CASE n.moving \/ n.current_y = n.slot
    BY <1>1, MessageFields DEF Recalculated, OnItsWay, Drawn
  <1>2. CASE ~(n.moving \/ n.current_y = n.slot)
    <2>1. r = [n EXCEPT !.moving = TRUE, !.target_y = n.slot, !.move_step = 0, !.late = FALSE]
      BY <1>2 DEF Recalculated
    <2>2. n.slot \in Slots /\ 0 \in 0..MoveSteps - 1
      BY MessageFields, NotifAssumption
    <2>3. r \in Message
      BY <2>1, <2>2 DEF Message
    <2>4. r.slot = n.slot /\ r.id = n.id /\ r.moving = TRUE /\ r.target_y = n.slot
      BY <2>1 DEF Message
    <2> QED BY <2>3, <2>4 DEF Drawn
  <1> QED BY <1>1, <1>2

LEMMA RecalcShown ==
  ASSUME NEW ns, Packed(ns), \A n \in ns : OnItsWay(n), NEW ms, ms = RecalcTargets(ns)
  PROVE  /\ Shown(ms) /\ Ids(ms) = Ids(ns)
         /\ \A m \in ms : \E n \in ns : n.slot = m.slot
  <1> DEFINE f == [n \in ns |-> Recalculated(n, n.slot)]
  <1>1. ms = {f[n] : n \in ns}
    <2>1. \A n \in ns : Place(ns, n.slot) = n.slot
      BY PlaceIsSlot
    <2>2. ms = {Recalculated(n, Place(ns, n.slot)) : n \in ns}
      BY DEF RecalcTargets, Recalculated
    <2> QED BY <2>1, <2>2
  <1>2. \A n \in ns : f[n] \in Message /\ f[n].slot = n.slot /\ f[n].id = n.id /\ Drawn(f[n])
    BY RecalculatedDrawn DEF Packed
  <1>3. f \in [ns -> Message]
    BY <1>2
  <1> HIDE DEF f
  <1>4. Packed(ms) /\ Ids(ms) = Ids(ns)
    BY <1>1, <1>2, <1>3, SlotsKept
  <1> QED BY <1>1, <1>2, <1>4 DEF Shown

Shifted(n, index) ==
  IF n.slot < index THEN n ELSE [n EXCEPT !.slot = @ - 1, !.late = @ \/ n.moving]

LEMMA ShiftedMessage ==
  ASSUME NEW n \in Message, Drawn(n), NEW index \in Nat, n.slot # index, NEW r, r = Shifted(n, index)
  PROVE  /\ r \in Message /\ r.id = n.id /\ OnItsWay(r)
         /\ r.slot = IF n.slot < index THEN n.slot ELSE n.slot - 1
  <1>1. CASE n.slot < index
    BY <1>1 DEF Shifted, OnItsWay, Drawn
  <1>2. CASE ~(n.slot < index)
    <2>1. r = [n EXCEPT !.slot = n.slot - 1, !.late = n.late \/ n.moving]
      BY <1>2 DEF Shifted
    <2>2. n.slot - 1 \in Slots
      BY <1>2, MessageFields, NotifAssumption DEF Slots
    <2>3. (n.late \/ n.moving) \in BOOLEAN
      OBVIOUS
    <2>4. r \in Message
      BY <2>1, <2>2, <2>3 DEF Message
    <2>5. r.slot = n.slot - 1 /\ r.id = n.id /\ r.late = (n.late \/ n.moving) /\ r.moving = n.moving
      BY <2>1 DEF Message
    <2> QED BY <1>2, <2>4, <2>5 DEF OnItsWay
  <1> QED BY <1>1, <1>2

LEMMA ShiftPacks ==
  ASSUME NEW ns, Shown(ns), NEW index \in Nat, NEW ms, ms = Shift(ns, index)
  PROVE  /\ Packed(ms) /\ \A n \in ms : OnItsWay(n)
         /\ Ids(ms) \subseteq Ids(ns)
         /\ index < MaxCount => \A m \in ms : m.slot < MaxCount - 1
  <1> DEFINE rest == {m \in ns : m.slot # index}
             f == [n \in rest |-> Shifted(n, index)]
  <1>1. ms = {f[n] : n \in rest}
    BY DEF Shift, Shifted
  <1>2. \A n \in rest : /\ f[n] \in Message /\ f[n].id = n.id /\ OnItsWay(f[n])
                        /\ f[n].slot = IF n.slot < index THEN n.slot ELSE n.slot - 1
    BY ShiftedMessage DEF Shown, Packed
  <1>3. \A n \in rest : n \in ns /\ n.slot # index /\ n.slot \in Nat /\ n.slot < MaxCount
    BY MessageFields DEF Shown, Packed
  <1>4. \A m \in ns : m.slot # index => m \in rest
    OBVIOUS
  <1> HIDE DEF f, rest
  <1>5. ms \subseteq Message /\ \A m \in ms : OnItsWay(m)
    BY <1>1, <1>2
  <1>6. \A n, m \in ms : n.slot < m.slot => n.id < m.id
    <2> SUFFICES ASSUME NEW n \in rest, NEW m \in rest, f[n].slot < f[m].slot
                 PROVE  f[n].id < f[m].id
      BY <1>1
    <2>1. n.slot < m.slot
      BY <1>2, <1>3
    <2> QED BY <1>2, <1>3, <2>1 DEF Shown, Packed
  <1>7. \A n, m \in ms : n.slot = m.slot => n = m
    <2> SUFFICES ASSUME NEW n \in rest, NEW m \in rest, f[n].slot = f[m].slot
                 PROVE  n = m
      BY <1>1
    <2>1. n.slot = m.slot
      BY <1>2, <1>3
    <2> QED BY <1>3, <2>1 DEF Shown, Packed
  <1>8. \A n \in ms : \A j \in 0..n.slot - 1 : \E m \in ms : m.slot = j
    <2> SUFFICES ASSUME NEW n \in rest, NEW j \in 0..f[n].slot - 1
                 PROVE  \E m \in rest : f[m].slot = j
      BY <1>1
    <2>1. \A i \in 0..n.slot - 1 : \E m \in ns : m.slot = i
      BY <1>3 DEF Shown, Packed
    <2>2. CASE j < index
      <3>1. j \in 0..n.slot - 1
        BY <1>2, <1>3
      <3>2. PICK m \in ns : m.slot = j
        BY <2>1, <3>1
      <3> QED BY <1>2, <1>4, <2>2, <3>2
    <2>3. CASE ~(j < index)
      <3>1. j + 1 \in 0..n.slot - 1 /\ j \in Nat
        BY <1>2, <1>3, <2>3
      <3>2. PICK m \in ns : m.slot = j + 1
        BY <2>1, <3>1
      <3>3. m.slot # index /\ ~(m.slot < index) /\ m.slot - 1 = j
        BY <2>3, <3>1, <3>2
      <3> QED BY <1>2, <1>4, <3>3
    <2> QED BY <2>2, <2>3
  <1>9. Ids(ms) \subseteq Ids(ns)
    BY <1>1, <1>2, <1>3 DEF Ids
  <1>10. index < MaxCount => \A m \in ms : m.slot < MaxCount - 1
    BY <1>1, <1>2, <1>3, NotifAssumption
  <1> QED BY <1>5, <1>6, <1>7, <1>8, <1>9, <1>10 DEF Packed

(* Removing a message, wherever the others are on their way.               *)
LEMMA RemoveShows ==
  ASSUME NEW ns, Shown(ns), NEW index \in Nat, NEW ms, ms = NotifRemove(ns, index)
  PROVE  /\ Shown(ms) /\ Ids(ms) \subseteq Ids(ns)
         /\ index < MaxCount => \A m \in ms : m.slot # MaxCount - 1
  <1> DEFINE mid == Shift(ns, index)
  <1>1. /\ Packed(mid) /\ \A n \in mid : OnItsWay(n)
        /\ Ids(mid) \subseteq Ids(ns)
        /\ index < MaxCount => \A m \in mid : m.slot < MaxCount - 1
    BY ShiftPacks
  <1>2. ms = RecalcTargets(mid)
    BY DEF NotifRemove
  <1> HIDE DEF mid
  <1>3. /\ Shown(ms) /\ Ids(ms) = Ids(mid)
        /\ \A m \in ms : \E n \in mid : n.slot = m.slot
    BY <1>1, <1>2, RecalcShown
  <1>4. \A n \in mid : n.slot \in Nat
    BY <1>1, MessageFields DEF Packed
  <1> QED BY <1>1, <1>3, <1>4, NotifAssumption

LEMMA OneMessagePerId ==
  ASSUME NEW ns, Packed(ns), NEW n \in ns, NEW m \in ns, n.id = m.id
  PROVE  n = m
  BY MessageFields DEF Packed

(* What becomes of a message when another one is removed.                  *)
Later(n, m, index) ==
  /\ m.id = n.id /\ m.expired = n.expired /\ (n.moving => m.moving)
  /\ m.slot = IF n.slot < index THEN n.slot ELSE n.slot - 1

Stays(ns, ms, index) ==
  /\ \A m \in ms : \E n \in ns : n.slot # index /\ Later(n, m, index)
  /\ \A n \in ns : n.slot # index => \E m \in ms : Later(n, m, index)

LEMMA ShiftedLater ==
  ASSUME NEW n \in Message, NEW index \in Nat, NEW r, r = Shifted(n, index)
  PROVE  Later(n, r, index)
  <1>1. CASE n.slot < index
    BY <1>1 DEF Shifted, Later
  <1>2. CASE ~(n.slot < index)
    <2>1. r = [n EXCEPT !.slot = n.slot - 1, !.late = n.late \/ n.moving]
      BY <1>2 DEF Shifted
    <2> QED BY <1>2, <2>1 DEF Later, Message
  <1> QED BY <1>1, <1>2

LEMMA RecalculatedLater ==
  ASSUME NEW n \in Message, NEW place, NEW r, r = Recalculated(n, place)
  PROVE  /\ r.id = n.id /\ r.expired = n.expired /\ r.slot = n.slot
         /\ n.moving => r.moving
  BY DEF Recalculated, Message

(* One message goes and all others stay, in their order and as expired.    *)
LEMMA RemoveKeeps ==
  ASSUME NEW ns, Shown(ns), NEW index \in Nat, NEW ms, ms = NotifRemove(ns, index)
  PROVE  Stays(ns, ms, index)
  <1> DEFINE mid == Shift(ns, index)
             r(n) == Recalculated(n, Place(mid, n.slot))
             rest == {m \in ns : m.slot # index}
  <1>1. Packed(mid) /\ ns \subseteq Message
    BY ShiftPacks DEF Shown, Packed
  <1>2. mid = {Shifted(n, index) : n \in rest}
    BY DEF Shift, Shifted
  <1>3. ms = {r(n) : n \in mid}
    BY DEF NotifRemove, RecalcTargets, Recalculated
  <1>4. \A n \in rest : Later(n, Shifted(n, index), index)
    BY <1>1, ShiftedLater
  <1>5. \A n \in mid : /\ r(n).id = n.id /\ r(n).expired = n.expired /\ r(n).slot = n.slot
                       /\ n.moving => r(n).moving
    BY <1>1, RecalculatedLater DEF Packed
  <1> HIDE DEF mid, r
  <1>6. \A n \in rest : Later(n, r(Shifted(n, index)), index)
    BY <1>2, <1>4, <1>5 DEF Later
  <1>7. ms = {r(Shifted(n, index)) : n \in rest}
    BY <1>2, <1>3
  <1> QED BY <1>6, <1>7 DEF Stays

LEMMA OneGone ==
  ASSUME NEW ns, Packed(ns), NEW n \in ns, NEW ms, Stays(ns, ms, n.slot)
  PROVE  n.id \in Ids(ns) /\ n.id \notin Ids(ms)
  <1>1. n.id \in Ids(ns)
    BY DEF Ids
  <1>2. ASSUME NEW m \in ms, m.id = n.id PROVE FALSE
    <2>1. PICK k \in ns : k.slot # n.slot /\ Later(k, m, n.slot)
      BY DEF Stays
    <2>2. k.id = n.id
      BY <1>2, <2>1 DEF Later
    <2> QED BY <2>1, <2>2, OneMessagePerId
  <1> QED BY <1>1, <1>2 DEF Ids

(* The loop of notif_update                                                *)

LEMMA AdvancedMessage ==
  ASSUME NEW n \in Message, Drawn(n), NEW r, r = Advance(n)
  PROVE  r \in Message /\ r.slot = n.slot /\ r.id = n.id /\ Drawn(r)
  <1>1. CASE ~n.moving
    BY <1>1 DEF Advance
  <1>2. CASE n.moving /\ n.move_step + 1 < MoveSteps
    <2>1. r = [n EXCEPT !.move_step = n.move_step + 1]
      BY <1>2, MessageFields, NotifAssumption DEF Advance
    <2>2. n.move_step + 1 \in 0..MoveSteps - 1
      BY <1>2, MessageFields, NotifAssumption
    <2>3. r \in Message
      BY <2>1, <2>2 DEF Message
    <2> QED BY <2>1, <2>3 DEF Message, Drawn
  <1>3. CASE n.moving /\ ~(n.move_step + 1 < MoveSteps)
    <2>1. n.move_step + 1 >= MoveSteps
      BY <1>3, MessageFields, NotifAssumption
    <2>2. r = [n EXCEPT !.moving = FALSE, !.current_y = n.target_y, !.move_step = 0]
      BY <1>3, <2>1 DEF Advance
    <2>3. 0 \in 0..MoveSteps - 1
      BY NotifAssumption
    <2>4. r \in Message
      BY <2>2, <2>3 DEF Message
    <2> QED BY <1>3, <2>2, <2>4 DEF Message, Drawn
  <1> QED BY <1>1, <1>2, <1>3

Stepped(n, i) == IF n.slot < i THEN Advance(n) ELSE n

(* The loop has come to slot i in k rounds: one for each slot it is done   *)
(* with or message it has removed.  No message behind it is expired and at *)
(* rest, only expired ones are gone, and unless one is, those behind it    *)
(* have moved a step.                                                      *)
InRound(ns, i, k, all) ==
  /\ Shown(ns) /\ i \in 0..k /\ Ids(ns) \subseteq Ids(all)
  /\ \A n \in ns : n.slot < MaxCount - k + i
  /\ \A n \in ns : n.slot < i /\ n.expired => n.moving
  /\ \A n \in all : ~n.expired => \E m \in ns : m.id = n.id /\ ~m.expired
  /\ Ids(ns) = Ids(all) => ns = {Stepped(n, i) : n \in all}

AtRound(s, k, all) == \E ns, i : s = [ns |-> ns, i |-> i] /\ InRound(ns, i, k, all)

Advanced(n, i) == IF n.slot = i THEN Advance(n) ELSE n

LEMMA OneStepMore ==
  ASSUME NEW old, old \subseteq Message, \A n \in old : Drawn(n), NEW i \in Nat,
         NEW all, all \subseteq Message, \A n \in all : Drawn(n),
         old = {Stepped(n, i) : n \in all}
  PROVE  {Advanced(n, i) : n \in old} = {Stepped(n, i + 1) : n \in all}
  <1>1. \A n \in all : Advanced(Stepped(n, i), i) = Stepped(n, i + 1)
    <2> SUFFICES ASSUME NEW n \in all PROVE Advanced(Stepped(n, i), i) = Stepped(n, i + 1)
      OBVIOUS
    <2>1. n.slot \in Nat /\ Advance(n).slot = n.slot
      BY MessageFields, AdvancedMessage
    <2> QED BY <2>1 DEF Advanced, Stepped
  <1> QED BY <1>1

LEMMA AdvancedExpired ==
  ASSUME NEW n \in Message
  PROVE  Advance(n).expired = n.expired
  <1>1. CASE ~n.moving
    BY <1>1 DEF Advance
  <1>2. CASE n.moving /\ n.move_step + 1 < MoveSteps
    <2>1. Advance(n) = [n EXCEPT !.move_step = n.move_step + 1]
      BY <1>2, MessageFields, NotifAssumption DEF Advance
    <2> QED BY <2>1 DEF Message
  <1>3. CASE n.moving /\ ~(n.move_step + 1 < MoveSteps)
    <2>1. n.move_step + 1 >= MoveSteps
      BY <1>3, MessageFields, NotifAssumption
    <2>2. Advance(n) = [n EXCEPT !.moving = FALSE, !.current_y = n.target_y, !.move_step = 0]
      BY <1>3, <2>1 DEF Advance
    <2> QED BY <2>2 DEF Message
  <1> QED BY <1>1, <1>2, <1>3

LEMMA RoundGoesOn ==
  ASSUME NEW all, Shown(all), NEW k \in 0..MaxCount - 1, NEW old, NEW i, InRound(old, i, k, all),
         NEW t, t = UpdateSlot([ns |-> old, i |-> i])
  PROVE  AtRound(t, k + 1, all)
  <1> DEFINE here == {n \in old : n.slot = i}
             ns == {Advanced(n, i) : n \in old}
             gone == \E n \in here : ~Advance(n).moving /\ n.expired
  <1>1. /\ Shown(old) /\ i \in Nat /\ i <= k /\ k \in Nat /\ MaxCount \in Nat /\ k < MaxCount
        /\ Ids(old) \subseteq Ids(all) /\ old \subseteq Message
    BY NotifAssumption DEF InRound, Shown, Packed
  <1>2. \A n \in old : /\ Advanced(n, i) \in Message /\ Advanced(n, i).slot = n.slot
                       /\ Advanced(n, i).id = n.id /\ Drawn(Advanced(n, i))
                       /\ Advanced(n, i).expired = n.expired
    BY <1>1, AdvancedMessage, AdvancedExpired DEF Shown, Packed, Advanced
  <1>3. ns = (old \ here) \cup {Advance(n) : n \in here}
    BY DEF Advanced
  <1>4. t = IF gone THEN [ns |-> NotifRemove(ns, i), i |-> i] ELSE [ns |-> ns, i |-> i + 1]
    BY <1>3 DEF UpdateSlot
  <1>5. Packed(ns) /\ Ids(ns) = Ids(old)
    <2> DEFINE f == [n \in old |-> Advanced(n, i)]
    <2>1. f \in [old -> Message] /\ ns = {f[n] : n \in old}
          /\ \A n \in old : f[n].slot = n.slot /\ f[n].id = n.id
      BY <1>2
    <2> HIDE DEF f, ns
    <2> QED BY <1>1, <2>1, SlotsKept DEF Shown
  <1>6. Shown(ns)
    BY <1>2, <1>5 DEF Shown
  <1>7. \A n \in all : ~n.expired => \E m \in old : m.id = n.id /\ ~m.expired
    BY DEF InRound
  <1>8. \A n \in old : n.slot \in Nat /\ n.slot < MaxCount - k + i
    BY <1>1, MessageFields DEF InRound
  <1>9. \A n \in ns : n.slot \in Nat /\ n.slot < MaxCount - k + i
    BY <1>2, <1>8
  <1>10. \A n \in ns : n.slot < i /\ n.expired => n.moving
    BY <1>1, <1>2, <1>8 DEF InRound, Advanced
  <1>11. CASE gone
    <2> DEFINE ms == NotifRemove(ns, i)
    <2>1. PICK h \in old : h.slot = i /\ h.expired
      BY <1>11
    <2>2. Shown(ms) /\ Stays(ns, ms, i)
      BY <1>1, <1>6, RemoveShows, RemoveKeeps
    <2>3. Advanced(h, i) \in ns /\ Advanced(h, i).slot = i /\ Advanced(h, i).id = h.id
      BY <1>2, <2>1
    <2>4. Ids(ms) \subseteq Ids(ns) /\ Ids(ms) # Ids(ns)
      <3>1. Ids(ms) \subseteq Ids(ns)
        BY <1>1, <1>6, RemoveShows
      <3> HIDE DEF ns, ms
      <3> QED BY <1>5, <2>2, <2>3, <3>1, OneGone
    <2>5. Ids(ms) \subseteq Ids(all) /\ Ids(ms) # Ids(all)
      BY <1>1, <1>5, <2>4
    <2> HIDE DEF ms, ns
    <2>6. \A m \in ms : m.slot < MaxCount - (k + 1) + i
      <3> SUFFICES ASSUME NEW m \in ms PROVE m.slot < MaxCount - (k + 1) + i
        OBVIOUS
      <3>1. PICK n \in ns : n.slot # i /\ Later(n, m, i)
        BY <2>2 DEF Stays
      <3> QED BY <1>1, <1>9, <3>1 DEF Later
    <2>7. \A m \in ms : m.slot < i /\ m.expired => m.moving
      <3> SUFFICES ASSUME NEW m \in ms, m.slot < i, m.expired PROVE m.moving
        OBVIOUS
      <3>1. PICK n \in ns : n.slot # i /\ Later(n, m, i)
        BY <2>2 DEF Stays
      <3>2. n.slot < i
        BY <1>1, <1>9, <3>1 DEF Later
      <3> QED BY <1>10, <3>1, <3>2 DEF Later
    <2>8. \A n \in all : ~n.expired => \E m \in ms : m.id = n.id /\ ~m.expired
      <3> SUFFICES ASSUME NEW n \in all, ~n.expired PROVE \E m \in ms : m.id = n.id /\ ~m.expired
        OBVIOUS
      <3>1. PICK o \in old : o.id = n.id /\ ~o.expired
        BY <1>7
      <3>2. o.slot # i
        BY <1>1, <2>1, <3>1 DEF Shown, Packed
      <3>3. /\ Advanced(o, i) \in ns /\ Advanced(o, i).slot # i /\ Advanced(o, i).id = n.id
            /\ ~Advanced(o, i).expired
        BY <1>2, <3>1, <3>2 DEF ns
      <3>4. PICK m \in ms : Later(Advanced(o, i), m, i)
        BY <2>2, <3>3 DEF Stays
      <3> QED BY <3>3, <3>4 DEF Later
    <2>9. i \in 0..k + 1
      BY <1>1
    <2>10. InRound(ms, i, k + 1, all)
      BY <2>2, <2>5, <2>6, <2>7, <2>8, <2>9 DEF InRound
    <2> QED BY <1>4, <1>11, <2>10 DEF AtRound, ms, ns
  <1>12. CASE ~gone
    <2>1. \A n \in ns : n.slot < MaxCount - (k + 1) + (i + 1)
      BY <1>1, <1>9
    <2>2. \A n \in ns : n.slot < i + 1 /\ n.expired => n.moving
      <3> SUFFICES ASSUME NEW o \in old, NEW n, n = Advanced(o, i), n.slot < i + 1, n.expired
                   PROVE  n.moving
        OBVIOUS
      <3>1. CASE o.slot = i
        BY <1>2, <1>12, <3>1 DEF Advanced
      <3>2. CASE o.slot # i
        <4>1. n = o /\ n.slot < i
          BY <1>1, <1>8, <3>2 DEF Advanced
        <4> QED BY <4>1 DEF InRound
      <3> QED BY <3>1, <3>2
    <2>3. \A n \in all : ~n.expired => \E m \in ns : m.id = n.id /\ ~m.expired
      <3> SUFFICES ASSUME NEW n \in all, ~n.expired PROVE \E m \in ns : m.id = n.id /\ ~m.expired
        OBVIOUS
      <3>1. PICK o \in old : o.id = n.id /\ ~o.expired
        BY <1>7
      <3> QED BY <1>2, <3>1
    <2>4. Ids(ns) = Ids(all) => ns = {Stepped(n, i + 1) : n \in all}
      <3> SUFFICES ASSUME Ids(ns) = Ids(all) PROVE ns = {Stepped(n, i + 1) : n \in all}
        OBVIOUS
      <3>1. old = {Stepped(n, i) : n \in all}
        BY <1>5 DEF InRound
      <3>2. all \subseteq Message /\ \A n \in all : Drawn(n)
        BY DEF Shown, Packed
      <3>3. old \subseteq Message /\ \A n \in old : Drawn(n)
        BY <1>1 DEF Shown
      <3> QED BY <1>1, <3>1, <3>2, <3>3, OneStepMore
    <2>5. i + 1 \in 0..k + 1
      BY <1>1
    <2> HIDE DEF ns
    <2>6. InRound(ns, i + 1, k + 1, all)
      BY <1>1, <1>5, <1>6, <2>1, <2>2, <2>3, <2>4, <2>5 DEF InRound
    <2> QED BY <1>4, <1>12, <2>6 DEF AtRound, ns
  <1> QED BY <1>11, <1>12

(* The equation of Rounds, for loops of n rounds.                          *)
Follows(f, ns, n) ==
  f = [k \in 0..n |-> IF k = 0 THEN {[ns |-> ns, i |-> 0]}
                      ELSE {UpdateSlot(s) : s \in f[k - 1]}]

LEMMA OneRoundMore ==
  ASSUME NEW ns, NEW n \in Nat, NEW f, Follows(f, ns, n)
  PROVE  \E g : Follows(g, ns, n + 1)
  <1> DEFINE g == [k \in 0..n + 1 |-> IF k <= n THEN f[k] ELSE {UpdateSlot(s) : s \in f[n]}]
  <1>1. \A k \in 0..n + 1 :
          g[k] = IF k = 0 THEN {[ns |-> ns, i |-> 0]} ELSE {UpdateSlot(s) : s \in g[k - 1]}
    <2> SUFFICES ASSUME NEW k \in 0..n + 1
                 PROVE  g[k] = IF k = 0 THEN {[ns |-> ns, i |-> 0]}
                               ELSE {UpdateSlot(s) : s \in g[k - 1]}
      OBVIOUS
    <2>1. CASE k = 0
      BY <2>1 DEF Follows
    <2>2. CASE k # 0 /\ k <= n
      <3>1. g[k - 1] = f[k - 1] /\ g[k] = f[k] /\ k \in 0..n
        BY <2>2
      <3>2. f[k] = {UpdateSlot(s) : s \in f[k - 1]}
        BY <2>2, <3>1 DEF Follows
      <3> HIDE DEF g
      <3> QED BY <2>2, <3>1, <3>2
    <2>3. CASE k = n + 1
      <3>1. g[k - 1] = f[n] /\ g[k] = {UpdateSlot(s) : s \in f[n]} /\ k # 0
        BY <2>3
      <3> HIDE DEF g
      <3> QED BY <3>1
    <2> QED BY <2>1, <2>2, <2>3
  <1>2. Follows(g, ns, n + 1)
    <2>1. g = [k \in 0..n + 1 |-> g[k]]
      OBVIOUS
    <2> HIDE DEF g
    <2> QED BY <1>1, <2>1 DEF Follows
  <1> QED BY <1>2

(* A recursive function is one that satisfies its equation, if there is    *)
(* one: there is one for every number of rounds.                           *)
LEMMA RoundsFollow ==
  ASSUME NEW ns
  PROVE  Follows(Rounds(ns), ns, MaxCount)
  <1> DEFINE missing == {n \in Nat : ~\E f : Follows(f, ns, n)}
  <1>1. missing = {}
    <2> SUFFICES ASSUME missing # {} PROVE FALSE
      OBVIOUS
    <2>1. PICK n \in missing : \A m \in missing : n <= m
      BY LeastExists
    <2>2. Follows([k \in 0..0 |-> {[ns |-> ns, i |-> 0]}], ns, 0)
      BY DEF Follows
    <2>3. n # 0
      BY <2>2
    <2>4. n - 1 \in Nat /\ n - 1 \notin missing /\ (n - 1) + 1 = n
      BY <2>1, <2>3
    <2> QED BY <2>4, OneRoundMore
  <1>2. \E f : Follows(f, ns, MaxCount)
    BY <1>1, NotifAssumption
  <1>3. Rounds(ns) = CHOOSE f : Follows(f, ns, MaxCount)
    BY DEF Rounds, Follows
  <1> QED BY <1>2, <1>3

(* What notif_update's loop does to the messages, for any number of them:  *)
(* it leaves none that is expired and at rest, removes none but expired    *)
(* ones, and when it removes none each goes one step.                      *)
LEMMA UpdateAllShows ==
  ASSUME NEW ns, Shown(ns), NEW ms, ms = UpdateAll(ns)
  PROVE  /\ Shown(ms) /\ Ids(ms) \subseteq Ids(ns)
         /\ \A m \in ms : m.expired => m.moving
         /\ \A n \in ns : ~n.expired => \E m \in ms : m.id = n.id /\ ~m.expired
         /\ Ids(ms) = Ids(ns) => ms = {Advance(n) : n \in ns}
  <1> DEFINE r == Rounds(ns)
             Right(k) == \E s : r[k] = {s} /\ AtRound(s, k, ns)
             wrong == {k \in 0..MaxCount : ~Right(k)}
  <1>1. /\ r[0] = {[ns |-> ns, i |-> 0]}
        /\ \A k \in 1..MaxCount : r[k] = {UpdateSlot(s) : s \in r[k - 1]}
    <2>1. Follows(r, ns, MaxCount)
      BY RoundsFollow
    <2> HIDE DEF r
    <2>2. \A k \in 0..MaxCount : r[k] = IF k = 0 THEN {[ns |-> ns, i |-> 0]}
                                       ELSE {UpdateSlot(s) : s \in r[k - 1]}
      BY <2>1 DEF Follows
    <2>3. 0 \in 0..MaxCount /\ \A k \in 1..MaxCount : k \in 0..MaxCount /\ k # 0
      BY NotifAssumption
    <2> QED BY <2>2, <2>3
  <1> HIDE DEF r
  <1>2. Right(0)
    <2>1. \A n \in ns : n.slot \in Nat /\ n.slot < MaxCount /\ Stepped(n, 0) = n
      BY MessageFields DEF Shown, Packed, Stepped
    <2>2. {Stepped(n, 0) : n \in ns} = ns
      BY <2>1
    <2>3. \A n \in ns : n.slot < MaxCount - 0 + 0 /\ ~(n.slot < 0)
      BY <2>1, NotifAssumption
    <2>4. InRound(ns, 0, 0, ns)
      BY <2>2, <2>3 DEF InRound
    <2> QED BY <1>1, <2>4 DEF AtRound
  <1>3. ASSUME NEW k \in 1..MaxCount, Right(k - 1) PROVE Right(k)
    <2>1. PICK s : r[k - 1] = {s} /\ AtRound(s, k - 1, ns)
      BY <1>3
    <2>2. r[k] = {UpdateSlot(s)}
      BY <1>1, <2>1
    <2>3. k - 1 \in 0..MaxCount - 1 /\ (k - 1) + 1 = k
      BY NotifAssumption
    <2>4. AtRound(UpdateSlot(s), k, ns)
      BY <2>1, <2>3, RoundGoesOn DEF AtRound
    <2> QED BY <2>2, <2>4
  <1>4. wrong = {}
    <2> SUFFICES ASSUME wrong # {} PROVE FALSE
      OBVIOUS
    <2>1. wrong \in SUBSET Nat
      BY NotifAssumption
    <2>2. PICK k \in wrong : \A m \in wrong : k <= m
      <3> HIDE DEF wrong
      <3> QED BY <2>1, LeastExists
    <2>3. k # 0
      BY <1>2, <2>2
    <2>4. k \in 1..MaxCount /\ k - 1 \in 0..MaxCount /\ ~(k <= k - 1)
      BY <2>3, NotifAssumption
    <2>5. Right(k - 1)
      BY <2>2, <2>4
    <2> QED BY <1>3, <2>4, <2>5
  <1>5. Right(MaxCount)
    BY <1>4, NotifAssumption
  <1>6. PICK last, i : r[MaxCount] = {[ns |-> last, i |-> i]} /\ InRound(last, i, MaxCount, ns)
    BY <1>5 DEF AtRound
  <1>7. ms = last
    BY <1>6 DEF UpdateAll, r
  <1>8. \A n \in ms : n.slot < i
    BY <1>6, <1>7, NotifAssumption, MessageFields DEF InRound, Shown, Packed
  <1>9. ASSUME Ids(ms) = Ids(ns) PROVE ms = {Advance(n) : n \in ns}
    <2>1. ms = {Stepped(n, i) : n \in ns}
      BY <1>6, <1>7, <1>9 DEF InRound
    <2>2. ASSUME NEW n \in ns PROVE Stepped(n, i) = Advance(n)
      <3>1. Advance(n).slot = n.slot
        BY AdvancedMessage DEF Shown, Packed
      <3>2. Stepped(n, i).slot < i /\ Stepped(n, i).slot = n.slot
        BY <1>8, <2>1, <3>1 DEF Stepped
      <3> QED BY <3>2 DEF Stepped
    <2> QED BY <2>1, <2>2
  <1>10. Shown(ms) /\ Ids(ms) \subseteq Ids(ns)
    BY <1>6, <1>7 DEF InRound
  <1>11. \A m \in ms : m.expired => m.moving
    BY <1>6, <1>7, <1>8 DEF InRound
  <1>12. \A n \in ns : ~n.expired => \E m \in ms : m.id = n.id /\ ~m.expired
    BY <1>6, <1>7 DEF InRound
  <1> QED BY <1>9, <1>10, <1>11, <1>12

(* The steps                                                               *)

(* The messages up to the one whose button is down are those that were     *)
(* there when it was pressed, as long as all of these are still there: as  *)
(* many, and each older than any other message.                            *)
ClickInv ==
  click.down /\ click.index >= 0 =>
    /\ IsFiniteSet(click.ids) /\ Cardinality(click.ids) = click.index + 1
    /\ click.ids \subseteq 1..next_id - 1
    /\ \A id \in Ids(notifs), j \in click.ids : id \in click.ids \/ j < id

NotifInv ==
  /\ Shown(notifs)
  /\ next_id \in 1..MaxPosts + 1 /\ \A id \in Ids(notifs) : id < next_id
  /\ click \in [down : BOOLEAN, index : -1..MaxCount - 1, ids : SUBSET (1..MaxPosts)]
  /\ ClickInv /\ mistaken = FALSE

LEMMA NothingShown == Shown({}) /\ Ids({}) = {}
  BY DEF Shown, Packed, Ids

LEMMA NotifStarts ==
  ASSUME NotifInit
  PROVE  NotifInv
  <1>1. click \in [down : BOOLEAN, index : -1..MaxCount - 1, ids : SUBSET (1..MaxPosts)]
    BY NotifAssumption DEF NotifInit
  <1>2. click.down = FALSE
    BY DEF NotifInit
  <1> QED BY <1>1, <1>2, NothingShown, NotifAssumption DEF NotifInit, NotifInv, ClickInv

LEMMA FreshKeeps ==
  ASSUME FreshNotifs
  PROVE  NotifInv'
  <1>1. click' \in [down : BOOLEAN, index : -1..MaxCount - 1, ids : SUBSET (1..MaxPosts)]
    BY NotifAssumption DEF FreshNotifs
  <1>2. click'.down = FALSE
    BY DEF FreshNotifs
  <1>3. Shown(notifs') /\ Ids(notifs') = {}
    BY NothingShown DEF FreshNotifs
  <1> QED BY <1>1, <1>2, <1>3, NotifAssumption
          DEF FreshNotifs, NotifInv, ClickInv, Shown, Packed, Drawn, Ids, Message, Slots

(* A step with the button of the mouse as it was, and at most one message  *)
(* more, that is younger than all.                                         *)
LEMMA ButtonAside ==
  ASSUME NotifInv, UNCHANGED <<click, mistaken>>, Shown(notifs'),
         next_id' \in 1..MaxPosts + 1, next_id <= next_id',
         \A id \in Ids(notifs') : id \in Ids(notifs) \/ (id = next_id /\ next_id < next_id')
  PROVE  NotifInv'
  <1>1. next_id \in Nat /\ next_id' \in Nat /\ \A id \in Ids(notifs) : id < next_id /\ id \in Nat
    BY NotifAssumption, MessageFields DEF NotifInv, Shown, Packed, Ids
  <1>2. \A id \in Ids(notifs') : id < next_id'
    BY <1>1
  <1>3. ASSUME click.down /\ click.index >= 0
        PROVE  /\ IsFiniteSet(click.ids) /\ Cardinality(click.ids) = click.index + 1
               /\ click.ids \subseteq 1..next_id' - 1
               /\ \A id \in Ids(notifs'), j \in click.ids : id \in click.ids \/ j < id
    <2>1. /\ IsFiniteSet(click.ids) /\ Cardinality(click.ids) = click.index + 1
          /\ click.ids \subseteq 1..next_id - 1
          /\ \A id \in Ids(notifs), j \in click.ids : id \in click.ids \/ j < id
      BY <1>3 DEF NotifInv, ClickInv
    <2> QED BY <1>1, <2>1
  <1> QED BY <1>1, <1>2, <1>3
          DEF NotifInv, ClickInv, Shown, Packed, Drawn, Ids, Message, Slots

LEMMA RoomForOne ==
  ASSUME Shown(notifs), NEW room,
         room = IF Cardinality(notifs) = MaxCount THEN NotifRemove(notifs, 0) ELSE notifs
  PROVE  Shown(room) /\ Ids(room) \subseteq Ids(notifs) /\ \E slot : FirstFree(room, slot)
  <1>1. CASE Cardinality(notifs) = MaxCount
    <2>1. 0 \in Nat /\ 0 < MaxCount /\ MaxCount - 1 \in Slots
      BY NotifAssumption DEF Slots
    <2>2. room = NotifRemove(notifs, 0)
      BY <1>1
    <2>3. /\ Shown(room) /\ Ids(room) \subseteq Ids(notifs)
          /\ \A m \in room : m.slot # MaxCount - 1
      BY <2>1, <2>2, RemoveShows
    <2> QED BY <2>1, <2>3, FreeExists DEF Shown
  <1>2. CASE Cardinality(notifs) # MaxCount
    <2>1. PICK s \in Slots : \A n \in notifs : n.slot # s
      BY <1>2, AllSlotsTaken DEF Shown
    <2> QED BY <1>2, <2>1, FreeExists DEF Shown
  <1> QED BY <1>1, <1>2

NewMessage(id, slot, y) ==
  [id |-> id, slot |-> slot, expired |-> FALSE, moving |-> FALSE, late |-> FALSE,
   move_step |-> 0, current_y |-> y, target_y |-> y]

LEMMA OneMoreShown ==
  ASSUME NEW room, Shown(room), NEW slot, FirstFree(room, slot),
         NEW id \in 1..MaxPosts, \A i \in Ids(room) : i < id, 
         NEW new, new = NewMessage(id, slot, Place(room, slot))
  PROVE  Shown(room \cup {new}) /\ Ids(room \cup {new}) = Ids(room) \cup {id}
  <1>1. slot \in Nat /\ \A n \in room : n.slot < slot /\ n.slot \in Nat
    BY AboveAll, MessageFields DEF Shown, Packed
  <1>2. new = NewMessage(id, slot, slot)
    BY <1>1, SlotsBelow DEF Shown, FirstFree
  <1>3. slot \in Slots /\ 0 \in 0..MoveSteps - 1
    BY NotifAssumption DEF FirstFree
  <1>4. new \in Message /\ new.slot = slot /\ new.id = id /\ Drawn(new)
    BY <1>2, <1>3 DEF Message, Drawn, NewMessage
  <1>5. \A n \in room : n.id < id /\ n.id \in Nat
    BY MessageFields DEF Ids, Shown, Packed
  <1>6. Ids(room \cup {new}) = Ids(room) \cup {id}
    BY <1>4 DEF Ids
  <1>7. \A n, m \in room \cup {new} : n.slot < m.slot => n.id < m.id
    BY <1>1, <1>4, <1>5 DEF Shown, Packed
  <1>8. \A n, m \in room \cup {new} : n.slot = m.slot => n = m
    <2> SUFFICES ASSUME NEW n \in room \cup {new}, NEW m \in room \cup {new}, n.slot = m.slot
                 PROVE  n = m
      OBVIOUS
    <2>1. n \in room <=> m \in room
      BY <1>1, <1>4
    <2> QED BY <2>1 DEF Shown, Packed
  <1>9. \A n \in room \cup {new} : \A j \in 0..n.slot - 1 : \E m \in room \cup {new} : m.slot = j
    BY <1>4 DEF Shown, Packed, FirstFree
  <1>10. room \cup {new} \subseteq Message /\ \A n \in room \cup {new} : Drawn(n)
    BY <1>4 DEF Shown, Packed
  <1> HIDE DEF Drawn
  <1> QED BY <1>6, <1>7, <1>8, <1>9, <1>10 DEF Shown, Packed

LEMMA PostKeeps ==
  ASSUME NotifInv, Post
  PROVE  NotifInv'
  <1> DEFINE room == IF Cardinality(notifs) = MaxCount THEN NotifRemove(notifs, 0) ELSE notifs
             slot == CHOOSE i : FirstFree(room, i)
             new == NewMessage(next_id, slot, Place(room, slot))
  <1>1. Shown(room) /\ Ids(room) \subseteq Ids(notifs) /\ \E i : FirstFree(room, i)
    BY RoomForOne DEF NotifInv
  <1>2. FirstFree(room, slot)
    BY <1>1
  <1>3. next_id \in 1..MaxPosts /\ next_id' = next_id + 1 /\ UNCHANGED <<click, mistaken>>
        /\ next_id' \in 1..MaxPosts + 1 /\ next_id \in Nat
    BY NotifAssumption DEF Post, NotifInv
  <1>4. slot = CHOOSE i \in Slots : /\ \A n \in room : n.slot # i
                                    /\ \A j \in 0..i - 1 : \E n \in room : n.slot = j
    BY DEF FirstFree
  <1>5. notifs' = room \cup {new}
    BY <1>4 DEF Post, NewMessage
  <1> HIDE DEF room, slot
  <1>6. Shown(room \cup {new}) /\ Ids(room \cup {new}) = Ids(room) \cup {next_id}
    <2>1. \A i \in Ids(room) : i < next_id
      BY <1>1 DEF NotifInv
    <2> QED BY <1>1, <1>2, <1>3, <2>1, OneMoreShown
  <1> HIDE DEF new
  <1> QED BY <1>1, <1>3, <1>5, <1>6, ButtonAside

LEMMA ExpireKeeps ==
  ASSUME NotifInv, Expire
  PROVE  NotifInv'
  <1>1. PICK n \in notifs : notifs' = (notifs \ {n}) \cup {[n EXCEPT !.expired = TRUE]}
    BY DEF Expire
  <1> DEFINE f == [m \in notifs |-> IF m = n THEN [n EXCEPT !.expired = TRUE] ELSE m]
  <1>2. notifs \subseteq Message
    BY DEF NotifInv, Shown, Packed
  <1>3. \A m \in notifs : f[m] \in Message /\ f[m].slot = m.slot /\ f[m].id = m.id
                          /\ (Drawn(m) => Drawn(f[m]))
    BY <1>2 DEF Message, Drawn
  <1>4. f \in [notifs -> Message] /\ notifs' = {f[m] : m \in notifs}
    BY <1>1, <1>3
  <1> HIDE DEF f
  <1>5. Packed(notifs') /\ Ids(notifs') = Ids(notifs)
    BY <1>3, <1>4, SlotsKept DEF NotifInv, Shown
  <1>6. Shown(notifs')
    BY <1>3, <1>4, <1>5 DEF Shown, NotifInv
  <1>7. next_id' \in 1..MaxPosts + 1 /\ next_id <= next_id' /\ UNCHANGED <<click, mistaken>>
    BY NotifAssumption DEF NotifInv, Expire
  <1> QED BY <1>5, <1>6, <1>7, ButtonAside

LEMMA UpToIds ==
  ASSUME NEW ns, Packed(ns), NEW n \in ns, NEW up, up = Ids(UpTo(ns, n.slot))
  PROVE  /\ IsFiniteSet(up) /\ Cardinality(up) = n.slot + 1
         /\ \A m \in ns : m.id \in up <=> m.slot <= n.slot
         /\ \A id \in Ids(ns), j \in up : id \in up \/ j < id
  <1> DEFINE these == UpTo(ns, n.slot)
             f == [m \in these |-> m.id]
  <1>1. IsFiniteSet(these) /\ Cardinality(these) = n.slot + 1
    BY UpToIs
  <1>2. these \subseteq ns /\ \A m \in ns : m \in these <=> m.slot <= n.slot
    BY DEF UpTo
  <1>3. up = {m.id : m \in these}
    BY DEF Ids
  <1> HIDE DEF these
  <1>4. f \in Bijection(these, up)
    <2>1. f \in [these -> up] /\ \A j \in up : \E m \in these : f[m] = j
      BY <1>3
    <2>2. \A m, k \in these : f[m] = f[k] => m = k
      BY <1>2, OneMessagePerId
    <2> HIDE DEF f
    <2> QED BY <2>1, <2>2 DEF Bijection, Injection, Surjection, IsInjective
  <1>5. IsFiniteSet(up) /\ Cardinality(up) = n.slot + 1
    <2> HIDE DEF f
    <2> QED BY <1>1, <1>4, FS_Bijection DEF ExistsBijection
  <1>6. \A m \in ns : m.id \in up <=> m.slot <= n.slot
    BY <1>2, <1>3, OneMessagePerId
  <1>7. \A id \in Ids(ns), j \in up : id \in up \/ j < id
    <2> SUFFICES ASSUME NEW m \in ns, NEW k \in these, m.id \notin up PROVE k.id < m.id
      BY <1>3 DEF Ids
    <2>1. n.slot \in Nat /\ m.slot \in Nat /\ k.slot \in Nat
      BY <1>2, MessageFields DEF Packed
    <2>2. k.slot < m.slot
      BY <1>2, <1>6, <2>1
    <2> QED BY <1>2, <2>2 DEF Packed
  <1> QED BY <1>5, <1>6, <1>7

(* The messages counted when the button was pressed are those up to it now.*)
LEMMA SameChosen ==
  ASSUME NotifInv, click.down, NEW n \in notifs, click.index = n.slot,
         click.ids \subseteq Ids(notifs)
  PROVE  click.ids = Ids(UpTo(notifs, n.slot))
  <1> DEFINE up == Ids(UpTo(notifs, n.slot))
  <1>1. n.slot \in Nat
    BY MessageFields DEF NotifInv, Shown, Packed
  <1>2. /\ IsFiniteSet(up) /\ Cardinality(up) = n.slot + 1
        /\ \A id \in Ids(notifs), j \in up : id \in up \/ j < id
    BY UpToIds DEF NotifInv, Shown
  <1>3. /\ IsFiniteSet(click.ids) /\ Cardinality(click.ids) = n.slot + 1
        /\ \A id \in Ids(notifs), j \in click.ids : id \in click.ids \/ j < id
    BY <1>1 DEF NotifInv, ClickInv
  <1>4. up \subseteq Ids(notifs) /\ Ids(notifs) \subseteq Nat
    BY MessageFields DEF Ids, UpTo, NotifInv, Shown, Packed
  <1> HIDE DEF up
  <1>5. up \subseteq click.ids \/ click.ids \subseteq up
    <2> SUFFICES ASSUME NEW i \in up, i \notin click.ids, NEW j \in click.ids, j \notin up
                 PROVE  FALSE
      OBVIOUS
    <2>1. i \in Ids(notifs) /\ j \in Ids(notifs) /\ i \in Nat /\ j \in Nat
      BY <1>4
    <2>2. i < j /\ j < i
      BY <1>2, <1>3, <2>1
    <2> QED BY <2>1, <2>2
  <1>6. up = click.ids
    BY <1>2, <1>3, <1>5, FS_Subset
  <1> QED BY <1>6 DEF up

LEMMA ButtonAtSlot ==
  ASSUME NEW ns, NEW place, ButtonAt(ns, place) # -1
  PROVE  \E n \in ns : ButtonAt(ns, place) = n.slot
  BY DEF ButtonAt

LEMMA UpToNone ==
  ASSUME NEW ns, ns \subseteq Message
  PROVE  Ids(UpTo(ns, -1)) = {}
  <1>1. \A n \in ns : n.slot \in Nat
    BY MessageFields
  <1> QED BY <1>1 DEF Ids, UpTo

(* What the button of the mouse does before the messages move.             *)
LEMMA ClicksKeep ==
  ASSUME NotifInv, NEW down \in BOOLEAN, NEW place, HandleClicks(down, place)
  PROVE  /\ click' \in [down : BOOLEAN, index : -1..MaxCount - 1, ids : SUBSET (1..MaxPosts)]
         /\ mistaken' = FALSE
         /\ click'.down /\ click'.index >= 0 =>
              /\ IsFiniteSet(click'.ids) /\ Cardinality(click'.ids) = click'.index + 1
              /\ click'.ids \subseteq 1..next_id - 1
              /\ \A id \in Ids(notifs), j \in click'.ids : id \in click'.ids \/ j < id
  <1> DEFINE at == ButtonAt(notifs, place)
             up == Ids(UpTo(notifs, at))
  <1>0. Packed(notifs) /\ notifs \subseteq Message
    BY DEF NotifInv, Shown, Packed
  <1>1. at = -1 \/ \E n \in notifs : at = n.slot
    BY ButtonAtSlot
  <1>2. CASE down /\ click.down
    BY <1>2 DEF HandleClicks, NotifInv, ClickInv
  <1>3. CASE down /\ ~click.down
    <2>1. click' = [down |-> TRUE, index |-> at, ids |-> up] /\ mistaken' = FALSE
      BY <1>3 DEF HandleClicks, NotifInv
    <2>2. up \subseteq Ids(notifs)
      BY DEF Ids, UpTo
    <2>3. Ids(notifs) \subseteq 1..MaxPosts /\ Ids(notifs) \subseteq 1..next_id - 1
      <3>1. next_id \in Nat /\ \A id \in Ids(notifs) : id < next_id
        BY NotifAssumption DEF NotifInv
      <3>2. Ids(notifs) \subseteq 1..MaxPosts
        BY <1>0, MessageFields DEF Ids
      <3> QED BY <3>1, <3>2, NotifAssumption
    <2>4. CASE at = -1
      BY <2>1, <2>2, <2>3, <2>4, NotifAssumption
    <2>5. ASSUME NEW n \in notifs, at = n.slot
          PROVE  /\ at \in 0..MaxCount - 1 /\ IsFiniteSet(up) /\ Cardinality(up) = at + 1
                 /\ \A id \in Ids(notifs), j \in up : id \in up \/ j < id
      <3>1. n.slot \in 0..MaxCount - 1
        BY <1>0, MessageFields, NotifAssumption
      <3> QED BY <1>0, <2>5, <3>1, UpToIds
    <2> HIDE DEF at, up
    <2> QED BY <1>1, <2>1, <2>2, <2>3, <2>4, <2>5, NotifAssumption
  <1>4. CASE ~down
    <2>1. click' = [down |-> FALSE, index |-> -1, ids |-> {}]
      BY <1>4 DEF HandleClicks
    <2>2. ASSUME Closes(place) >= 0, click.ids \subseteq Ids(notifs)
          PROVE  click.ids = Ids(UpTo(notifs, Closes(place)))
      <3>1. click.down /\ click.index = at /\ at # -1 /\ Closes(place) = at
        BY <2>2 DEF Closes
      <3> HIDE DEF at
      <3>2. PICK n \in notifs : at = n.slot
        BY <1>1, <3>1
      <3> QED BY <2>2, <3>1, <3>2, SameChosen
    <2>3. mistaken' = FALSE
      BY <1>4, <2>2 DEF HandleClicks, NotifInv
    <2> QED BY <2>1, <2>3, NotifAssumption
  <1> QED BY <1>2, <1>3, <1>4

LEMMA UpdateKeeps ==
  ASSUME NotifInv, NotifUpdate
  PROVE  NotifInv'
  <1>1. PICK down \in BOOLEAN, place \in -1..OnScreen - 1 :
          /\ HandleClicks(down, place)
          /\ notifs' = UpdateAll(IF ~down /\ Closes(place) >= 0
                                   THEN NotifRemove(notifs, Closes(place)) ELSE notifs)
    BY DEF NotifUpdate
  <1> DEFINE ns == IF ~down /\ Closes(place) >= 0
                     THEN NotifRemove(notifs, Closes(place)) ELSE notifs
  <1>2. Shown(ns) /\ Ids(ns) \subseteq Ids(notifs)
    <2>1. CASE ~down /\ Closes(place) >= 0
      <3>1. Closes(place) = click.index /\ click.index \in Nat
        BY <2>1, NotifAssumption DEF Closes, NotifInv
      <3>2. Shown(notifs) /\ ns = NotifRemove(notifs, Closes(place))
        BY <2>1 DEF NotifInv
      <3> HIDE DEF ns
      <3> QED BY <3>1, <3>2, RemoveShows
    <2> QED BY <2>1 DEF NotifInv
  <1> HIDE DEF ns
  <1>3. Shown(notifs') /\ Ids(notifs') \subseteq Ids(notifs)
    <2>1. notifs' = UpdateAll(ns)
      BY <1>1 DEF ns
    <2>2. Shown(notifs') /\ Ids(notifs') \subseteq Ids(ns)
      BY <1>2, <2>1, UpdateAllShows
    <2> QED BY <1>2, <2>2
  <1>4. /\ click' \in [down : BOOLEAN, index : -1..MaxCount - 1, ids : SUBSET (1..MaxPosts)]
        /\ mistaken' = FALSE
        /\ click'.down /\ click'.index >= 0 =>
             /\ IsFiniteSet(click'.ids) /\ Cardinality(click'.ids) = click'.index + 1
             /\ click'.ids \subseteq 1..next_id - 1
             /\ \A id \in Ids(notifs), j \in click'.ids : id \in click'.ids \/ j < id
    BY <1>1, ClicksKeep
  <1>5. next_id' = next_id /\ next_id \in 1..MaxPosts + 1 /\ \A id \in Ids(notifs) : id < next_id
    BY DEF NotifUpdate, NotifInv
  <1>6. click'.down /\ click'.index >= 0 =>
             /\ IsFiniteSet(click'.ids) /\ Cardinality(click'.ids) = click'.index + 1
             /\ click'.ids \subseteq 1..next_id' - 1
             /\ \A id \in Ids(notifs'), j \in click'.ids : id \in click'.ids \/ j < id
    BY <1>3, <1>4, <1>5
  <1>7. ClickInv'
    BY <1>6 DEF ClickInv, Ids
  <1>8. Shown(notifs)'
    BY <1>3 DEF Shown, Packed, Drawn, Message, Slots
  <1>9. next_id' \in 1..MaxPosts + 1 /\ \A id \in Ids(notifs') : id < next_id'
    BY <1>3, <1>5
  <1> QED BY <1>4, <1>7, <1>8, <1>9 DEF NotifInv, Ids

LEMMA NotifKept ==
  ASSUME NotifInv, [Next]_vars
  PROVE  NotifInv'
  <1>1. CASE Post \/ Expire \/ NotifUpdate \/ FreshNotifs
    BY <1>1, PostKeeps, ExpireKeeps, UpdateKeeps, FreshKeeps
  <1>2. CASE UNCHANGED notifVars
    BY <1>2 DEF notifVars, NotifInv, ClickInv, Shown, Packed, Drawn, Ids, Message, Slots
  <1>3. UNCHANGED notifVars \/ Post \/ Expire \/ NotifUpdate \/ FreshNotifs
    BY DEF Next, vars, Install, Refuse, Frame, TimePasses, PowerCut, StartMedium, StartDisk,
           RunSystem
  <1> QED BY <1>1, <1>2, <1>3

(* For any size of the array, any length of the way and any number of      *)
(* buttons on the screen: whatever is posted, closed, pushed out or        *)
(* expires, a message that was not shifted on its way is drawn where its   *)
(* close button is looked for, or is on its way there.                     *)
THEOREM MessagesAtTheirButtons == Spec => []DrawnAtItsButton
  <1>1. Init => NotifInv
    BY NotifStarts DEF Init
  <1>2. NotifInv => DrawnAtItsButton
    BY PlaceIsSlot DEF NotifInv, Shown, Drawn, DrawnAtItsButton
  <1> QED BY <1>1, <1>2, NotifKept, PTL DEF Spec

(* clicked_index is a slot, and the array is shifted between the press and *)
(* the release; still a release closes the message that the press was on   *)
(* whenever all the messages up to that one are still there.               *)
THEOREM ClicksCloseWhatWasPressed == Spec => []ClosesWhatWasPressed
  <1>1. Init => NotifInv
    BY NotifStarts DEF Init
  <1>2. NotifInv => ClosesWhatWasPressed
    BY DEF NotifInv, ClosesWhatWasPressed
  <1> QED BY <1>1, <1>2, NotifKept, PTL DEF Spec

(* Why a message goes: the part of it that is not fairness.                *)
FrameWears ==
  Frame =>
    /\ \A n \in notifs' : n.expired => n.moving
    /\ Ids(notifs') = Ids(notifs) => notifs' = {Advance(n) : n \in notifs}

Oldest(n) == \A m \in notifs : n.id <= m.id

NoneLostEarly ==
  \A n \in notifs : n.id \notin Ids(notifs') =>
    \/ Frame /\ n.expired
    \/ Frame /\ click.down /\ ~click'.down /\ n.slot = click.index
    \/ Cardinality(notifs) = MaxCount /\ Oldest(n) /\ next_id' = next_id + 1
    \/ running' = "off"

LEMMA FrameMoves ==
  ASSUME NotifInv, NotifUpdate
  PROVE  /\ \A n \in notifs' : n.expired => n.moving
         /\ Ids(notifs') = Ids(notifs) => notifs' = {Advance(n) : n \in notifs}
         /\ \A n \in notifs : n.id \notin Ids(notifs') =>
              n.expired \/ (click.down /\ ~click'.down /\ n.slot = click.index)
  <1>1. PICK down \in BOOLEAN, place \in -1..OnScreen - 1 :
          /\ HandleClicks(down, place)
          /\ notifs' = UpdateAll(IF ~down /\ Closes(place) >= 0
                                   THEN NotifRemove(notifs, Closes(place)) ELSE notifs)
    BY DEF NotifUpdate
  <1>2. Shown(notifs) /\ notifs \subseteq Message
    BY DEF NotifInv, Shown, Packed
  <1>3. CASE ~down /\ Closes(place) >= 0
    <2> DEFINE ns == NotifRemove(notifs, click.index)
    <2>1. /\ click.down /\ click.index \in Nat /\ Closes(place) = click.index
          /\ ButtonAt(notifs, place) = click.index /\ click.index # -1
      BY <1>3, NotifAssumption DEF Closes, NotifInv
    <2>2. PICK h \in notifs : h.slot = click.index
      BY <2>1, ButtonAtSlot
    <2>3. notifs' = UpdateAll(ns)
      BY <1>1, <1>3, <2>1
    <2>4. Shown(ns) /\ Ids(ns) \subseteq Ids(notifs) /\ Stays(notifs, ns, click.index)
      BY <1>2, <2>1, RemoveShows, RemoveKeeps
    <2> HIDE DEF ns
    <2>5. /\ Ids(notifs') \subseteq Ids(ns)
          /\ \A m \in notifs' : m.expired => m.moving
          /\ \A n \in ns : ~n.expired => \E m \in notifs' : m.id = n.id /\ ~m.expired
      BY <2>3, <2>4, UpdateAllShows
    <2>6. h.id \in Ids(notifs) /\ h.id \notin Ids(ns)
      BY <1>2, <2>2, <2>4, OneGone DEF Shown
    <2>7. Ids(notifs') # Ids(notifs)
      BY <2>5, <2>6
    <2>8. ~click'.down
      BY <1>1, <1>3 DEF HandleClicks
    <2>9. ASSUME NEW n \in notifs, ~n.expired, n.slot # click.index PROVE n.id \in Ids(notifs')
      <3>1. PICK m \in ns : m.id = n.id /\ ~m.expired
        BY <2>4, <2>9 DEF Stays, Later
      <3> QED BY <2>5, <3>1 DEF Ids
    <2> QED BY <2>1, <2>5, <2>7, <2>8, <2>9
  <1>4. CASE ~(~down /\ Closes(place) >= 0)
    <2>1. notifs' = UpdateAll(notifs)
      BY <1>1, <1>4
    <2>2. /\ \A m \in notifs' : m.expired => m.moving
          /\ \A n \in notifs : ~n.expired => \E m \in notifs' : m.id = n.id /\ ~m.expired
          /\ Ids(notifs') = Ids(notifs) => notifs' = {Advance(n) : n \in notifs}
      BY <1>2, <2>1, UpdateAllShows
    <2>3. \A n \in notifs : n.id \notin Ids(notifs') => n.expired
      BY <2>2 DEF Ids
    <2> QED BY <2>2, <2>3
  <1> QED BY <1>3, <1>4

LEMMA PostGivesUpOldest ==
  ASSUME NotifInv, Post, NEW n \in notifs, n.id \notin Ids(notifs')
  PROVE  Cardinality(notifs) = MaxCount /\ Oldest(n) /\ next_id' = next_id + 1
  <1> DEFINE room == IF Cardinality(notifs) = MaxCount THEN NotifRemove(notifs, 0) ELSE notifs
  <1>1. room \subseteq notifs' /\ next_id' = next_id + 1
    BY DEF Post
  <1>2. n.id \notin Ids(room)
    BY <1>1 DEF Ids
  <1>3. Cardinality(notifs) = MaxCount
    BY <1>2 DEF Ids
  <1>4. Stays(notifs, room, 0)
    BY <1>3, RemoveKeeps DEF NotifInv
  <1> HIDE DEF room
  <1>5. n.slot = 0
    BY <1>2, <1>4 DEF Stays, Later, Ids
  <1>6. Oldest(n)
    <2> SUFFICES ASSUME NEW m \in notifs PROVE n.id <= m.id
      BY DEF Oldest
    <2>1. m.slot \in Nat /\ m.id \in Nat /\ n.id \in Nat
      BY MessageFields DEF NotifInv, Shown, Packed
    <2>2. CASE m.slot = 0
      BY <1>5, <2>1, <2>2 DEF NotifInv, Shown, Packed
    <2>3. CASE n.slot < m.slot
      BY <2>1, <2>3 DEF NotifInv, Shown, Packed
    <2> QED BY <1>5, <2>1, <2>2, <2>3
  <1> QED BY <1>1, <1>3, <1>6

(* Each frame wears the messages down: it leaves none that is expired and  *)
(* at rest, though the array is shifted under the loop, and unless it      *)
(* closes one it moves each one a step on its way.                         *)
THEOREM FramesWearMessagesDown == Spec => [][FrameWears]_vars
  <1>1. Init => NotifInv
    BY NotifStarts DEF Init
  <1>2. NotifInv /\ [Next]_vars => [FrameWears]_vars
    <2>1. NotifInv /\ Frame =>
            /\ \A n \in notifs' : n.expired => n.moving
            /\ Ids(notifs') = Ids(notifs) => notifs' = {Advance(n) : n \in notifs}
      BY FrameMoves DEF Frame
    <2> QED BY <2>1 DEF FrameWears
  <1> QED BY <1>1, <1>2, NotifKept, PTL DEF Spec

(* Only a frame takes messages off the screen, expired ones and the one    *)
(* whose button was pressed and released, except that a full array gives   *)
(* up its oldest for a new one; no other goes while the power is on.       *)
THEOREM NoMessageLostEarly == Spec => [][NoneLostEarly]_vars
  <1>1. Init => NotifInv
    BY NotifStarts DEF Init
  <1>2. NotifInv /\ [Next]_vars => NoneLostEarly
    <2> SUFFICES ASSUME NotifInv, [Next]_vars, NEW n \in notifs, n.id \notin Ids(notifs')
                 PROVE  \/ Frame /\ n.expired
                        \/ Frame /\ click.down /\ ~click'.down /\ n.slot = click.index
                        \/ Cardinality(notifs) = MaxCount /\ Oldest(n) /\ next_id' = next_id + 1
                        \/ running' = "off"
      BY DEF NoneLostEarly
    <2>1. CASE Frame
      BY <2>1, FrameMoves DEF Frame
    <2>2. CASE Post
      BY <2>2, PostGivesUpOldest
    <2>3. notifs' # notifs
      BY DEF Ids
    <2>4. ~Expire
      <3> SUFFICES ASSUME Expire PROVE FALSE
        OBVIOUS
      <3>1. PICK o \in notifs : notifs' = (notifs \ {o}) \cup {[o EXCEPT !.expired = TRUE]}
        BY DEF Expire
      <3>2. [o EXCEPT !.expired = TRUE].id = o.id
        BY DEF NotifInv, Shown, Packed, Message
      <3> QED BY <3>1, <3>2 DEF Ids
    <2>5. Frame \/ Post \/ Expire \/ running' = "off" \/ notifs' = notifs
      BY DEF Next, vars, notifVars, Install, Refuse, TimePasses, PowerCut, StartMedium, StartDisk,
             RunSystem
    <2> QED BY <2>1, <2>2, <2>3, <2>4, <2>5
  <1> QED BY <1>1, <1>2, NotifKept, PTL DEF Spec

-----------------------------------------------------------------------------
(* Types, and the name field as an editor                                  *)

(* How far perform_installation has come with the blocks.                  *)
BlockInv ==
  /\ block \in 0..TotalBlocks
  /\ step = "flush" => block < TotalBlocks

TypeInv ==
  /\ InstallerTypeOK /\ BlockInv /\ SetupTypeOK
  /\ running \in {"medium", "disk", "off"} /\ cuts \in 0..MaxPowerCuts

LEMMA BlocksNatural == TotalBlocks \in Nat
  <1>1. \A a \in Nat, b \in Nat \ {0} : a \div b \in Nat
    BY Z3
  <1>2. ImageSectors + BlockSectors - 1 \in Nat /\ BlockSectors \in Nat \ {0}
    BY ImageAssumption
  <1> QED BY <1>1, <1>2 DEF TotalBlocks

Typed(m) == \A d \in Disks : m[d] \in [Sectors(d) -> Content]

LEMMA WriteTypes ==
  ASSUME Typed(media), PerDisk(media), NEW start, NEW count, NEW content \in Content,
         Write(start, count, content)
  PROVE  Typed(media')
  <1>1. PICK done \in 0..count :
          media' = [media EXCEPT ![selected_disk] =
                      [s \in Sectors(selected_disk) |->
                         IF s \in start..start + done - 1 THEN content ELSE @[s]]]
    BY DEF Write
  <1>2. \A d \in Disks : d # selected_disk => media'[d] = media[d]
    BY <1>1 DEF PerDisk
  <1>3. ASSUME selected_disk \in Disks
        PROVE  media'[selected_disk] \in [Sectors(selected_disk) -> Content]
    <2>1. media'[selected_disk] =
            [s \in Sectors(selected_disk) |->
               IF s \in start..start + done - 1 THEN content ELSE media[selected_disk][s]]
      BY <1>1, <1>3 DEF PerDisk
    <2>2. \A s \in Sectors(selected_disk) : media[selected_disk][s] \in Content
      BY <1>3 DEF Typed
    <2> QED BY <2>1, <2>2
  <1> QED BY <1>2, <1>3 DEF Typed

LEMMA DiskSet ==
  ASSUME NEW m, Typed(m), PerDisk(m), NEW c, c \in [Sectors(selected_disk) -> Content],
         NEW n, n = [m EXCEPT ![selected_disk] = c]
  PROVE  Typed(n)
  BY DEF Typed, PerDisk

LEMMA DisksTyped ==
  ASSUME Typed(media), Typed(platter), ImageInv, InstallerNext
  PROVE  Typed(media') /\ Typed(platter')
  <1>0. PerDisk(media) /\ PerDisk(platter)
    BY DEF ImageInv, FitInv
  <1>1. CASE \/ WelcomeInstall \/ (\E d \in Disks : SelectDisk(d)) \/ CheckTarget
    BY <1>1 DEF WelcomeInstall, SelectDisk, CheckTarget
  <1>2. CASE StartInstallation
    <2>1. [s \in Sectors(selected_disk) |-> "old"] \in [Sectors(selected_disk) -> Content]
      BY DEF Content
    <2> QED BY <1>0, <1>2, <2>1, DiskSet DEF StartInstallation
  <1>3. CASE ClearBootArea \/ WriteBlock
    <2>1. platter' = platter
      BY <1>3 DEF ClearBootArea, WriteBlock
    <2>2. media' = media
          \/ \E start, count : \E content \in {"zero", "image"} : Write(start, count, content)
      BY <1>3 DEF ClearBootArea, WriteBlock
    <2>3. Typed(media')
      BY <1>0, <2>2, WriteTypes DEF Content
    <2> QED BY <2>1, <2>3
  <1>4. CASE FlushBootArea \/ FlushBlocks \/ FinalSync
    <2>1. media' = media /\ Flush /\ selected_disk \in Disks
      BY <1>4 DEF FlushBootArea, FlushBlocks, FinalSync, ImageInv, CourseInv
    <2>2. media[selected_disk] \in [Sectors(selected_disk) -> Content]
      BY <2>1 DEF Typed
    <2> QED BY <1>0, <2>1, <2>2, DiskSet DEF Flush
  <1>5. CASE VerifyMBR
    <2>1. platter' = platter /\ selected_disk \in Disks
          /\ (media' = media \/ media' = [media EXCEPT ![selected_disk][0] = "stamped"])
      BY <1>5 DEF VerifyMBR, ImageInv, CourseInv
    <2>2. [media[selected_disk] EXCEPT ![0] = "stamped"] \in [Sectors(selected_disk) -> Content]
      BY <2>1 DEF Typed, Content
    <2>3. [media EXCEPT ![selected_disk][0] = "stamped"] =
            [media EXCEPT ![selected_disk] = [media[selected_disk] EXCEPT ![0] = "stamped"]]
      OBVIOUS
    <2> QED BY <1>0, <2>1, <2>2, <2>3, DiskSet
  <1> QED BY <1>1, <1>2, <1>3, <1>4, <1>5 DEF InstallerNext, PerformInstallation

LEMMA LossTyped ==
  ASSUME Typed(media), Typed(platter), LoseCache
  PROVE  Typed(media') /\ Typed(platter')
  <1>1. PICK kept : platter' = [d \in Disks |-> [s \in Sectors(d) |->
                      IF <<d, s>> \in kept THEN media[d][s] ELSE platter[d][s]]]
    BY DEF LoseCache
  <1>2. Typed(platter')
    BY <1>1 DEF Typed
  <1> QED BY <1>2 DEF LoseCache

PagesTyped ==
  /\ current_stage \in {"welcome", "select_disk", "installing", "complete"}
  /\ selected_disk \in Nat /\ installing \in BOOLEAN /\ lost \in BOOLEAN
  /\ step \in {"none", "check", "clear", "clear_flush", "write", "flush", "verify"}

LEMMA PagesStayTyped ==
  ASSUME PagesTyped, ImageInv, InstallerNext
  PROVE  PagesTyped'
  <1>1. selected_disk' \in Nat
    <2>1. CourseInv'
      BY CourseSteps DEF ImageInv
    <2> QED BY <2>1 DEF CourseInv
  <1>2. lost' \in BOOLEAN
    BY DEF InstallerNext, PerformInstallation, WelcomeInstall, StartInstallation, SelectDisk,
           CheckTarget, ClearBootArea, FlushBootArea, WriteBlock, FlushBlocks, FinalSync,
           VerifyMBR, Write, Flush, PagesTyped
  <1>3. /\ current_stage' \in {"welcome", "select_disk", "installing", "complete"}
        /\ installing' \in BOOLEAN
        /\ step' \in {"none", "check", "clear", "clear_flush", "write", "flush", "verify"}
    BY DEF InstallerNext, PerformInstallation, WelcomeInstall, StartInstallation, SelectDisk,
           CheckTarget, ClearBootArea, FlushBootArea, WriteBlock, FlushBlocks, FinalSync,
           VerifyMBR, PagesTyped
  <1> QED BY <1>1, <1>2, <1>3 DEF PagesTyped

LEMMA BlocksCounted ==
  ASSUME BlockInv, ImageInv, InstallerNext
  PROVE  BlockInv'
  <1> USE BlocksNatural
  <1>1. CASE WriteBlock
    <2>1. block < TotalBlocks /\ block \in Nat /\ block + 1 \in 0..TotalBlocks
      BY <1>1 DEF WriteBlock, BlockInv
    <2>2. \/ step' = "flush" /\ block' = block
          \/ step' = "write" /\ block' = block + 1
      BY <1>1 DEF WriteBlock
    <2>3. TotalBlocks' = TotalBlocks
      BY DEF TotalBlocks
    <2> QED BY <2>1, <2>2, <2>3 DEF BlockInv
  <1>2. CASE FlushBlocks
    BY <1>2 DEF FlushBlocks, BlockInv, TotalBlocks
  <1>3. CASE ~WriteBlock /\ ~FlushBlocks
    BY <1>3 DEF InstallerNext, PerformInstallation, WelcomeInstall, StartInstallation, SelectDisk,
           CheckTarget, ClearBootArea, FlushBootArea, FinalSync, VerifyMBR, BlockInv, TotalBlocks
  <1> QED BY <1>1, <1>2, <1>3

LEMMA InstallerTypes ==
  ASSUME InstallerTypeOK, BlockInv, ImageInv, InstallerNext
  PROVE  InstallerTypeOK' /\ BlockInv'
  <1>1. PagesTyped /\ Typed(media) /\ Typed(platter)
    BY DEF InstallerTypeOK, PagesTyped, Typed
  <1>2. PagesTyped' /\ Typed(media') /\ Typed(platter') /\ BlockInv'
    BY <1>1, PagesStayTyped, DisksTyped, BlocksCounted
  <1> QED BY <1>2 DEF InstallerTypeOK, PagesTyped, Typed, BlockInv

LEMMA NameTyped ==
  ASSUME TextInv
  PROVE  Text \in Names
  <1>1. HoldsString(buffer, strlen(buffer))
    BY InvPlaced DEF PlacedIn
  <1>2. Text \in Ed!Texts
    BY <1>1, TextNow, TextIsText
  <1> QED BY <1>2 DEF Ed!Texts, Names

FilesTyped(f) == f.passwd \in Names /\ f.conf \in {"first", "done"}

Shows == {"down", "test", "config", "form", "normal", "stuck", "hung", "complete"} \cup Steps

LEMMA FreshTyped == FilesTyped(FreshFiles) /\ WellFormed(FreshFiles) /\ <<>> \in Names
  <1>1. <<>> \in [1..0 -> Chars] /\ 0 \in 0..BufferSize - 1
    BY SizeAssumption
  <1>2. <<>> \in Names
    BY <1>1 DEF Names
  <1> QED BY <1>2 DEF FilesTyped, FreshFiles, WellFormed

(* What ext2 reports made in one of the directories.                       *)
LEMMA ReportTyped ==
  ASSUME SetupTypeOK, NEW dir \in Dirs, ReportMade(dir)
  PROVE  spoiled' \subseteq Dirs /\ failed' \in BOOLEAN
  BY DEF ReportMade, SetupTypeOK

LEMMA BootTypes ==
  ASSUME SetupTypeOK, Ext2Test \/ ReadConfiguration
  PROVE  SetupTypeOK'
  <1>1. sys' \in Shows
    BY DEF Ext2Test, ReadConfiguration, Shows
  <1>2. UNCHANGED <<mounted, user, image, files, synced>>
    BY DEF Ext2Test, ReadConfiguration
  <1>3. spoiled' \subseteq Dirs /\ failed' \in BOOLEAN
    <2>1. "root" \in Dirs
      BY DEF Dirs
    <2>2. ReportMade("root") \/ UNCHANGED <<spoiled, failed>>
      BY DEF Ext2Test, Ext2TestEnds, Ext2TestHangs, ReadConfiguration
    <2> QED BY <2>1, <2>2, ReportTyped DEF SetupTypeOK
  <1>4. interrupts' \in BOOLEAN
    <2>1. CASE Ext2Test
      BY <2>1 DEF Ext2Test, SetupTypeOK
    <2>2. CASE ReadConfiguration
      <3>1. \E waited \in BOOLEAN : interrupts' = ~(mounted /\ waited)
        BY <2>2 DEF ReadConfiguration
      <3> QED BY <3>1, Zenon
    <2> QED BY <2>1, <2>2
  <1> QED BY <1>1, <1>2, <1>3, <1>4 DEF SetupTypeOK, Shows, Steps, Dirs, Names

LEMMA FinishTypes ==
  ASSUME SetupTypeOK, SetupInv, TextInv, Finish \/ FinishSteps
  PROVE  SetupTypeOK'
  <1>1. FilesTyped(files) /\ FilesTyped(synced) /\ WellFormed(files) /\ WellFormed(synced)
    BY DEF SetupTypeOK, FilesTyped, SetupInv
  <1>2. user' \in Names
    BY NameTyped DEF Finish, FinishSteps, MakeUserDirectory, CopyTemplate,
       WritePasswd, OpenConf, WriteConf, CloseConf, SetupTypeOK
  <1>3. FilesTyped(files')
    BY <1>1 DEF Finish, FinishSteps, MakeUserDirectory, CopyTemplate, WritePasswd, NoPasswd, NewLine,
       OpenConf, WriteConf, CloseConf, SetupTypeOK, WellFormed, FilesTyped
  <1>4. synced' \in {synced, files, files'}
    BY DEF Finish, FinishSteps, MakeUserDirectory, CopyTemplate, WritePasswd, NoPasswd,
       OpenConf, WriteConf, CloseConf
  <1>5. sys' \in Shows
    BY DEF Finish, FinishSteps, MakeUserDirectory, CopyTemplate, CopyIntoHome, CopyIntoNothing,
       WritePasswd, NoPasswd, OpenConf, WriteConf, CloseConf, Shows, Steps
  <1>6. UNCHANGED <<mounted, image>> /\ interrupts' \in BOOLEAN
    BY DEF Finish, FinishSteps, MakeUserDirectory, CopyTemplate, WritePasswd, OpenConf, WriteConf,
       CloseConf, SetupTypeOK
  <1>7. spoiled' \subseteq Dirs /\ failed' \in BOOLEAN
    <2>1. \/ \E dir \in Dirs : ReportMade(dir)
          \/ spoiled' = spoiled /\ failed' \in {failed, TRUE}
      BY DEF Finish, FinishSteps, MakeUserDirectory, CopyTemplate, CopyIntoHome, CopyIntoNothing,
         WritePasswd, NoPasswd, OpenConf, WriteConf, CloseConf, Dirs
    <2> QED BY <2>1, ReportTyped DEF SetupTypeOK
  <1> QED BY <1>1, <1>2, <1>3, <1>4, <1>5, <1>6, <1>7
          DEF SetupTypeOK, FilesTyped, Shows, Steps, Dirs, Names

LEMMA MountTypes ==
  ASSUME SetupTypeOK, NEW hasRoot \in BOOLEAN, MountRoot(hasRoot)
  PROVE  SetupTypeOK'
  <1>1. mounted' \in BOOLEAN /\ sys' \in Shows /\ user' \in Names
    BY FreshTyped DEF MountRoot, Shows
  <1>2. image' \in Images \cup {NoImage}
    BY DEF MountRoot, SetupTypeOK
  <1> QED BY <1>1, <1>2 DEF MountRoot, SetupTypeOK, Shows, Steps, Dirs, Names, NoImage

LEMMA LossTypes ==
  ASSUME SetupTypeOK, LoseFiles
  PROVE  SetupTypeOK'
  <1>1. FilesTyped(files) /\ FilesTyped(synced)
    BY DEF SetupTypeOK, FilesTyped
  <1>2. FilesTyped(files') /\ synced' = files'
    BY <1>1 DEF LoseFiles, FilesTyped
  <1>3. /\ sys' = "down" /\ mounted' \in BOOLEAN /\ interrupts' \in BOOLEAN /\ failed' \in BOOLEAN
        /\ user' \in Names /\ UNCHANGED <<image, spoiled>>
    BY FreshTyped DEF LoseFiles, SetupTypeOK
  <1> QED BY <1>2, <1>3 DEF SetupTypeOK, FilesTyped, Names, Steps, Dirs, NoImage

LEMMA SetupTypes ==
  ASSUME SetupTypeOK, SetupInv, TextInv, [Next]_vars
  PROVE  SetupTypeOK'
  <1>1. CASE Finish \/ FinishSteps
    BY <1>1, FinishTypes
  <1>2. CASE Ext2Test \/ ReadConfiguration
    BY <1>2, BootTypes
  <1>3. ASSUME NEW d \in Disks, StartDisk(d) PROVE SetupTypeOK'
    <2>1. PICK hasRoot \in BOOLEAN : MountRoot(hasRoot)
      BY <1>3, Zenon DEF StartDisk
    <2> QED BY <2>1, MountTypes
  <1>4. CASE LoseFiles
    BY <1>4, LossTypes
  <1>5. CASE UNCHANGED setupVars
    BY <1>5 DEF setupVars, SetupTypeOK, Names, Steps, Dirs, NoImage
  <1>6. CASE Install
    <2>1. /\ UNCHANGED <<sys, mounted, interrupts, user, image, failed>>
          /\ \/ files' = FreshFiles /\ synced' = FreshFiles /\ spoiled' = {}
             \/ UNCHANGED <<files, synced, spoiled>>
      BY <1>6 DEF Install
    <2>2. FilesTyped(files') /\ FilesTyped(synced') /\ spoiled' \subseteq Dirs
      BY <2>1, FreshTyped DEF SetupTypeOK, FilesTyped
    <2> QED BY <2>1, <2>2 DEF SetupTypeOK, FilesTyped, Names, Steps, Dirs, NoImage
  <1>7. \/ UNCHANGED setupVars \/ Install \/ LoseFiles \/ Finish \/ FinishSteps
        \/ Ext2Test \/ ReadConfiguration \/ \E d \in Disks : StartDisk(d)
    BY MessagesAside DEF Next, vars, PowerCut, StartMedium, RunSystem, SetupNext, TypeIntoForm
  <1> QED BY <1>1, <1>2, <1>3, <1>4, <1>5, <1>6, <1>7

LEMMA TypesStart ==
  ASSUME Init
  PROVE  TypeInv
  <1>1. PagesTyped /\ block = 0 /\ step = "none"
    BY DEF Init, InstallerInit, PagesTyped
  <1>2. Typed(media) /\ Typed(platter)
    BY DEF Init, InstallerInit, Typed, Content
  <1>3. SetupTypeOK
    BY FreshTyped DEF Init, SetupInit, SetupTypeOK, FilesTyped, Dirs
  <1>4. 0 \in 0..TotalBlocks /\ 0 \in 0..MaxPowerCuts
    BY BlocksNatural, CutAssumption
  <1> QED BY <1>1, <1>2, <1>3, <1>4 DEF Init, TypeInv, InstallerTypeOK, PagesTyped, Typed, BlockInv

LEMMA TypesKept ==
  ASSUME TypeInv, ImageInv, SetupInv, TextInv, [Next]_vars
  PROVE  TypeInv'
  <1>1. SetupTypeOK'
    BY SetupTypes DEF TypeInv
  <1>2. running' \in {"medium", "disk", "off"} /\ cuts' \in 0..MaxPowerCuts
    <2>1. CASE PowerCut
      BY <2>1, CutAssumption DEF PowerCut, TypeInv
    <2>2. CASE [Next]_vars /\ ~PowerCut
      BY <2>2 DEF Next, vars, Install, Refuse, Frame, TimePasses, StartMedium, StartDisk,
                  RunSystem, TypeInv
    <2> QED BY <2>1, <2>2
  <1>3. InstallerTypeOK' /\ BlockInv'
    <2>1. CASE InstallerNext
      BY <2>1, InstallerTypes DEF TypeInv
    <2>2. CASE UNCHANGED installVars
      BY <2>2 DEF installVars, TypeInv, InstallerTypeOK, BlockInv, TotalBlocks, Disks, Sectors, Content
    <2>3. CASE LoseCache /\ FreshInstaller
      <3>1. Typed(media') /\ Typed(platter')
        BY <2>3, LossTyped DEF TypeInv, InstallerTypeOK, Typed
      <3>2. /\ current_stage' = "welcome" /\ selected_disk' = 0 /\ installing' = FALSE
            /\ step' = "none" /\ block' = 0 /\ lost' = FALSE
        BY <2>3 DEF FreshInstaller
      <3>3. 0 \in 0..TotalBlocks
        BY BlocksNatural
      <3> QED BY <3>1, <3>2, <3>3
              DEF InstallerTypeOK, BlockInv, Typed, TotalBlocks, Disks, Sectors, Content
    <2>4. InstallerNext \/ UNCHANGED installVars \/ (LoseCache /\ FreshInstaller)
      BY MessagesAside DEF Next, vars, Install, PowerCut, StartMedium, StartDisk, RunSystem
    <2> QED BY <2>1, <2>2, <2>3, <2>4
  <1> QED BY <1>1, <1>2, <1>3 DEF TypeInv

(* Every variable keeps its type; the loop that writes the blocks never    *)
(* passes the last of them, however its flushes fall.                      *)
THEOREM DeploymentTypes == Spec => []TypeOK
  <1>1. Init => TypeInv /\ NotifInv /\ ImageInv /\ SetupInv /\ TextInv
    BY TypesStart, NotifStarts, FitStarts, ImageStarts, SetupStarts, NoFormText DEF Init, ImageInv
  <1>2. TypeInv /\ NotifInv /\ TextInv => TypeOK
    BY DEF TypeInv, NotifInv, Shown, Packed, TextInv, TypeOK, NotifTypeOK
  <1> QED BY <1>1, <1>2, TypesKept, NotifKept, ImageKept, SetupKept, FieldKept, PTL DEF Spec

(* The field that the form makes, and the one that is gone with it, are    *)
(* for the editor a new text.                                              *)
LEMMA FormRefines ==
  ASSUME FormInit \/ FormGone
  PROVE  Ed!SetText
  <1>1. PICK junk \in Buffers : buffer' = Copy(Initial, junk)
    BY BlankIsCopy DEF FormInit, FormGone, Buffers
  <1>2. Text' = Initial
    BY <1>1, TextAssumption, CopiedText
  <1>3. cursor_pos' = Len(Initial) /\ selection_start' = Len(Initial)
    BY DEF FormInit, FormGone, PutAt
  <1> QED BY <1>2, <1>3 DEF Ed!SetText, Ed!PutCursor

(* While the system is set up the field is an editor too, through every    *)
(* form, every start of the machine and every power failure.               *)
THEOREM FormImplementsEditor == Spec => ImplementsEditor
  <1>1. Init => TextInv /\ Ed!EditorInit
    BY NoFormText, BlankIsCopy, InitRefines DEF Init, NoForm, TextInit
  <1>2. TextInv /\ TextInv' /\ [Next]_vars => [Ed!EditorNext]_(Ed!editorVars)
    <2>1. TextInv /\ TextInv' /\ [TextNext]_textVars => EditorStep
      BY PlacingRefines
    <2>2. FormInit \/ FormGone => EditorStep
      BY FormRefines DEF EditorStep, Ed!EditorNext
    <2>3. [Next]_vars => [TextNext]_textVars \/ FormGone \/ FormInit
      BY MessagesAside DEF Next, vars, Install, PowerCut, StartMedium, StartDisk, RunSystem,
             SetupNext, ReadConfiguration, TypeIntoForm, Finish
    <2> QED BY <2>1, <2>2, <2>3 DEF EditorStep
  <1> QED BY <1>1, <1>2, FieldKept, PTL DEF Spec, ImplementsEditor, Ed!EditorSpec

-----------------------------------------------------------------------------
(* Why an installation ends: the part of it that is not fairness           *)

(* How many steps of perform_installation are left at most.                *)
StepsLeft ==
  CASE step = "check" -> 2 * TotalBlocks + 6
    [] step = "clear" -> 2 * TotalBlocks + 5
    [] step = "clear_flush" -> 2 * TotalBlocks + 4
    [] step = "write" -> 2 * (TotalBlocks - block) + 3
    [] step = "flush" -> 2 * (TotalBlocks - block) + 2
    [] step = "verify" -> 1
    [] step = "none" -> 0

(* The conditions of the step that perform_installation takes next.        *)
GoesOn ==
  \/ step = "check" /\ selected_disk < DiskCount /\ Fits(selected_disk)
  \/ step \in {"clear", "clear_flush", "flush", "verify"}
  \/ step = "write" /\ block <= TotalBlocks

NeverStalls == current_stage = "installing" => running = "medium" /\ GoesOn

CountsDown ==
  current_stage = "installing" =>
    \/ running' = "off"
    \/ StepsLeft' = StepsLeft /\ current_stage' = "installing"
    \/ /\ StepsLeft' \in Nat /\ StepsLeft' < StepsLeft
       /\ current_stage' = IF StepsLeft' = 0 THEN "complete" ELSE "installing"

(* The page says "Installing" only while perform_installation runs, and    *)
(* that runs only on the medium.                                           *)
RunningInv ==
  /\ current_stage = "installing" => step # "none" /\ running = "medium"
  /\ step = "check" => selected_disk < DiskCount /\ Fits(selected_disk)

LEMMA RunningKept ==
  ASSUME RunningInv, ImageInv, [Next]_vars
  PROVE  RunningInv'
  <1>1. CASE Install
    <2>1. InstallerNext /\ running = "medium" /\ running' = "medium"
      BY <1>1 DEF Install
    <2>2. CASE CheckTarget
      BY <2>1, <2>2 DEF CheckTarget, RunningInv, ImageInv, FitInv, TargetInv, Fits
    <2>3. CASE InstallerNext /\ ~CheckTarget
      BY <2>1, <2>3 DEF InstallerNext, PerformInstallation, WelcomeInstall, StartInstallation,
        SelectDisk, ClearBootArea, FlushBootArea, WriteBlock, FlushBlocks, FinalSync, VerifyMBR,
        RunningInv, ImageInv, FitInv, TargetInv, Fits
    <2> QED BY <2>1, <2>2, <2>3
  <1>2. CASE FreshInstaller
    BY <1>2 DEF FreshInstaller, RunningInv
  <1>3. CASE UNCHANGED installVars /\ (running' = running \/ (running # "medium" /\ running' # "off"))
    BY <1>3 DEF installVars, RunningInv, Fits
  <1>4. CASE PowerCut /\ running # "medium"
    BY <1>4 DEF PowerCut, installVars, RunningInv, Fits
  <1>5. \/ Install \/ FreshInstaller \/ (PowerCut /\ running # "medium")
        \/ UNCHANGED installVars /\ (running' = running \/ (running # "medium" /\ running' # "off"))
    BY MessagesAside DEF Next, vars, PowerCut, StartMedium, StartDisk, RunSystem, Refuse, Frame,
      TimePasses
  <1> QED BY <1>1, <1>2, <1>3, <1>4, <1>5

LEMMA StepsCounted ==
  ASSUME TypeInv, RunningInv, ImageInv, current_stage = "installing", PerformInstallation
  PROVE  /\ StepsLeft' \in Nat /\ StepsLeft' < StepsLeft
         /\ current_stage' = IF StepsLeft' = 0 THEN "complete" ELSE "installing"
  <1>1. PICK t \in Nat : t = TotalBlocks
    BY BlocksNatural
  <1>2. TotalBlocks' = t /\ block \in 0..t /\ (step = "flush" => block < t)
    BY <1>1 DEF TypeInv, BlockInv, TotalBlocks
  <1>3. CASE CheckTarget
    BY <1>1, <1>2, <1>3 DEF CheckTarget, RunningInv, StepsLeft
  <1>4. CASE ClearBootArea \/ FlushBootArea
    <2>1. block' = 0 /\ current_stage' = "installing"
      BY <1>4 DEF ClearBootArea, FlushBootArea, ImageInv, CourseInv
    <2>2. \/ step = "clear" /\ step' \in {"clear_flush", "write"}
          \/ step = "clear_flush" /\ step' = "write"
      BY <1>4 DEF ClearBootArea, FlushBootArea
    <2> QED BY <1>1, <1>2, <2>1, <2>2 DEF StepsLeft
  <1>5. CASE WriteBlock
    <2>1. /\ step = "write" /\ current_stage' = "installing" /\ block < t
          /\ \/ step' = "flush" /\ block' = block
             \/ step' = "write" /\ block' = block + 1
      BY <1>1, <1>5 DEF WriteBlock
    <2> QED BY <1>1, <1>2, <2>1 DEF StepsLeft
  <1>6. CASE FlushBlocks
    <2>1. step = "flush" /\ current_stage' = "installing" /\ step' = "write" /\ block' = block + 1
      BY <1>6 DEF FlushBlocks
    <2> QED BY <1>1, <1>2, <2>1 DEF StepsLeft
  <1>7. CASE FinalSync
    <2>1. step = "write" /\ block = t /\ current_stage' = "installing" /\ step' = "verify"
      BY <1>1, <1>7 DEF FinalSync
    <2> QED BY <1>1, <1>2, <2>1 DEF StepsLeft
  <1>8. CASE VerifyMBR
    BY <1>8 DEF VerifyMBR, StepsLeft
  <1> QED BY <1>3, <1>4, <1>5, <1>6, <1>7, <1>8 DEF PerformInstallation

CourseKept == TypeInv /\ RunningInv /\ ImageInv /\ SetupInv /\ TextInv

LEMMA CourseHolds == Spec => []CourseKept
  <1>1. Init => CourseKept
    BY TypesStart, FitStarts, ImageStarts, SetupStarts, NoFormText
       DEF Init, InstallerInit, RunningInv, ImageInv, CourseKept
  <1>2. CourseKept /\ [Next]_vars => CourseKept'
    BY TypesKept, RunningKept, ImageKept, SetupKept, FieldKept DEF CourseKept
  <1> QED BY <1>1, <1>2, PTL DEF Spec

(* While the window says "Installing" a step of perform_installation can   *)
(* be taken: no check has failed and no loop has run past its last block,  *)
(* which would leave the machine on this page for good.                    *)
THEOREM InstallationNeverStalls == Spec => []NeverStalls
  <1>1. CourseKept => NeverStalls
    <2> SUFFICES ASSUME CourseKept, current_stage = "installing" PROVE running = "medium" /\ GoesOn
      BY DEF NeverStalls
    <2>1. running = "medium" /\ step # "none" /\ (step = "check" => selected_disk < DiskCount /\ Fits(selected_disk))
      BY DEF CourseKept, RunningInv
    <2>2. step \in {"none", "check", "clear", "clear_flush", "write", "flush", "verify"}
          /\ block <= TotalBlocks
      BY BlocksNatural DEF CourseKept, TypeInv, InstallerTypeOK
    <2> QED BY <2>1, <2>2 DEF GoesOn
  <1> QED BY <1>1, CourseHolds, PTL

(* Each of these steps brings the end nearer, whatever writes and flushes  *)
(* fail, no other step takes the installation back, and only the last one  *)
(* or a power failure leads away from the page.                            *)
THEOREM InstallationCountsDown == Spec => [][CountsDown]_vars
  <1>1. CourseKept /\ [Next]_vars => [CountsDown]_vars
    <2> SUFFICES ASSUME CourseKept, [Next]_vars, current_stage = "installing"
                 PROVE  \/ running' = "off"
                        \/ StepsLeft' = StepsLeft /\ current_stage' = "installing"
                        \/ /\ StepsLeft' \in Nat /\ StepsLeft' < StepsLeft
                           /\ current_stage' = IF StepsLeft' = 0 THEN "complete" ELSE "installing"
      BY DEF CountsDown
    <2>1. CASE PerformInstallation
      BY <2>1, StepsCounted DEF CourseKept
    <2>2. CASE UNCHANGED installVars
      BY <2>2 DEF installVars, StepsLeft, TotalBlocks
    <2>3. CASE Install /\ ~PerformInstallation
      BY <2>3 DEF Install, InstallerNext, WelcomeInstall, StartInstallation, SelectDisk
    <2>4. UNCHANGED installVars \/ Install \/ running' = "off"
      BY MessagesAside DEF Next, vars, PowerCut, StartMedium, StartDisk, RunSystem
    <2> QED BY <2>1, <2>2, <2>3, <2>4
  <1> QED BY <1>1, CourseHolds, PTL DEF Spec
=============================================================================
