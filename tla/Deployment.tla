----------------------------- MODULE Deployment -----------------------------
(***************************************************************************)
(* From the installation medium to a system that is set up: the installer  *)
(* writes a disk, the machine is switched off and on, the system boots     *)
(* from the disk and is set up; the power may fail at any point of it.     *)
(***************************************************************************)
EXTENDS Installer, Notifications, Setup

CONSTANTS
  MaxPowerCuts, \* bound
  NoisyCuts     \* bound: messages are posted until this many power failures

ASSUME CutAssumption == MaxPowerCuts \in Nat

VARIABLES
  running, \* "medium", "disk" or "off"
  cuts

vars == <<installVars, notifVars, textVars, setupVars, running, cuts>>

Init ==
  /\ InstallerInit /\ NotifInit /\ SetupInit /\ NoForm
  /\ running = "medium" /\ cuts = 0

Noisy == cuts < NoisyCuts

Root == 0 \* the disk kernel_main mounts

(* Before the blocks are written to an ATA disk, a message warns that this *)
(* takes longer.                                                           *)
Warn == step \in {"clear", "clear_flush"} /\ step' = "write"

(* An installation on the disk that is the root does away with the files of *)
(* an earlier one; the image it writes is the same one.                    *)
(* It begins with no message left on the screen: a bound, for nothing that *)
(* it does depends on them.                                                *)
Install ==
  /\ running = "medium" /\ InstallerNext
  /\ IF StartInstallation /\ selected_disk = Root
       THEN files' = FreshFiles /\ synced' = FreshFiles /\ spoiled' = {}
       ELSE UNCHANGED <<files, synced, spoiled>>
  /\ StartInstallation => notifs = {}
  /\ UNCHANGED notifVars \/ (Warn /\ Noisy /\ Post)
  /\ UNCHANGED <<textVars, sys, mounted, interrupts, user, image, failed, running, cuts>>

Refuse ==
  /\ running = "medium" /\ Noisy /\ RefuseSmallDisk /\ Post
  /\ UNCHANGED <<installVars, textVars, setupVars, running, cuts>>

(* The main loop draws no frame while perform_installation runs.           *)
Frame ==
  /\ running = "medium" /\ Noisy /\ step = "none" /\ NotifUpdate
  /\ UNCHANGED <<installVars, textVars, setupVars, running, cuts>>

TimePasses ==
  /\ running = "medium" /\ Expire
  /\ UNCHANGED <<installVars, textVars, setupVars, running, cuts>>

PowerCut ==
  /\ running # "off" /\ cuts < MaxPowerCuts
  /\ cuts' = cuts + 1 /\ running' = "off" /\ FreshNotifs
  /\ IF running = "medium"
       THEN LoseCache /\ FreshInstaller /\ UNCHANGED <<textVars, setupVars>>
       ELSE LoseFiles /\ FormGone /\ UNCHANGED installVars

StartMedium ==
  /\ running = "off" /\ running' = "medium"
  /\ UNCHANGED <<installVars, notifVars, textVars, setupVars, cuts>>

(* The firmware starts a disk that holds the whole image; the kernel mounts*)
(* the root disk, whichever it was started from.                           *)
StartDisk(d) ==
  /\ running = "off" /\ Fits(d) /\ ImageOn(d) /\ running' = "disk"
  /\ MountRoot(Root \in Disks /\ Fits(Root) /\ ImageOn(Root))
  /\ UNCHANGED <<installVars, notifVars, textVars, cuts>>

(* The form and the set-up look at no disk but the root: the form is       *)
(* filled in while no second disk was touched, a bound.                    *)
Touched(d) == \E s \in Sectors(d) : media[d][s] # "old"
AtMostOneTouched == \A d, e \in Disks : Touched(d) /\ Touched(e) => d = e

RunSystem ==
  /\ running = "disk" /\ (sys = "form" => AtMostOneTouched) /\ SetupNext
  /\ UNCHANGED <<installVars, notifVars, running, cuts>>

Next ==
  \/ Install \/ Refuse \/ Frame \/ TimePasses \/ PowerCut \/ StartMedium \/ RunSystem
  \/ \E d \in Disks : StartDisk(d)

(* The processor goes on with perform_installation: it waits for nothing   *)
(* but the disk's answers, and those with a timeout.  The timer wakes the  *)
(* main loop 100 times a second, and its ticks are the time.               *)
Spec ==
  /\ Init /\ [][Next]_vars
  /\ WF_vars(Install /\ PerformInstallation)
  /\ WF_vars(Frame) /\ WF_vars(TimePasses)

-----------------------------------------------------------------------------
TypeOK ==
  /\ InstallerTypeOK /\ NotifTypeOK /\ SetupTypeOK /\ TextTypeOK
  /\ running \in {"medium", "disk", "off"} /\ cuts \in 0..MaxPowerCuts

(* An installation that was begun is completed, unless the power fails:    *)
(* no check fails that would leave the window on "Installing" for good.    *)
InstallationEnds ==
  current_stage = "installing" /\ running = "medium" ~>
    current_stage = "complete" \/ running = "off"

(* No message stays for ever: neither the ones that slide down again and   *)
(* again while others go, nor the ones that time out while they slide.     *)
MessagesExpire ==
  \A id \in 1..MaxPosts : id \in Ids(notifs) ~> id \notin Ids(notifs)
=============================================================================
