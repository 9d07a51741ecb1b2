------------------------------- MODULE Setup -------------------------------
(***************************************************************************)
(* The first boot of the installed system: kernel_main writes, reads and   *)
(* makes a directory to try the file system, reads the configuration and,  *)
(* unless the set-up has been done, shows a form (gui/setup.c) whose       *)
(* "Finish" makes the user, one file operation after the other.  The user  *)
(* name is typed into a TextInput.                                         *)
(*                                                                         *)
(* What ext2 makes of a call that creates a file or a directory is in      *)
(* ReportMade: it reports success and adds no name.  So the names on the   *)
(* disk are for good those of the image, and what becomes of the set-up    *)
(* depends on the image.  A search through a directory with an empty entry *)
(* of length zero in it does not end, unless the name comes before it.     *)
(***************************************************************************)
EXTENDS TextInput, FiniteSets

CONSTANTS
  UserNames, \* bound: the names with which "Finish" is pressed
  Images     \* bound: the file systems that the installer may have written

(* names: those of Paths that are there; homes: the users with a directory *)
(* in /users; whole: those with every name of the template in it; template:*)
(* what /users/Default is; room: the directories with an entry of no file  *)
(* that is long enough for a new name (an image of mkfs.ext2 has none).    *)
Paths == {"test.txt", "testdir", "users", "etc", "passwd", "conf"}
Dirs == {"root", "users", "etc", "confs"}

ASSUME FilesAssumption == \A i \in Images :
  /\ i = [names |-> i.names, homes |-> i.homes, whole |-> i.whole,
          template |-> i.template, room |-> i.room]
  /\ i.names \subseteq Paths /\ i.room \subseteq Dirs /\ i.whole \subseteq i.homes
  /\ i.template \in {"none", "empty", "entries"}
  /\ i.homes # {} \/ i.template # "none" => "users" \in i.names
  /\ "passwd" \in i.names => "etc" \in i.names

VARIABLES
  sys,        \* where the boot is, what is shown, or the next step of "Finish"
  mounted,    \* the root file system is there
  interrupts, \* the interrupt flag when the main loop halts for an event
  user,       \* the name "Finish" read from the field
  image,      \* the file system the installer wrote
  spoiled,    \* the directories with an entry of length zero
  files,      \* passwd and configuration as written
  synced,     \* and as last flushed
  failed      \* a write or a flush that "done" rests on failed, and nobody was told

setupVars == <<sys, mounted, interrupts, user, image, spoiled, files, synced, failed>>

(* passwd: the user of its first line, if that is one of the set-up's;     *)
(* conf: what sys_conf.conf says of fstart.                                *)
FreshFiles == [passwd |-> <<>>, conf |-> "first"]

NoImage == [names |-> {}, homes |-> {}, whole |-> {}, template |-> "none", room |-> {}]

Steps == {"mkdir", "template", "passwd", "conf", "write_conf", "close_conf"}

SetupInit ==
  /\ sys = "down" /\ mounted = FALSE /\ interrupts = FALSE /\ user = <<>>
  /\ image = NoImage /\ spoiled = {}
  /\ files = FreshFiles /\ synced = FreshFiles /\ failed = FALSE

Has(path) == path \in image.names

(* ext2_create and ext2_mkdir, when they return 0.  The entry was made in  *)
(* block_buf, which ext2_write_data fills with the old block before it     *)
(* writes it.  Where an entry was to be used again nothing is changed; a   *)
(* full directory now takes in the start of a new block of zeros, flushed  *)
(* before the call returns, unless the write of its inode fails.           *)
ReportMade(dir) ==
  IF dir \in image.room THEN UNCHANGED <<spoiled, failed>>
  ELSE \/ spoiled' = spoiled \cup {dir} /\ UNCHANGED failed
       \/ failed' = TRUE /\ UNCHANGED spoiled

-----------------------------------------------------------------------------
(* kernel_main                                                             *)

(* Which file system was written shows when it is first mounted.           *)
MountRoot(hasRoot) ==
  /\ mounted' = hasRoot /\ sys' = "test" /\ user' = <<>>
  /\ IF hasRoot /\ image = NoImage THEN image' \in Images ELSE UNCHANGED image
  /\ UNCHANGED <<interrupts, spoiled, files, synced, failed>>

(* TEST 1 makes test.txt, unless it is there, and TEST 2 looks for it; TEST*)
(* 3 makes testdir, and looks whether it is there in the course of that.   *)
(* All that fails in between goes to the serial line only.                 *)
Ext2TestEnds ==
  \/ UNCHANGED <<spoiled, failed>>
  \/ /\ mounted /\ ~Has("testdir") /\ ReportMade("root")

Ext2TestHangs ==
  \/ ~Has("test.txt") /\ ReportMade("root") /\ "root" \in spoiled'
  \/ ~Has("testdir") /\ "root" \in spoiled /\ UNCHANGED <<spoiled, failed>>

Ext2Test ==
  /\ sys = "test"
  /\ \/ /\ sys' = "config" /\ Ext2TestEnds
        /\ mounted /\ "root" \in spoiled => Has("test.txt") /\ Has("testdir")
     \/ mounted /\ sys' = "hung" /\ Ext2TestHangs
  /\ UNCHANGED <<mounted, interrupts, user, image, files, synced>>

(* is_first_boot: anything but a readable fstart=0 shows the form.         *)
IsFirstBoot(readable) == ~mounted \/ ~readable \/ files.conf # "done"

(* show_setup_window makes the field: its buffer is whatever the heap had. *)
FormInit ==
  /\ \E junk \in [Index -> Byte] : buffer' = Copy(Initial, junk)
  /\ PutAt(Len(Initial)) /\ scroll_offset' = 0 /\ dragging' = FALSE

(* The clock read by taskbar_init leaves interrupts enabled; waiting for   *)
(* the disk in yield() while the configuration is read, and nothing after  *)
(* it, leaves them disabled.                                               *)
ReadConfiguration ==
  /\ sys = "config"
  /\ \E readable \in BOOLEAN, waited \in BOOLEAN :
       /\ interrupts' = ~(mounted /\ waited)
       /\ IF mounted /\ ~Has("conf") /\ "confs" \in spoiled
            THEN sys' = "hung" /\ UNCHANGED textVars
          ELSE IF IsFirstBoot(readable) THEN sys' = "form" /\ FormInit
          ELSE sys' = "normal" /\ UNCHANGED textVars
  /\ UNCHANGED <<mounted, user, image, spoiled, files, synced, failed>>

(* While no form is filled in the field's variables stand for nothing.     *)
Blank == Copy(Initial, [i \in Index |-> Nul])

NoForm ==
  /\ buffer = Blank /\ cursor_pos = Len(Initial) /\ selection_start = Len(Initial)
  /\ selection_end = Len(Initial) /\ scroll_offset = 0 /\ dragging = FALSE

FormGone ==
  /\ buffer' = Blank /\ PutAt(Len(Initial)) /\ scroll_offset' = 0 /\ dragging' = FALSE

-----------------------------------------------------------------------------
(* setup_finish_callback                                                   *)

TypeIntoForm ==
  /\ sys = "form" /\ interrupts /\ TextNext /\ UNCHANGED setupVars

(* The other fields: a computer name is there unless it is deleted, and    *)
(* the password may be empty.  From here on the controls are disabled, and *)
(* what the field holds is the name that was read.                         *)
Finish ==
  /\ sys = "form" /\ interrupts /\ strlen(buffer) > 0 /\ Text \in UserNames
  /\ user' = Text /\ sys' = "mkdir" /\ FormGone
  /\ UNCHANGED <<mounted, interrupts, image, spoiled, files, synced, failed>>

(* vfs_mkdir_p: a directory that exists is left alone.  Without /users the *)
(* second of its calls fails for want of the first one's directory, or     *)
(* looks for that for ever.  A failure is reported, and there is no way on *)
(* but a reboot.                                                           *)
MakeUserDirectory ==
  /\ sys = "mkdir"
  /\ \/ sys' = "stuck" /\ UNCHANGED <<spoiled, failed>>
     \/ /\ mounted /\ Has("users")
        /\ IF user \in image.homes THEN sys' = "template" /\ UNCHANGED <<spoiled, failed>>
           ELSE IF "users" \in spoiled THEN sys' = "hung" /\ UNCHANGED <<spoiled, failed>>
           ELSE sys' = "template" /\ ReportMade("users")
     \/ /\ mounted /\ ~Has("users")
        /\ IF "root" \in spoiled THEN sys' = "hung" /\ UNCHANGED <<spoiled, failed>>
           ELSE /\ ReportMade("root")
                /\ sys' = IF "root" \in spoiled' THEN "hung" ELSE "stuck"
  /\ UNCHANGED <<mounted, interrupts, user, image, files, synced>>

(* Into a directory that is there: a file that is there too is written     *)
(* over, again and again if it is not empty (ext2_read leaves the position *)
(* where it is), until a write fails, which is not reported; one that is   *)
(* missing stays so, and the search for it may not end.                    *)
CopyIntoHome ==
  /\ user \in image.homes
  /\ sys' = "passwd" \/ (user \notin image.whole /\ sys' = "hung")
  /\ UNCHANGED <<spoiled, failed>>

(* Into one that was reported made: vfs_copy_dir makes it once more, and   *)
(* the first file or directory it then makes in it is an error, or it looks*)
(* for the directory for ever.                                             *)
CopyIntoNothing ==
  /\ user \notin image.homes /\ "users" \notin spoiled
  /\ ReportMade("users")
  /\ sys' = IF image.template = "empty" THEN "passwd"
            ELSE IF "users" \in spoiled' THEN "hung" ELSE "stuck"

CopyTemplateUnchecked ==
  /\ sys = "template"
  /\ \/ sys' = "passwd" /\ UNCHANGED <<spoiled, failed>>
     \/ image.template # "none" /\ CopyIntoHome
     \/ image.template # "none" /\ user \notin image.homes /\ "users" \notin spoiled
        /\ ReportMade("users") /\ sys' = "passwd"
     \/ /\ "users" \in spoiled /\ (image.template = "none" \/ user \notin image.homes)
        /\ sys' = "hung" /\ UNCHANGED <<spoiled, failed>>
  /\ UNCHANGED <<mounted, interrupts, user, image, files, synced>>

(* Nothing that passwd or the configuration holds is changed.              *)
CopyTemplate ==
  /\ sys = "template"
  /\ \/ sys' = "stuck" /\ UNCHANGED <<spoiled, failed>>
     \/ image.template # "none" /\ (CopyIntoHome \/ CopyIntoNothing)
     \/ /\ "users" \in spoiled /\ (image.template = "none" \/ user \notin image.homes)
        /\ sys' = "hung" /\ UNCHANGED <<spoiled, failed>>
  /\ UNCHANGED <<mounted, interrupts, user, image, files, synced>>

(* The file is opened without being truncated: its first line is the new   *)
(* user's, and more of a longer line may follow.                           *)
NewLine == [files EXCEPT !.passwd = user]

(* What is written goes to a file without a name, or, without /etc, is not *)
(* written at all.                                                         *)
NoPasswd ==
  LET dir == IF Has("etc") THEN "etc" ELSE "root" IN
  /\ ~Has("passwd") /\ UNCHANGED <<files, synced>>
  /\ IF dir \in spoiled THEN sys' = "hung" /\ UNCHANGED <<spoiled, failed>>
     ELSE /\ ReportMade(dir)
          /\ sys' = IF ~Has("etc") /\ "root" \in spoiled' THEN "hung" ELSE "conf"

WritePasswdUnsynced ==
  /\ sys = "passwd"
  /\ \/ /\ sys' = "conf" /\ Has("passwd") /\ files' = NewLine
        /\ UNCHANGED <<spoiled, synced, failed>>
     \/ NoPasswd
     \/ /\ sys' = "conf" /\ failed' = TRUE /\ UNCHANGED spoiled
        /\ files' = files \/ (Has("passwd") /\ files' = NewLine)
        /\ synced' \in {synced, files'}
  /\ UNCHANGED <<mounted, interrupts, user, image>>

(* vfs_close flushes the disk.  No failure is reported.                    *)
WritePasswd ==
  /\ sys = "passwd"
  /\ \/ /\ sys' = "conf" /\ Has("passwd") /\ files' = NewLine
        /\ synced' = files' /\ UNCHANGED <<spoiled, failed>>
     \/ NoPasswd
     \/ /\ sys' = "conf" /\ failed' = TRUE /\ UNCHANGED spoiled
        /\ files' = files \/ (Has("passwd") /\ files' = NewLine)
        /\ synced' \in {synced, files'}
  /\ UNCHANGED <<mounted, interrupts, user, image>>

(* vfs_read_config(conf_path, NULL) returns NULL whatever the file holds,  *)
(* so what it held is never kept; but ext2 has no truncate, and until it is*)
(* written over it is there.                                               *)
OpenConf ==
  /\ sys = "conf"
  /\ \/ sys' = "complete" /\ failed' = TRUE /\ UNCHANGED spoiled
     \/ Has("conf") /\ sys' = "write_conf" /\ UNCHANGED <<spoiled, failed>>
     \/ /\ ~Has("conf") /\ "confs" \in spoiled
        /\ sys' = "hung" /\ UNCHANGED <<spoiled, failed>>
     \/ ~Has("conf") /\ "confs" \notin spoiled /\ sys' = "write_conf" /\ ReportMade("confs")
  /\ UNCHANGED <<mounted, interrupts, user, image, files, synced>>

(* A configuration that is not there is written to a file without a name.  *)
WriteConf ==
  /\ sys = "write_conf" /\ sys' = "close_conf"
  /\ \/ UNCHANGED failed /\ files' = IF Has("conf") THEN [files EXCEPT !.conf = "done"] ELSE files
     \/ failed' = TRUE /\ (files' = files \/ (Has("conf") /\ files' = [files EXCEPT !.conf = "done"]))
  /\ UNCHANGED <<mounted, interrupts, user, image, spoiled, synced>>

(* Then the main loop polls the next event, which enables the interrupts.  *)
CloseConf ==
  /\ sys = "close_conf" /\ sys' = "complete" /\ interrupts' = TRUE
  /\ \/ synced' = files /\ UNCHANGED failed
     \/ failed' = TRUE /\ UNCHANGED synced
  /\ UNCHANGED <<mounted, user, image, spoiled, files>>

FinishSteps ==
  \/ MakeUserDirectory \/ CopyTemplate \/ WritePasswd
  \/ OpenConf \/ WriteConf \/ CloseConf

SetupNext ==
  \/ ReadConfiguration \/ TypeIntoForm \/ Finish
  \/ (Ext2Test \/ FinishSteps) /\ UNCHANGED textVars

(* What has not been flushed may have reached the disk or not, one thing   *)
(* without the other.                                                      *)
LoseFiles ==
  /\ \E p \in {synced.passwd, files.passwd}, c \in {synced.conf, files.conf} :
       files' = [passwd |-> p, conf |-> c]
  /\ synced' = files'
  /\ sys' = "down" /\ mounted' = FALSE /\ interrupts' = FALSE
  /\ user' = <<>> /\ UNCHANGED <<image, spoiled, failed>>

-----------------------------------------------------------------------------
Names == UNION {[1..n -> Chars] : n \in 0..BufferSize - 1}

SetupTypeOK ==
  /\ sys \in {"down", "test", "config", "form", "normal", "stuck", "hung", "complete"} \cup Steps
  /\ mounted \in BOOLEAN /\ interrupts \in BOOLEAN /\ failed \in BOOLEAN /\ user \in Names
  /\ image \in Images \cup {NoImage} /\ spoiled \subseteq Dirs
  /\ \A f \in {files, synced} : f.passwd \in Names /\ f.conf \in {"first", "done"}

(* The one case in which nothing stops the set-up of a user whose directory*)
(* was reported made and was not: /users has an entry to use again, so no  *)
(* search through it fails to end, and there is nothing to copy.           *)
HomeLostUnnoticed == "users" \in image.room /\ image.template = "empty"

(* Once the configuration on the disk says that the set-up is done it is,  *)
(* whenever the power failed and however often the set-up was begun, and   *)
(* with whichever names: passwd, where the image has one, names a user of  *)
(* the set-up, and that user's directory is on the disk, except in the one *)
(* case above.  For a directory that ext2 only reported made something     *)
(* stops every set-up on the way to passwd: the template's first file, or a*)
(* search that does not end.  Without a passwd on the image nobody is ever *)
(* named, and a write that failed without a word is exempt.                *)
DoneIsDone ==
  files.conf = "done" /\ Has("passwd") /\ ~failed =>
    /\ files.passwd # <<>>
    /\ files.passwd \in image.homes \/ HomeLostUnnoticed

(* A system that says it is ready answers: its main loop does not halt     *)
(* with interrupts disabled.                                               *)
ReadyAnswers == sys \in {"form", "normal"} => interrupts
=============================================================================
