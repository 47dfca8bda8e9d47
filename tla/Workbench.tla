------------------------------ MODULE Workbench ------------------------------
(***************************************************************************)
(* The wizard of nq-disk (tools/nq-disk/src/ui/wizard.rs) with its handle  *)
(* of a data volume (volume.rs, ext4_io.rs, partition.rs) and its editor.  *)
(* A flash makes a new file system: each disk counts its generations, and  *)
(* a handle remembers which it was opened on.  Flashing itself is in Flash *)
(* and one step here, with the ways it may end.  Of the volume's files the *)
(* configuration and the disk image are told apart.                        *)
(***************************************************************************)
EXTENDS Editor

CONSTANTS
  Disks,      \* disks that may be chosen; no system disks among them
  Default,    \* default_config_toml: the text a new configuration has
  HostTexts,  \* configurations the user has on the host
  Starts,     \* what a session may begin with: [disk, edits, searches, ops, faults]
  MaxOps,     \* flashes and file operations of a session
  MaxFaults   \* reads and writes that fail, and other errors, in a session

\* A file of the volume; the text is there if it is whole.
ConfigFile == [is : {"text", "missing", "torn"}, text : Text]
FileSystem == [gen : Nat, volume : BOOLEAN, config : ConfigFile, image : {"missing", "torn", "whole"}]

ASSUME TextsAssumption == Default \in Text /\ Valid(Default) /\ HostTexts \subseteq Text
ASSUME SessionBoundsAssumption == MaxOps \in Nat /\ MaxFaults \in Nat
ASSUME StartsAssumption ==
  Starts \subseteq [disk : [Disks -> FileSystem], edits : 0..MaxEdits, searches : 0..MaxSearches,
                   ops : 0..MaxOps, faults : 0..MaxFaults]

VARIABLES
  screen,   \* the screen of the wizard; ended when nq-disk has left
  next,     \* what the volume asked for is to be opened for
  chosen,   \* the disk selected for flashing, while it is asked about
  disk,     \* the disks' file systems
  handle,   \* the open volume
  kept,     \* history: the last flash has not ended with the new volume opened
  opened,   \* the text the editor was opened with
  ops, faults \* how much of each bound is left

deskVars == <<screen, next, chosen, disk, handle, kept, opened, ops, faults>>
vars     == <<editorVars, deskVars>>

File(t) == [is |-> "text", text |-> t]
Missing == [is |-> "missing", text |-> Blank]
Torn    == [is |-> "torn", text |-> Blank]

NoDisk   == "none"
ASSUME NoDiskAssumption == NoDisk \notin Disks
NoVolume == [disk |-> NoDisk, gen |-> 0]

FlashScreens  == {"select_iso", "iso_path", "select_disk", "preflight_ok", "preflight_bad", "confirm"}
VolumeScreens == {"files", "put", "get", "editor", "load_image"}
Actions       == {"files", "config", "image", "unmount"}

WizardTypeOK ==
  /\ screen \in FlashScreens \cup VolumeScreens \cup
       {"main", "flash_done", "message", "need_volume", "path_input", "ended"}
  /\ next \in Actions /\ chosen \in Disks \cup {NoDisk}
  /\ disk \in [Disks -> FileSystem]
  /\ handle = NoVolume \/ handle \in [disk : Disks, gen : Nat]
  /\ opened \in Text
  /\ kept \in BOOLEAN
  /\ ops \in 0..MaxOps /\ faults \in 0..MaxFaults
  /\ (screen = "editor" <=> mode # "closed")

TypeOK == EditorTypeOK /\ WizardTypeOK

Init ==
  /\ EditorInit
  /\ screen = "main" /\ next = "files" /\ chosen = NoDisk
  /\ handle = NoVolume /\ kept = FALSE /\ opened = Blank
  /\ \E s \in Starts : /\ disk = s.disk /\ edits = s.edits /\ searches = s.searches
                       /\ ops = s.ops /\ faults = s.faults

-----------------------------------------------------------------------------
(***************************************************************************)
(* The volume and its files.                                               *)
(***************************************************************************)

VolumeOn(d) == [disk |-> d, gen |-> disk[d].gen]
Current(h)  == h.gen = disk[h.disk].gen

\* Volume::discover: which of several volumes is found first, mounted, by its
\* label or in a GPT, is the operating system's affair.
Found == {VolumeOn(d) : d \in {d \in Disks : disk[d].volume}}

\* What may be read of the configuration.  A handle to a file system that is
\* there no more reads what it has cached, or nonsense.
Seen(h) == IF Current(h) THEN {disk[h.disk].config} ELSE {Missing, File(Default)}

\* A file of h's volume changes.  Through a handle of an earlier generation the
\* blocks are written where the file system of today may have something else.
Change(h, f, content) ==
  IF Current(h) THEN disk' = [disk EXCEPT ![h.disk][f] = content]
  ELSE \/ UNCHANGED disk
       \/ disk' = [disk EXCEPT ![h.disk].config = Torn]

Fault == faults > 0 /\ faults' = faults - 1
Operation == ops > 0 /\ ops' = ops - 1

\* A file is removed, created and written: a failure leaves none, or a part.
BreakFile(h, f, none, part) == Change(h, f, none) \/ Change(h, f, part)
BreakConfig(h) == BreakFile(h, "config", Missing, Torn)

ShowEditor(t) == OpenEditor(t) /\ opened' = t /\ screen' = "editor"

Fail == screen' = "ended" /\ Fault /\ UNCHANGED <<opened, editorVars>>

\* run_editor up to the editor.  exists() is false for any error, and then the
\* default takes the place of what is there; other errors end nq-disk.
EditConfig(h) ==
  /\ UNCHANGED ops
  /\ \/ \E f \in Seen(h) \ {Missing} :
          ShowEditor(f.text) /\ UNCHANGED <<disk, faults>>
     \/ /\ Missing \in Seen(h) /\ UNCHANGED faults
        /\ Change(h, "config", File(Default)) /\ ShowEditor(Default)
     \/ Fault /\ Change(h, "config", File(Default)) /\ ShowEditor(Default)
     \/ UNCHANGED disk /\ Fail
     \/ BreakConfig(h) /\ Fail

\* reload_fm: a directory that cannot be listed ends nq-disk.
ListFiles ==
  \/ screen' = "files" /\ UNCHANGED <<faults, opened, editorVars>>
  \/ Fail

\* open_volume_action on the volume h.  Whether unmounting succeeds or not, the
\* handle is gone.
OpenAction(a, h) ==
  CASE a = "files"   -> ListFiles /\ handle' = h /\ UNCHANGED <<disk, ops>>
    [] a = "config"  -> EditConfig(h) /\ handle' = h
    [] a = "image"   -> /\ screen' = "load_image" /\ handle' = h
                        /\ UNCHANGED <<disk, ops, faults, opened, editorVars>>
    [] a = "unmount" -> /\ screen' = "message" /\ handle' = NoVolume
                        /\ UNCHANGED <<disk, ops, faults, opened, editorVars>>

-----------------------------------------------------------------------------
(***************************************************************************)
(* The main menu, and how a volume comes to be open.                       *)
(***************************************************************************)

\* begin_volume_action: an open volume is used as it is; without one, one is
\* looked for, and if there is none or it cannot be opened the user is asked.
BeginAction ==
  /\ screen = "main"
  /\ \/ /\ handle # NoVolume
        /\ \E a \in Actions : OpenAction(a, handle)
        /\ UNCHANGED <<next, kept>>
     \/ /\ handle = NoVolume
        /\ \E h \in Found, a \in Actions : OpenAction(a, h)
        /\ kept' = FALSE /\ UNCHANGED next
     \/ /\ handle = NoVolume
        /\ next' \in Actions
        /\ \/ Found = {} /\ UNCHANGED faults
           \/ Fault
        /\ screen' = "need_volume"
        /\ UNCHANGED <<disk, handle, kept, opened, ops, editorVars>>
  /\ UNCHANGED chosen

\* The path of a directory, a disk or a partition that is typed in.
OpenPath ==
  /\ screen = "path_input"
  /\ \/ /\ \E h \in Found : OpenAction(next, h)
        /\ kept' = FALSE
     \/ screen' = "message" /\ UNCHANGED <<disk, handle, kept, opened, ops, faults, editorVars>>
  /\ UNCHANGED <<next, chosen>>

\* Steps from screen to screen that change nothing else.
Leads ==
  [main          |-> {"select_iso", "iso_path"},
   select_iso    |-> {"select_disk", "iso_path", "main"},
   iso_path      |-> {"select_disk", "message", "main"},
   select_disk   |-> {"preflight_ok", "preflight_bad", "select_iso"},
   preflight_ok  |-> {"confirm", "select_disk"},
   preflight_bad |-> {"select_disk"},
   confirm       |-> {"select_disk"},
   flash_done    |-> {"main"},
   message       |-> {"main"},
   need_volume   |-> {"path_input", "main"},
   path_input    |-> {"main"},
   files         |-> {"put", "get", "main"},
   put           |-> {"files"},
   get           |-> {"files", "message"},
   load_image    |-> {"main"}]

\* Whether an ISO is found beside the program or its path is typed in is left
\* open.  A disk is chosen on the way to the confirmation, and anew every time.
Turn ==
  /\ screen \in DOMAIN Leads
  /\ screen' \in Leads[screen]
  /\ chosen' \in (IF screen' \in {"preflight_ok", "preflight_bad"} THEN Disks
                 ELSE IF screen' = "confirm" THEN {chosen} ELSE {NoDisk})
  /\ UNCHANGED <<next, disk, handle, kept, opened, ops, faults, editorVars>>

\* Quit in the menu, and Ctrl+C and Ctrl+Q on every screen but the editor.
Quit ==
  /\ screen \notin {"editor", "ended"}
  /\ screen' = "ended" /\ chosen' = NoDisk
  /\ UNCHANGED <<next, disk, handle, kept, opened, ops, faults, editorVars>>

-----------------------------------------------------------------------------
(***************************************************************************)
(* Flashing.                                                               *)
(***************************************************************************)

\* What a flash makes of disk d: a volume with the default and the ISO's image,
\* if it has one; or, when it is given up after the disk was erased, no volume
\* or one that was not seeded.
Flashed(d, volume, config, image) ==
  disk' = [disk EXCEPT ![d] = [gen |-> @.gen + 1, volume |-> volume,
                               config |-> config, image |-> image]]

GivenUp(d) ==
  \/ UNCHANGED disk
  \/ Flashed(d, FALSE, Missing, "missing")
  \/ \E config \in {Missing, Torn, File(Default)}, image \in {"missing", "torn"} :
       Flashed(d, TRUE, config, image)

\* Seeded defect: the handle is only set if there was none.
FlashDoneKeepingHandle ==
  /\ screen = "confirm" /\ Operation
  /\ \E image \in {"missing", "whole"} : Flashed(chosen, TRUE, File(Default), image)
  /\ handle' = (IF handle # NoVolume THEN handle ELSE [disk |-> chosen, gen |-> disk[chosen].gen + 1])
  /\ kept' = FALSE /\ screen' = "flash_done" /\ chosen' = NoDisk
  /\ UNCHANGED <<next, faults, opened, editorVars>>

\* The new volume takes the place of the handle there was.
FlashDone ==
  /\ screen = "confirm" /\ Operation
  /\ \E image \in {"missing", "whole"} : Flashed(chosen, TRUE, File(Default), image)
  /\ handle' = [disk |-> chosen, gen |-> disk[chosen].gen + 1]
  /\ kept' = FALSE /\ screen' = "flash_done" /\ chosen' = NoDisk
  /\ UNCHANGED <<next, faults, opened, editorVars>>

\* The new volume cannot be opened: the handle there was is used on, and if there
\* was none any volume that is found.
FlashNotOpened ==
  /\ screen = "confirm" /\ Operation /\ Fault
  /\ \E image \in {"missing", "whole"} : Flashed(chosen, TRUE, File(Default), image)
  /\ IF handle # NoVolume THEN UNCHANGED handle
     ELSE \/ UNCHANGED handle
          \/ \E d \in Disks : disk'[d].volume /\ handle' = [disk |-> d, gen |-> disk'[d].gen]
  /\ kept' = TRUE /\ screen' = "flash_done" /\ chosen' = NoDisk
  /\ UNCHANGED <<next, opened, editorVars>>

FlashFails ==
  /\ screen = "confirm" /\ Operation /\ Fault
  /\ GivenUp(chosen)
  /\ kept' = TRUE /\ chosen' = NoDisk
  /\ screen' \in {"message", "ended"}  \* ended by Ctrl+C
  /\ UNCHANGED <<next, handle, opened, editorVars>>

-----------------------------------------------------------------------------
(***************************************************************************)
(* The file manager and the editor's return.                               *)
(***************************************************************************)

FileVars == <<next, chosen, handle, kept>>

\* A file is deleted, or not, which is not reported, and the list read again.
DeleteFile ==
  /\ screen = "files" /\ Operation
  /\ \/ Change(handle, "config", Missing) \/ Change(handle, "image", "missing") \/ UNCHANGED disk
  /\ ListFiles
  /\ UNCHANGED FileVars

\* copy_from_host, from the file manager under the name the file has, from the
\* menu as the image: nothing checks what a configuration says.
PutFile ==
  /\ screen \in {"put", "load_image"} /\ Operation
  /\ \/ /\ \/ screen = "put" /\ \E t \in HostTexts : Change(handle, "config", File(t))
           \/ Change(handle, "image", "whole")
        /\ UNCHANGED faults
     \/ /\ Fault
        /\ \/ screen = "put" /\ BreakConfig(handle)
           \/ BreakFile(handle, "image", "missing", "torn")
  /\ screen' = "message"
  /\ UNCHANGED <<opened, editorVars, FileVars>>

\* run_editor after the editor: what it returned is written, or nothing.
SaveConfig ==
  /\ screen = "editor" /\ mode = "save"
  /\ CloseEditor
  /\ \/ Change(handle, "config", File(lines)) /\ screen' = "message" /\ UNCHANGED faults
     \/ BreakConfig(handle) /\ screen' = "ended" /\ Fault
  /\ opened' = Blank
  /\ UNCHANGED <<ops, FileVars>>

LeaveEditor ==
  /\ screen = "editor" /\ mode \in {"quit", "discard"}
  /\ CloseEditor
  /\ screen' = "main" /\ opened' = Blank
  /\ UNCHANGED <<disk, ops, faults, FileVars>>

Typing == screen = "editor" /\ Key /\ UNCHANGED deskVars

Next ==
  \/ BeginAction \/ OpenPath \/ Turn \/ Quit
  \/ FlashDone \/ FlashNotOpened \/ FlashFails
  \/ DeleteFile \/ PutFile \/ SaveConfig \/ LeaveEditor
  \/ Typing

Spec == Init /\ [][Next]_vars

-----------------------------------------------------------------------------
(***************************************************************************)
(* Properties.                                                             *)
(***************************************************************************)

\* Work done in the editor is not lost unasked (ui/editor.rs:426-435, 559-577,
\* wizard.rs:668-685): the editor is left with the text of the screen, accepted
\* by the validator, in the file of the volume that is open; or with the text it
\* was opened with; or by the answer that discards; or by a write that failed.
EditsKept ==
  [][ mode # "closed" /\ mode' = "closed" =>
        \/ /\ screen' = "message" /\ Valid(lines)
           /\ Current(handle) => disk'[handle.disk].config = File(lines)
        \/ mode = "quit" /\ lines = opened
        \/ mode = "discard"
        \/ screen' = "ended" /\ faults' < faults ]_vars

\* The screens that use a volume have one (their expect("volume"), wizard.rs:670
\* and 688, never panics, and "Open a volume first" at 554 is never said), and it
\* is the file system that is on the disk: over
\* any sequence of flashes, an outdated handle is used only when the last one
\* failed or its volume could not be opened (wizard.rs:744-757).
HandleCurrent ==
  /\ screen \in VolumeScreens => handle # NoVolume
  /\ handle # NoVolume => Current(handle) \/ kept

=============================================================================
