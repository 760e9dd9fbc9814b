---------------------------- MODULE ShopMachine -----------------------------
(***************************************************************************)
(* The computer on the shop's bench: the stick and the internal disks, the *)
(* firmware, GRUB and casper (external), the chooser's session and its two *)
(* helpers of ShopInstall and LegacyInstall.  The stick may be pulled and  *)
(* the power may go whenever that is possible, also between two writes.    *)
(***************************************************************************)
EXTENDS LegacyInstall

CONSTANTS Shelf,    \* what the disks may hold at first: for each disk whether
                    \* another system is on it, or its payload's size and
                    \* that of the partition it is in
          MaxStarts \* bound: starts of an installer that are counted

ASSUME ShelfAssumption ==
    /\ Shelf \subseteq [Disks -> [os : BOOLEAN, files : Nat, room : Nat]]
    /\ \A shelf \in Shelf, d \in Disks : shelf[d].files <= shelf[d].room

Made(d, h) == IF h.files = 0 THEN [Blank EXCEPT !.os = h.os]
              ELSE [Blank EXCEPT !.labels = TRUE, !.esp = "whole",
                      !.sys = "whole", !.data = "whole", !.stub = d,
                      !.menu = "live", !.root = d, !.files = h.files, !.room = h.room]

Init ==
    /\ \E shelf \in Shelf : disk = [d \in Disks |-> Made(d, shelf[d])]
    /\ plugged = Disks
    /\ nvram = {[label |-> "other system", disk |-> d] :
                   d \in {e \in Disks : disk[e].os}}
    /\ live = None /\ payload = None /\ bootnext = None
    /\ helper = Idle
    /\ session = "off"

-----------------------------------------------------------------------------
(* Firmware, GRUB and casper.                                              *)

Starts(d) == d \in plugged /\ Found(disk[d], disk[d].sys)

\* The FBL-SYS that the ESP of d leads to: by UUID, else by label.
MenusFrom(d) ==
    IF disk[d].stub # None /\ Starts(disk[d].stub) THEN {disk[d].stub}
    ELSE {e \in plugged : Starts(e)}

\* 27payload: FBL-DATA of the live disk, else any that has the label.
PayloadsFor(l) ==
    IF Found(disk[l], disk[l].data) THEN {l}
    ELSE {None} \cup {e \in plugged : Found(disk[e], disk[e].data)}

\* The menu's First Boot entry: live-media by UUID.
BootChooser(d) ==
    /\ session = "off" /\ d \in plugged /\ Found(disk[d], disk[d].esp)
    /\ \E m \in MenusFrom(d) :
          /\ disk[m].menu \in {"live", "installer"}
          /\ disk[m].root # None /\ Starts(disk[m].root)
          /\ live' = disk[m].root
          /\ payload' \in PayloadsFor(disk[m].root)
    /\ session' = "chooser" /\ bootnext' = None
    /\ UNCHANGED <<disk, plugged, nvram, helper>>

\* The installer's entry is the menu's default; BootNext leads to it too, by
\* the shim on the ESP.
BootInstaller(d) ==
    /\ session = "off" /\ d \in plugged /\ Found(disk[d], disk[d].esp)
    /\ \E m \in (IF bootnext = d THEN {d} ELSE MenusFrom(d)) :
          LET r == IF disk[m].root \in plugged THEN disk[m].root ELSE m IN
          /\ Starts(r) /\ disk[r].job # None
          /\ bootnext = d \/ disk[m].menu = "installer"
          /\ disk' = [disk EXCEPT ![r].job.starts =
                                    IF @ < MaxStarts THEN @ + 1 ELSE @]
          /\ helper' = [run |-> "installer", on |-> r]
    /\ session' = "installer" /\ bootnext' = None
    /\ UNCHANGED <<plugged, live, payload, nvram>>

Armed(d) == disk[d].kernel = disk[d].job.pack
            /\ disk[d].initrd = [pack |-> disk[d].job.pack, seeded |-> TRUE]

\* With its answers the installer erases the target and installs.
InstallerErases ==
    /\ session = "installer"
    /\ helper.on \in plugged /\ Armed(helper.on)
    /\ LET t == disk[helper.on].job.target IN
          /\ t \in plugged
          /\ disk' = [disk EXCEPT ![t] = [Blank EXCEPT !.os = TRUE]]
          /\ nvram' = nvram \cup {[label |-> "other system", disk |-> t]}
    /\ helper' = Idle /\ session' = "off"
    /\ UNCHANGED <<plugged, live, payload, bootnext>>

InstallerStops ==
    /\ session = "installer"
    /\ helper' = Idle /\ session' = "off"
    /\ UNCHANGED <<disk, plugged, live, payload, nvram, bootnext>>

-----------------------------------------------------------------------------
(* The power and the stick.                                                *)

Off == session' = "off" /\ live' = None /\ payload' = None /\ helper' = Idle

PowerOff ==
    /\ session = "chooser" /\ helper = Idle
    /\ Off
    /\ UNCHANGED <<disk, plugged, nvram, bootnext>>

PowerCut ==
    /\ session = "chooser" /\ helper # Idle
    /\ \/ /\ helper.run = "ask"
          /\ UNCHANGED disk
       \/ /\ helper.run = "shop"
          /\ disk' \in {[disk EXCEPT ![helper.target] = d] : d \in ShopCut}
       \/ /\ helper.run = "legacy"
          /\ disk' \in {[disk EXCEPT ![helper.on] = d] :
                           d \in HalfLegacy(LegacyStep, disk[helper.on])}
    /\ Off
    /\ UNCHANGED <<plugged, nvram, bootnext>>

\* The stick is pulled where the session does not need it, or plugged in.
Plug == /\ plugged' = Disks
        /\ plugged # Disks
        /\ UNCHANGED <<disk, live, payload, nvram, helper, bootnext, session>>

Unplug(d) ==
    /\ d \in Usb \cap plugged /\ live # d
    /\ plugged' = plugged \ {d}
    /\ payload' = IF payload = d THEN None ELSE payload
    /\ UNCHANGED <<disk, live, nvram, helper, bootnext, session>>

ShopActions ==
    /\ StartShopInstall \/ HelperPlans \/ ShopStep \/ ShopStepFails
    /\ UNCHANGED <<bootnext, session>>

Next == \/ ShopActions
        \/ \E p \in Packs : StartLegacyInstall(p)
        \/ LegacyInstallStep \/ LegacyStepFails
        \/ \E d \in Disks : BootChooser(d) \/ BootInstaller(d) \/ Unplug(d)
        \/ InstallerErases \/ InstallerStops
        \/ PowerOff \/ PowerCut \/ Plug

Spec == Init /\ [][Next]_legacyVars

-----------------------------------------------------------------------------
(* Properties.                                                             *)

Parts == {"none", "empty", "part", "whole", "lost"}

\* The variables keep their shapes; a session has a live disk exactly while
\* the chooser is up, and a helper runs on disks that are not the same.
TypeOK ==
    /\ \A d \in Disks :
          /\ {disk[d].esp, disk[d].sys, disk[d].data} \subseteq Parts
          /\ disk[d].menu \in {"none", "live", "installer", "torn"}
          /\ {disk[d].stub, disk[d].root} \subseteq Disks \cup {None}
          /\ disk[d].files \in Nat
    /\ plugged \subseteq Disks
    /\ (live # None) = (session = "chooser")
    /\ live # None => live \in plugged
    /\ helper.run = "shop" => helper.source # helper.target

\* The shop install never touches the disk that the session runs from,
\* however that disk came to be the target, and never the one it reads.
LiveDiskStays ==
    [][helper.run = "shop" =>
          /\ live # None => disk'[live] = disk[live]
          /\ disk'[helper.source] = disk[helper.source]]_legacyVars

\* First Boot can be started from the disk with no stick plugged in.
BootsAlone(d) ==
    /\ Found(disk[d], disk[d].esp) /\ Found(disk[d], disk[d].sys)
    /\ disk[d].menu = "live" /\ disk[d].root = d

\* The rewritten GRUB menu is what makes a copy a system of its own: a copy
\* that failed or was cut before all of the payload was there never starts
\* without the stick.  Only files the power cut lost after the menu was
\* written, before the sync, are excepted.
CutCopyNeedsTheStick ==
    \A d \in Disks : BootsAlone(d) => disk[d].data \in {"whole", "lost"}

\* After DONE the stick can go: whatever happened since, short of the disk
\* being written again, its ESP leads to its own FBL-SYS and everything that
\* the stick held is there.
DoneNeedsNoStick ==
    \A d \in Disks : disk[d].done =>
       /\ disk[d].labels /\ {disk[d].esp, disk[d].sys, disk[d].data} = {"whole"}
       /\ disk[d].stub = d /\ disk[d].root = d
       /\ disk[d].files > 0

\* The helper accepted the target for the payload of the disk it copies, and
\* SLACK_BYTES over it, not for what is at /run/payload or was there when the
\* chooser planned.  Whether mkfs.ext4 leaves as much is another matter.
AcceptedForWhatItCopies ==
    helper.run = "shop" =>
        SysSize + disk[helper.source].files + Slack <= Size[helper.target]

\* A pack's installer that erases the disk its image is on was started with
\* the image in memory.
ImageOutlivesInstaller ==
    \A d \in Disks : disk[d].job # None =>
       \/ disk[d].job.image # disk[d].job.target
       \/ disk[d].job.toram

\* find_target_disk refuses a disk that "is too small" and says what it needs:
\* a target that was accepted is large enough, and the copy does not run out of
\* space after the wipe.
AcceptedTargetHasRoom ==
    helper.run = "shop" => CopyFits

\* The menu that prepare_os writes calls itself "one-shot customer OS
\* install": an installer that stops is not started again by itself.
OneShot ==
    \A d \in Disks : disk[d].job # None => disk[d].job.starts <= 1

\* _register_efi deletes boot entries of systems that "this disk used to
\* hold": the entry of a system that another disk still holds stays.
OtherSystemsKeepTheirEntry ==
    [][\A e \in nvram \ nvram' :
          e.label # "First Boot Linux" => ~disk[e.disk].os]_legacyVars
=============================================================================
