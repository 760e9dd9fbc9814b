--------------------------- MODULE LegacyInstall ----------------------------
(***************************************************************************)
(* The way a shop pack is installed: prepare_os puts the pack's kernel and *)
(* initrd on FBL-SYS, packs the answers into the initrd, makes the         *)
(* installer the first entry of FBL-SYS's GRUB menu, and asks for a        *)
(* restart.  A pack may also have the firmware start the image's own shim  *)
(* next (install_vendor_shim).  The installer then erases the target.      *)
(*                                                                         *)
(* The pack's driver and the installer are not part of the repository's    *)
(* chooser; they are modelled by what prepare_os asks of them.             *)
(***************************************************************************)
EXTENDS ShopInstall, FiniteSets

CONSTANTS Packs,    \* systems of the shop's packs
          MaxDisksPrepared, \* bound: disks that an installer is prepared on
          MinTarget \* size that an installed system needs (MIN_TARGET_BYTES)

VARIABLES bootnext, \* the disk whose shim the firmware starts next, or None
          session   \* "off", "chooser" or "installer"

legacyVars == <<vars, bootnext, session>>

ASSUME PacksAssumption == Packs # {} /\ MinTarget \in Nat
                          /\ MaxDisksPrepared \in Nat

LegacySteps == <<"verify", "memory", "kernel", "initrd", "seed", "menu",
                 "after", "sync">>

LegacyStep == LegacySteps[helper.step]

\* find_os_live_disk: the disk that the session runs from; the other way
\* round, a stick that is plugged in would hide it.
OsLiveDiskPreferStick == FindSourceDisk
OsLiveDisk == IF live \in plugged THEN live ELSE FindSourceDisk

\* plan_os_target
OsTarget(l) ==
    IF l \in Usb THEN FindTargetDisk(l, MinTarget)
    ELSE IF Size[l] >= MinTarget THEN l ELSE None

\* live_os_plan: /run/payload comes back as the first FBL-DATA that lsblk
\* lists, if it was dropped.
PayloadDisk ==
    IF payload # None THEN payload
    ELSE FirstOf({d \in plugged : disk[d].labels /\ Readable(disk[d].data)})

PreparedDisks == {d \in Disks : disk[d].kernel # None}

\* _start_os_install for a pack: plan, then run the helper.
StartLegacyInstall(p) ==
    LET l == OsLiveDisk IN
    /\ helper = Idle /\ live # None
    /\ PayloadDisk \in plugged /\ disk[PayloadDisk].files > 0
    /\ OsTarget(l) # None
    /\ Cardinality(PreparedDisks \cup {l}) <= MaxDisksPrepared
    /\ payload' = PayloadDisk
    /\ helper' = [run |-> "legacy", step |-> 1, on |-> l,
                  job |-> [pack |-> p, target |-> OsTarget(l),
                           image |-> PayloadDisk, toram |-> FALSE,
                           starts |-> 0]]
    /\ UNCHANGED <<disk, plugged, live, nvram, bootnext, session>>

\* The disk that the job is prepared on, after a step.
AfterLegacy(step, d, job) ==
    CASE step = "kernel" -> [d EXCEPT !.kernel = job.pack]
      [] step = "initrd" -> [d EXCEPT !.initrd = [pack |-> job.pack,
                                                  seeded |-> FALSE]]
      [] step = "seed"   -> [d EXCEPT !.initrd = [pack |-> job.pack,
                                                  seeded |-> TRUE]]
      [] step = "menu"   -> [d EXCEPT !.menu = "installer", !.root = helper.on,
                                      !.job = job]
      [] OTHER           -> d

\* The files are written in place: a stop leaves them short.
HalfLegacy(step, d) ==
    {d} \cup
    CASE step = "kernel"            -> {[d EXCEPT !.kernel = "torn"]}
      [] step \in {"initrd", "seed"} -> {[d EXCEPT !.initrd = None]}
      [] step = "menu"              -> {[d EXCEPT !.menu = "torn"]}
      [] OTHER                      -> {}

\* The image is unpacked to memory where there is room.
MemoryAllows(toram) == helper.job.target = helper.on => toram

LegacyMemory ==
    /\ LegacyStep = "memory"
    /\ \E toram \in BOOLEAN :
          /\ MemoryAllows(toram)
          /\ helper' = [helper EXCEPT !.step = @ + 1, !.job.toram = toram]
    /\ UNCHANGED <<disk, bootnext, live, payload, session>>

\* verify_iso, the copies, inject_into_initrd, the menu
LegacyWrite ==
    /\ LegacyStep \in {"verify", "kernel", "initrd", "seed", "menu"}
    /\ LegacyStep = "verify" =>
          helper.job.image \in plugged /\ disk[helper.job.image].data = "whole"
    /\ disk' = [disk EXCEPT
                  ![helper.on] = AfterLegacy(LegacyStep, @, helper.job)]
    /\ helper' = [helper EXCEPT !.step = @ + 1]
    /\ UNCHANGED <<bootnext, live, payload, session>>

\* The pack's after_prepare: nothing, or the vendor's shim and BootNext.
LegacyAfter ==
    /\ LegacyStep = "after"
    /\ bootnext' \in {bootnext, helper.on}
    /\ helper' = [helper EXCEPT !.step = @ + 1]
    /\ UNCHANGED <<disk, live, payload, session>>

\* The session goes on after REBOOT, with the boot partition gone.
LegacyRebootKeepsSession ==
    /\ LegacyStep = "sync"
    /\ helper' = Idle /\ live' = None /\ payload' = None
    /\ UNCHANGED <<disk, bootnext, session>>

\* REBOOT: the chooser restarts the computer.
LegacyReboot ==
    /\ LegacyStep = "sync"
    /\ helper' = Idle /\ live' = None /\ payload' = None /\ session' = "off"
    /\ UNCHANGED <<disk, bootnext>>

LegacyInstallStep ==
    /\ helper.run = "legacy"
    /\ helper.on \in plugged
    /\ LegacyMemory \/ LegacyWrite \/ LegacyAfter \/ LegacyReboot
    /\ UNCHANGED <<plugged, nvram>>

\* Any of it fails: ERROR, and the chooser closes the overlay.
LegacyStepFails ==
    /\ helper.run = "legacy"
    /\ LegacyStep # "sync"
    /\ disk' \in {[disk EXCEPT ![helper.on] = d] :
                     d \in HalfLegacy(LegacyStep, disk[helper.on])}
    /\ helper' = Idle
    /\ UNCHANGED <<plugged, live, payload, nvram, bootnext, session>>
=============================================================================
