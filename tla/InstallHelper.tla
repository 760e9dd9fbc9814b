--------------------------- MODULE InstallHelper ---------------------------
(***************************************************************************)
(* firstboot-install-os, the privileged helper of the First Boot chooser:  *)
(* the native install pipeline (osinstall/pipeline.py) and the restore     *)
(* that writes First Boot back after a failed install (osinstall/restore.  *)
(* py).  One helper runs at a time and is one sequential program; what     *)
(* makes it hard is the machine it runs on.  When First Boot was booted    *)
(* from the disk it is about to erase (SameDisk) it copies itself and the  *)
(* chosen image to memory and pivots there first, and everything that is   *)
(* in memory outlives a failed attempt and is found by the next one.       *)
(*                                                                         *)
(* Every step may fail, and leaves behind what the code leaves behind.     *)
(* Progress reports, tick marks and log lines are left out.                *)
(***************************************************************************)
EXTENDS Naturals, Sequences, FiniteSets

CONSTANTS
    Editions,       \* editions whose image is on the payload partition
    SameDisk,       \* plan.same_disk: First Boot runs from the target disk
    OldFbl,         \* booted from USB, the target holds an older FBL-DATA
    OldImages,      \* the editions whose image is on that older FBL-DATA
    WithExtras,     \* editions with an images/<iso>.pkgs directory
    Damaged,        \* editions whose image does not match its checksum
    LayerCount,     \* squashfs layers of each edition
    MaxLayers,
    Lookalike,      \* <<a, b>>: the checks of b's driver accept a's tree
    RamUnits,       \* memory, in layers
    Headroom,       \* TORAM_HEADROOM, in layers
    RescueCopyFaults, \* copying the rescue files may hit an I/O error
    NoReboot,       \* FIRSTBOOT_OSINSTALL_NO_REBOOT=1
    NoEdition, NoFile, TornFile

ASSUME HelperConstants ==
    /\ SameDisk \in BOOLEAN /\ OldFbl \in BOOLEAN
    /\ RescueCopyFaults \in BOOLEAN /\ NoReboot \in BOOLEAN
    /\ OldImages \subseteq Editions
    /\ WithExtras \subseteq Editions
    /\ Damaged \subseteq Editions
    /\ MaxLayers \in Nat
    /\ LayerCount \in [Editions -> 1 .. MaxLayers]
    /\ Lookalike \subseteq Editions \X Editions
    /\ RamUnits \in Nat /\ Headroom \in Nat
    /\ NoEdition \notin Editions
    /\ NoFile \notin Editions /\ TornFile \notin Editions
    /\ NoFile # TornFile

VARIABLES
    disk,      \* the target disk, by how far it has been (re)written
    tree,      \* what the unpacked tree on the target is made of
    sysBack,   \* squashfs, kernel and initrd a restore wrote to FBL-SYS
    shopBack,  \* a restore wrote the shop files to FBL-DATA
    nvram,     \* what the firmware boot entry leads to
    root,      \* the root file system: the live medium, or memory
    medium,    \* the live medium is mounted (LIVE_MOUNTS)
    payload,   \* what is mounted at /run/payload
    rels,      \* squashfs-layers.txt in RAM_DIR: lines, 0 when there is none
    layer,     \* RAM_DIR/layer<i>.squashfs
    live,      \* RAM_DIR/live.squashfs
    kernel,    \* the kernel and initrd in RAM_DIR/rescue/casper
    shop,      \* RAM_DIR/rescue/payload holds the shop files
    pkgs,      \* RAM_DIR/pkgs: the staged extra packages of each edition
    pc,        \* next step of the helper
    ed,        \* plan: the edition to install
    source,    \* where the image the tree comes from is mounted
    used,      \* install_native's ram_layer_rels: layers taken from memory
    extras,    \* install_native's extras_dir: in memory or on the payload
    erased,    \* install_native's wiped flag
    verified,  \* history: editions whose image matched its checksum
    pipe       \* what the helper printed and the chooser has not handled

targetVars == <<disk, tree, sysBack, shopBack, nvram>>
mountVars  == <<root, medium, payload>>
ramVars    == <<rels, layer, live, kernel, shop, pkgs>>
planVars   == <<ed, source, used, extras, erased>>
machineVars == <<targetVars, mountVars, ramVars>>
helperVars == <<machineVars, planVars, pc, verified, pipe>>

LayerSlots == 1 .. MaxLayers

\* How far a step that stops half way leaves a file.
FileStates == {"absent", "torn", "whole"}

DiskStates == {"before", "blank", "empty", "rootfs", "configured", "os",
               "fblparts", "fbl"}

InstallSteps == {"check", "image", "stage", "layers", "live", "shadow",
                 "pivot", "keep", "release", "wipe", "format", "unpack",
                 "configure", "bootloader", "health", "efi", "finish"}
RestoreSteps == {"r.guard", "r.wipe", "r.format", "r.sys", "r.data", "r.esp",
                 "r.efi"}

\* What the chooser acts on, of the lines a helper prints.
Events == {"wiped", "error", "reboot", "done"}

MachineTypeOK ==
    /\ disk \in DiskStates
    /\ tree \subseteq Editions \cup {NoFile, TornFile}
    /\ sysBack \in FileStates
    /\ nvram \in {"before", "none", "os", "fbl"}
    /\ root \in {"medium", "ram"}
    /\ payload \in {"down", "live", "target"}
    /\ rels \in 0 .. MaxLayers
    /\ layer \in [LayerSlots -> Editions \cup {NoFile, TornFile}]
    /\ live \in FileStates /\ kernel \in FileStates
    /\ pkgs \in [Editions -> FileStates]

RunTypeOK ==
    /\ pc \in InstallSteps \cup RestoreSteps \cup {"idle", "off"}
    /\ ed \in Editions \cup {NoEdition}
    /\ pc \in InstallSteps => ed \in Editions
    /\ source \in {"none", "live", "target", "ram"}
    /\ used \in 0 .. MaxLayers
    /\ extras \in {"ram", "payload"}
    /\ verified \subseteq Editions
    /\ pipe \in Seq(Events)

FlagTypeOK ==
    /\ shopBack \in BOOLEAN /\ medium \in BOOLEAN
    /\ shop \in BOOLEAN /\ erased \in BOOLEAN

HelperTypeOK == MachineTypeOK /\ RunTypeOK /\ FlagTypeOK

HelperInit ==
    /\ disk = "before" /\ tree = {}
    /\ sysBack = "absent" /\ shopBack = FALSE
    /\ nvram = "before"
    /\ root = "medium" /\ medium = TRUE /\ payload = "live"
    /\ rels = 0
    /\ layer = [i \in LayerSlots |-> NoFile]
    /\ live = "absent" /\ kernel = "absent" /\ shop = FALSE
    /\ pkgs = [e \in Editions |-> "absent"]
    /\ pc = "idle" /\ ed = NoEdition
    /\ source = "none" /\ used = 0 /\ extras = "payload" /\ erased = FALSE
    /\ verified = {} /\ pipe = <<>>

-----------------------------------------------------------------------------
(* What the code finds out about the machine.                              *)

OnRam == root = "ram"

\* A partition labelled FBL-DATA that mount(8) would put at /run/payload.
\* When two disks carry the label the first one lsblk lists is taken.
FblData ==
    IF SameDisk
    THEN IF disk \in {"before", "fbl"} THEN {"live"} ELSE {}
    ELSE {"live"} \cup IF (OldFbl /\ disk = "before") \/ disk = "fbl"
                       THEN {"target"} ELSE {}

\* The image of e can be read under /run/payload when p is mounted there.
ImageAt(p, e) ==
    \/ p = "live" /\ (SameDisk => disk = "before")
    \/ p = "target" /\ OldFbl /\ disk = "before" /\ e \in OldImages

\* Layers and First Boot itself that memory already holds.
RamHeld == Cardinality({i \in LayerSlots : layer[i] # NoFile})
             + (IF live = "absent" THEN 0 ELSE 1)
NeedRam(e) == Headroom + LayerCount[e] + (IF medium THEN 1 ELSE 0)
Fits(e) == NeedRam(e) + RamHeld <= RamUnits

\* _existing_ram_layers: the files are there, nobody asks whose they are.
LayersInRam(n) ==
    /\ \A i \in 1 .. n : layer[i] # NoFile
    /\ live # "absent"

\* rescue_ready: a squashfs and a kernel to write back to a wiped disk.
RescueReady ==
    /\ live # "absent" \/ medium
    /\ kernel # "absent" \/ medium

\* Mutant: the rescue files are collected anew instead of added to.
SnapshotRescueAnew ==
    /\ kernel' = IF medium THEN "whole" ELSE "absent"
    /\ shop' = (shop \/ payload # "down")

\* snapshot_rescue: kernel files from the live medium, shop files from the
\* payload; an initrd that is already there is not copied again, an error on
\* a shop file is swallowed.
SnapshotRescue ==
    /\ kernel' = IF kernel = "absent" /\ medium THEN "whole" ELSE kernel
    /\ IF payload = "down"
       THEN shop' = shop
       ELSE shop' \in {TRUE} \cup (IF RescueCopyFaults THEN {shop} ELSE {})

\* The initrd is cut short; no shop file was reached.
SnapshotBreaks ==
    /\ RescueCopyFaults /\ kernel = "absent" /\ medium
    /\ kernel' = "torn"
    /\ UNCHANGED shop

\* stage_payload_extras: a file that already exists is not copied again.
StagedExtras(held, e) ==
    IF e \in WithExtras /\ held[e] = "absent"
    THEN [held EXCEPT ![e] = "whole"] ELSE held

\* verify_iso: size and checksum of the image agree with the catalog's.
ImageIsGood(e) == e \notin Damaged

Emit(event) == pipe' = Append(pipe, event)

-----------------------------------------------------------------------------
(* Start and end of a run.  main() runs one mode per process, so a launch  *)
(* finds no state of an earlier helper but the machine's.                  *)

PlanAvailable(p, e) == ImageAt(p, e)

\* Mutant: the plan is not filled in.
LaunchInstallWithoutPlan(e) ==
    /\ pc' = "check"
    /\ UNCHANGED ed /\ source' = "none" /\ used' = 0
    /\ extras' = "payload" /\ erased' = FALSE

\* run_os_install: the chooser's plan for e was available.
LaunchInstall(e) ==
    /\ pc' = "check"
    /\ ed' = e /\ source' = "none" /\ used' = 0
    /\ extras' = "payload" /\ erased' = FALSE

\* run_os_restore
LaunchRestore ==
    /\ pc' = "r.guard"
    /\ UNCHANGED planVars

\* Mutant: a step that raises ends the helper without a word.
StepFailsSilently ==
    /\ pc \notin {"idle", "off", "finish"}
    /\ pc' = "idle"
    /\ UNCHANGED <<machineVars, planVars, verified, pipe>>

\* Any step may raise; except and finally only log and unmount the image.
\* The chooser sees ERROR and a non-zero exit, or just the exit when the
\* process is killed: the same to it.
StepFails ==
    /\ pc \notin {"idle", "off", "finish"}
    /\ pc' = "idle"
    /\ Emit("error")
    /\ UNCHANGED <<machineVars, planVars, verified>>

-----------------------------------------------------------------------------
(* install_native, in the order of the code.                               *)

\* Mutant: a checksum that does not match is only logged.
CheckImageOnlyLogs ==
    /\ pc = "check"
    /\ payload' \in {payload} \cup
           (IF SameDisk /\ payload = "down" THEN FblData ELSE {})
    /\ ImageAt(payload', ed)
    /\ verified' = verified \cup ({ed} \ Damaged)
    /\ pc' = "image"
    /\ UNCHANGED <<targetVars, root, medium, ramVars, planVars, pipe>>

\* Tick 1.  A retry that already runs from memory skips the checksum.
CheckImage ==
    /\ pc = "check"
    /\ payload' \in {payload} \cup
           (IF SameDisk /\ payload = "down" THEN FblData ELSE {})
    /\ IF OnRam /\ live # "absent"
       THEN UNCHANGED verified
       ELSE /\ ImageAt(payload', ed)
            /\ ImageIsGood(ed)
            /\ verified' = verified \cup {ed}
    /\ pc' = "image"
    /\ UNCHANGED <<targetVars, root, medium, ramVars, planVars, pipe>>

\* Tick 2 without a pivot: just mount the image.
OpenImageUsb ==
    /\ pc = "image" /\ ~SameDisk
    /\ ImageAt(payload, ed)
    /\ source' = payload
    /\ pc' = "keep"
    /\ UNCHANGED <<machineVars, ed, used, extras, erased, verified, pipe>>

\* Mutant: layers are reused without asking whether the pivot was done.
ReuseListedLayersBeforePivot ==
    /\ pc = "image" /\ SameDisk
    /\ rels # 0 /\ LayersInRam(rels)
    /\ used' = rels /\ source' = "ram"
    /\ pc' = "keep"
    /\ UNCHANGED <<machineVars, ed, extras, erased, verified, pipe>>

\* Tick 2, squashfs-layers.txt found: take the layers it lists.
ReuseListedLayers ==
    /\ pc = "image" /\ SameDisk /\ OnRam
    /\ rels # 0 /\ LayersInRam(rels)
    /\ used' = rels /\ source' = "ram"
    /\ pc' = "keep"
    /\ UNCHANGED <<machineVars, ed, extras, erased, verified, pipe>>

\* Tick 2, running from memory but no list: the image names the layers and
\* copy_live_to_ram returns the files that are already there.
ReuseCopiedLayers ==
    /\ pc = "image" /\ SameDisk /\ OnRam
    /\ rels = 0 /\ ImageAt(payload, ed)
    /\ rels' \in {0, LayerCount[ed]}
    /\ LayersInRam(LayerCount[ed])
    /\ pkgs' = StagedExtras(pkgs, ed)
    /\ used' = LayerCount[ed] /\ source' = "ram"
    /\ pc' = "keep"
    /\ UNCHANGED <<targetVars, mountVars, layer, live, kernel, shop,
                   ed, extras, erased, verified, pipe>>

\* Tick 2, first attempt: the list is written, then memory is checked.
OpenImage ==
    /\ pc = "image" /\ SameDisk /\ ~OnRam
    /\ ImageAt(payload, ed)
    /\ rels' \in {rels, LayerCount[ed]}
    /\ IF Fits(ed)
       THEN pc' = "stage" /\ UNCHANGED pipe
       ELSE pc' = "idle" /\ Emit("error")
    /\ UNCHANGED <<targetVars, mountVars, layer, live, kernel, shop,
                   pkgs, planVars, verified>>

\* mount_ram_tmpfs: a fresh tmpfs hides all that RAM_DIR held; a remount, or
\* the fall back to /run, keeps it.  Then the extra packages are staged.
StageRam ==
    /\ pc = "stage"
    /\ \E fresh \in BOOLEAN :
         LET held == IF fresh THEN [e \in Editions |-> "absent"] ELSE pkgs
         IN  /\ rels' = (IF fresh THEN 0 ELSE rels)
             /\ layer' = (IF fresh THEN [i \in LayerSlots |-> NoFile] ELSE layer)
             /\ live' = (IF fresh THEN "absent" ELSE live)
             /\ kernel' = (IF fresh THEN "absent" ELSE kernel)
             /\ shop' = (shop /\ ~fresh)
             /\ \/ /\ pkgs' = StagedExtras(held, ed)
                   /\ pc' = "layers" /\ UNCHANGED pipe
                \/ /\ ed \in WithExtras /\ held[ed] = "absent"
                   /\ pkgs' = [held EXCEPT ![ed] = "torn"]
                   /\ pc' = "idle" /\ Emit("error")
    /\ UNCHANGED <<targetVars, mountVars, planVars, verified>>

\* Mutant: a layer file that is already there is not copied again.
CopyMissingLayers ==
    /\ pc = "layers"
    /\ \/ /\ layer' = [i \in LayerSlots |->
                          IF i <= LayerCount[ed] /\ layer[i] = NoFile
                          THEN ed ELSE layer[i]]
          /\ used' = LayerCount[ed] /\ source' = "ram"
          /\ pc' = "live" /\ UNCHANGED pipe
       \/ \E k \in 1 .. LayerCount[ed] :
          /\ layer[k] = NoFile
          /\ layer' = [i \in LayerSlots |->
                          IF i < k /\ layer[i] = NoFile THEN ed
                          ELSE IF i = k THEN TornFile ELSE layer[i]]
          /\ pc' = "idle" /\ Emit("error")
          /\ UNCHANGED <<source, used>>
    /\ UNCHANGED <<targetVars, mountVars, rels, live, kernel, shop, pkgs,
                   ed, extras, erased, verified>>

\* Copy the layers of the image over whatever layer files are there.
CopyLayers ==
    /\ pc = "layers"
    /\ \/ /\ layer' = [i \in LayerSlots |->
                          IF i <= LayerCount[ed] THEN ed ELSE layer[i]]
          /\ used' = LayerCount[ed] /\ source' = "ram"
          /\ pc' = "live" /\ UNCHANGED pipe
       \/ \E k \in 1 .. LayerCount[ed] :
          /\ layer' = [i \in LayerSlots |->
                          IF i < k THEN ed
                          ELSE IF i = k THEN TornFile ELSE layer[i]]
          /\ pc' = "idle" /\ Emit("error")
          /\ UNCHANGED <<source, used>>
    /\ UNCHANGED <<targetVars, mountVars, rels, live, kernel, shop, pkgs,
                   ed, extras, erased, verified>>

\* Copy First Boot's own squashfs from the live medium.
CopyLive ==
    /\ pc = "live"
    /\ \/ /\ medium
          /\ \/ live' = "whole" /\ pc' = "shadow" /\ UNCHANGED pipe
             \/ live' = "torn" /\ pc' = "idle" /\ Emit("error")
       \/ ~medium /\ live # "absent" /\ pc' = "shadow" /\ UNCHANGED <<live, pipe>>
    /\ UNCHANGED <<targetVars, mountVars, rels, layer, kernel, shop,
                   pkgs, planVars, verified>>

\* snapshot_rescue while the medium and the payload are still mounted.
ShadowRescue ==
    /\ pc = "shadow"
    /\ \/ SnapshotRescue /\ pc' = "pivot" /\ UNCHANGED pipe
       \/ SnapshotBreaks /\ pc' = "idle" /\ Emit("error")
    /\ UNCHANGED <<targetVars, mountVars, rels, layer, live, pkgs,
                   planVars, verified>>

\* Mount the overlay, pivot, drop the medium and the payload.
PivotToRam ==
    /\ pc = "pivot"
    /\ root' = "ram" /\ medium' = FALSE /\ payload' = "down"
    /\ pc' = "keep"
    /\ UNCHANGED <<targetVars, ramVars, planVars, verified, pipe>>

\* Tick 3: where the extra packages are, and the rescue files once more.
KeepRescue ==
    /\ pc = "keep"
    /\ extras' = IF SameDisk /\ \E e \in Editions : pkgs[e] # "absent"
                 THEN "ram" ELSE "payload"
    /\ \/ SnapshotRescue /\ pc' = "release" /\ UNCHANGED pipe
       \/ SnapshotBreaks /\ pc' = "idle" /\ Emit("error")
    /\ UNCHANGED <<targetVars, mountVars, rels, layer, live, pkgs,
                   ed, source, used, erased, verified>>

\* unmount_target: collected_mounts is given /run/payload whatever the plan.
ReleaseTarget ==
    /\ pc = "release"
    /\ SameDisk => live # "absent"
    /\ payload' = "down"
    /\ medium' = (medium /\ ~SameDisk)
    /\ pc' = "wipe"
    /\ UNCHANGED <<targetVars, root, ramVars, planVars, verified, pipe>>

\* The driver's partition function: wipefs ...
WipeTarget ==
    /\ pc = "wipe"
    /\ disk' = "blank" /\ tree' = {}
    /\ sysBack' = "absent" /\ shopBack' = FALSE
    /\ pc' = "format"
    /\ UNCHANGED <<nvram, mountVars, ramVars, planVars, verified, pipe>>

\* ... then the table, the file systems and the mounts.  WIPED is printed
\* once all of it is done.
FormatTarget ==
    /\ pc = "format"
    /\ disk' = "empty"
    /\ erased' = TRUE /\ Emit("wiped")
    /\ pc' = "unpack"
    /\ UNCHANGED <<tree, sysBack, shopBack, nvram, mountVars, ramVars,
                   ed, source, used, extras, verified>>

\* Tick 4: from memory through the live-tree links, or from the image.  An
\* image on the disk that was just formatted cannot be read any more.
UnpackTree ==
    /\ pc = "unpack"
    /\ tree' = CASE source = "ram" -> {layer[i] : i \in 1 .. used}
                 [] source = "target" -> {TornFile}
                 [] OTHER -> {ed}
    /\ disk' = "rootfs"
    /\ pc' = "configure"
    /\ UNCHANGED <<sysBack, shopBack, nvram, mountVars, ramVars, planVars,
                   verified, pipe>>

\* install_staged_packages finds its packages, and they are intact.
ExtrasUsable ==
    IF extras = "ram"
    THEN \A e \in Editions : pkgs[e] # "torn"
    ELSE ImageAt(payload, ed)

\* Tick 5
ConfigureTree ==
    /\ pc = "configure"
    /\ ed \in WithExtras => ExtrasUsable
    /\ disk' = "configured"
    /\ pc' = "bootloader"
    /\ UNCHANGED <<tree, sysBack, shopBack, nvram, mountVars, ramVars,
                   planVars, verified, pipe>>

\* Mutant: a boot loader that cannot be installed is only logged.
InstallBootloaderOrLog ==
    /\ pc = "bootloader"
    /\ disk' \in {disk, "os"}
    /\ pc' = "health"
    /\ UNCHANGED <<tree, sysBack, shopBack, nvram, mountVars, ramVars,
                   planVars, verified, pipe>>

\* Tick 6
InstallBootloader ==
    /\ pc = "bootloader"
    /\ disk' = "os"
    /\ pc' = "health"
    /\ UNCHANGED <<tree, sysBack, shopBack, nvram, mountVars, ramVars,
                   planVars, verified, pipe>>

\* Tick 7: files, display manager, boot loader and user are checked, not
\* which edition they belong to.
HealthCheck ==
    /\ pc = "health"
    /\ \A t \in tree : t = ed \/ <<t, ed>> \in Lookalike
    /\ pc' = "efi"
    /\ UNCHANGED <<machineVars, planVars, verified, pipe>>

\* Tick 8: stale entries are deleted first, then the new one is created.
RegisterOsEfi ==
    /\ pc = "efi"
    /\ \/ nvram' = "os" /\ pc' = "finish" /\ UNCHANGED pipe
       \/ nvram' = "none" /\ pc' = "idle" /\ Emit("error")
    /\ UNCHANGED <<disk, tree, sysBack, shopBack, mountVars, ramVars,
                   planVars, verified>>

\* Tick 9
FinishInstall ==
    /\ pc = "finish"
    /\ IF NoReboot THEN pc' = "idle" /\ Emit("done")
                   ELSE pc' = "off" /\ Emit("reboot")
    /\ UNCHANGED <<machineVars, planVars, verified>>

-----------------------------------------------------------------------------
(* restore_fbl, in the order of the code.                                  *)

RestoreGuard ==
    /\ pc = "r.guard"
    /\ RescueReady
    /\ pc' = "r.wipe"
    /\ UNCHANGED <<machineVars, planVars, verified, pipe>>

RestoreWipe ==
    /\ pc = "r.wipe"
    /\ payload' = "down"
    /\ disk' = "blank" /\ tree' = {}
    /\ sysBack' = "absent" /\ shopBack' = FALSE
    /\ pc' = "r.format"
    /\ UNCHANGED <<nvram, root, medium, ramVars, planVars, verified, pipe>>

RestoreFormat ==
    /\ pc = "r.format"
    /\ disk' = "fblparts"
    /\ pc' = "r.sys"
    /\ UNCHANGED <<tree, sysBack, shopBack, nvram, mountVars, ramVars,
                   planVars, verified, pipe>>

\* write_fbl_sys takes what is in memory before the live medium's.
RestoreSys ==
    /\ pc = "r.sys"
    /\ RescueReady
    /\ sysBack' = IF "torn" \in {live, kernel} THEN "torn" ELSE "whole"
    /\ pc' = "r.data"
    /\ UNCHANGED <<disk, tree, shopBack, nvram, mountVars, ramVars, planVars,
                   verified, pipe>>

\* Mutant: the shop files are read from /run/payload, which is unmounted.
RestoreDataFromPayload ==
    /\ pc = "r.data"
    /\ shopBack' = (payload # "down")
    /\ pc' = "r.esp"
    /\ UNCHANGED <<disk, tree, sysBack, nvram, mountVars, ramVars, planVars,
                   verified, pipe>>

RestoreData ==
    /\ pc = "r.data"
    /\ shopBack' \in {shop} \cup (IF RescueCopyFaults THEN {FALSE} ELSE {})
    /\ pc' = "r.esp"
    /\ UNCHANGED <<disk, tree, sysBack, nvram, mountVars, ramVars, planVars,
                   verified, pipe>>

\* Mutant: an ESP that cannot be written is only logged.
RestoreEspOrLog ==
    /\ pc = "r.esp"
    /\ disk' \in {disk, "fbl"}
    /\ pc' = "r.efi"
    /\ UNCHANGED <<tree, sysBack, shopBack, nvram, mountVars, ramVars,
                   planVars, verified, pipe>>

\* write_fbl_esp and rewrite_grub: from here on the disk boots First Boot.
RestoreEsp ==
    /\ pc = "r.esp"
    /\ disk' = "fbl"
    /\ pc' = "r.efi"
    /\ UNCHANGED <<tree, sysBack, shopBack, nvram, mountVars, ramVars,
                   planVars, verified, pipe>>

RestoreEfi ==
    /\ pc = "r.efi"
    /\ nvram' \in {"fbl", "none"}
    /\ pc' = "idle" /\ Emit("done")
    /\ UNCHANGED <<disk, tree, sysBack, shopBack, mountVars, ramVars,
                   planVars, verified>>

InstallStep ==
    \/ CheckImage \/ OpenImageUsb \/ ReuseListedLayers \/ ReuseCopiedLayers
    \/ OpenImage \/ StageRam \/ CopyLayers \/ CopyLive \/ ShadowRescue
    \/ PivotToRam \/ KeepRescue \/ ReleaseTarget \/ WipeTarget
    \/ FormatTarget \/ UnpackTree \/ ConfigureTree \/ InstallBootloader
    \/ HealthCheck \/ RegisterOsEfi \/ FinishInstall

RestoreStep ==
    \/ RestoreGuard \/ RestoreWipe \/ RestoreFormat \/ RestoreSys
    \/ RestoreData \/ RestoreEsp \/ RestoreEfi

HelperStep == InstallStep \/ RestoreStep \/ StepFails
=============================================================================
