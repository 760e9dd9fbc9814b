---------------------------- MODULE ShopInstall -----------------------------
(***************************************************************************)
(* "Install to this device": the shop copies First Boot from the stick to  *)
(* the computer's own disk (disk.py, install.py).  The chooser makes a     *)
(* plan; the helper, a process of its own, makes its own plan again from   *)
(* what is plugged in by then, unmounts the target and writes it, step by  *)
(* step.  Any step may fail, and the power may go at any step.             *)
(*                                                                         *)
(* The three partitions of a disk that holds First Boot are                *)
(*   none  no file system      empty  formatted                            *)
(*   part  copied in part      whole  copied                               *)
(*   lost  copied, then lost: the power went before the final sync         *)
(* /boot/osinstall of the source is not followed to the copy.              *)
(***************************************************************************)
EXTENDS Naturals, Sequences, FiniteSetsExt

CONSTANTS Disks,    \* the stick and the computer's disks
          Usb,      \* the disks that are removable or on USB
          LsblkOrder, \* a sequence of all disks: the order lsblk lists them in
          Size,     \* size of each disk that an install may write
          SysSize,  \* size of FBL-ESP and FBL-SYS together
          Slack,    \* what a plan keeps free (SLACK_BYTES)
          Overhead, \* what mkfs.ext4 takes of each target's FBL-DATA
          None

VARIABLES disk,    \* contents of each disk
          plugged, \* the disks that are connected
          live,    \* the disk that the session runs from (/cdrom), or None
          payload, \* the disk whose FBL-DATA is at /run/payload, or None
          nvram,   \* boot entries of the firmware: label and disk
          helper   \* the root helper that runs, if any

vars == <<disk, plugged, live, payload, nvram, helper>>

ASSUME DisksAssumption == /\ Usb \subseteq Disks /\ None \notin Disks
                          /\ Size \in [Disks \ Usb -> Nat]
                          /\ Overhead \in [Disks \ Usb -> Nat]
                          /\ {SysSize, Slack} \subseteq Nat
ASSUME OrderAssumption == /\ LsblkOrder \in Seq(Disks)
                          /\ Disks = {LsblkOrder[i] : i \in DOMAIN LsblkOrder}

(* labels  the table names FBL-ESP, FBL-SYS, FBL-DATA; without it what the  *)
(*         partitions hold is still there, and nothing leads to it          *)
(* stub    whose FBL-SYS the GRUB stub on the ESP names by UUID             *)
(* menu    what the GRUB menu on FBL-SYS starts, root whose UUID it names   *)
(* files   bytes of payload on FBL-DATA, room the size of that partition   *)
(* kernel, initrd, job  /boot/osinstall and the menu's installer entry      *)
(* os      another system is on the disk                                    *)
(* done    the helper reported DONE for this copy                           *)
Blank == [labels |-> FALSE, esp |-> "none", sys |-> "none", data |-> "none",
          stub |-> None, menu |-> "none", root |-> None, files |-> 0, room |-> 0,
          kernel |-> None, initrd |-> None, job |-> None,
          os |-> FALSE, done |-> FALSE]

Readable(part) == part \in {"part", "whole", "lost"}

\* A file system of the disk x that the partition table leads to.
Found(x, part) == x.labels /\ Readable(part)

Idle == [run |-> "none"]

-----------------------------------------------------------------------------
(* Planning (disk.py).                                                     *)

\* The member of S that lsblk lists first.
FirstOf(S) ==
    IF S = {} THEN None
    ELSE LsblkOrder[Min({i \in DOMAIN LsblkOrder : LsblkOrder[i] \in S})]

InstallMedia(d) == d \in Usb

FindUsbFbl ==
    FirstOf({d \in plugged : InstallMedia(d) /\ disk[d].labels})

FindSourceDisk ==
    IF FindUsbFbl # None THEN FindUsbFbl
    ELSE IF live \in plugged THEN live ELSE FirstOf(plugged \cap {payload})

\* The largest internal disk that is large enough.
FindTargetDisk(source, need) ==
    LET fit == {d \in plugged \ (Usb \cup {source}) : Size[d] >= need}
    IN  FirstOf({d \in fit : \A e \in fit : Size[e] <= Size[d]})

\* plan_sizes: the bytes in use where they were measured, or else the partition.
NeedBytes(source, used) ==
    SysSize + Slack + (IF used > 0 THEN used ELSE disk[source].room)

\* dir_bytes of a mounted FBL-DATA; 0 when nothing is mounted there.
UsedAt(d) == IF d # None THEN disk[d].files ELSE 0

\* live_plan: the chooser measures what is at /run/payload.
ShopPlan ==
    LET source == FindSourceDisk
    IN  IF source # None /\ InstallMedia(source) /\ disk[source].labels
        THEN [source |-> source,
              target |-> FindTargetDisk(source,
                                        NeedBytes(source, UsedAt(payload)))]
        ELSE [source |-> source, target |-> None]

-----------------------------------------------------------------------------
(* The helper's steps (apply_plan, _apply_formatted).                      *)

\* The menu is written before the payload is there.
StepsRewriteFirst == <<"wipe", "table", "format", "esp", "sys", "grub", "data",
                       "sync", "efi">>

Steps == <<"wipe", "table", "format", "esp", "sys", "data", "grub", "sync",
           "efi">>

\* rewrite_grub: the stubs on the ESP and the menu on FBL-SYS name t.
RewriteGrubOfEsp(d, t) == [d EXCEPT !.stub = t, !.menu = "live"]
RewriteGrub(d, t) == [d EXCEPT !.stub = t, !.menu = "live", !.root = t]

\* A new table over the old contents: partitions that lie where an older First
\* Boot had them show its file systems again.
NewTable(d, room) ==
    IF d.room = room THEN [d EXCEPT !.labels = TRUE]
    ELSE [Blank EXCEPT !.labels = TRUE, !.room = room]

\* What each mkfs leaves of it.
MkfsEsp(d) == [d EXCEPT !.esp = "empty", !.stub = None]
MkfsSys(d) == [d EXCEPT !.sys = "empty", !.menu = "none", !.root = None,
                        !.kernel = None, !.initrd = None, !.job = None]
MkfsData(d) == [d EXCEPT !.data = "empty", !.files = 0]

\* The target t after a step; s is the source.  wipefs and sgdisk take the
\* partition table, and what is in the partitions stays until mkfs.
After(step, t, s) ==
    LET d == disk[t] IN
    CASE step = "wipe"   -> [d EXCEPT !.labels = FALSE, !.os = FALSE,
                                      !.done = FALSE]
      [] step = "table"  -> NewTable(d, Size[t] - SysSize)
      [] step = "format" -> MkfsData(MkfsSys(MkfsEsp(d)))
      [] step = "esp"    -> [d EXCEPT !.esp = "whole", !.stub = disk[s].stub]
      [] step = "sys"    -> [d EXCEPT !.sys = "whole", !.menu = disk[s].menu,
                                      !.root = disk[s].root]
      [] step = "data"   -> [d EXCEPT !.data = "whole",
                                      !.files = disk[s].files]
      [] step = "grub"   -> RewriteGrub(d, t)
      [] OTHER           -> d

\* What a step that fails, or that the power stops, may leave.
Half(step, t, s) ==
    LET d == disk[t] IN
    {d} \cup
    CASE step = "format" -> {MkfsEsp(d), MkfsSys(MkfsEsp(d)), After(step, t, s)}
      [] step = "esp"  -> {[d EXCEPT !.esp = "part", !.stub = x] :
                              x \in {None, disk[s].stub}}
      [] step = "sys"  -> {[After(step, t, s) EXCEPT !.sys = "part"]}
      [] step = "data" -> {[d EXCEPT !.data = "part", !.files = f] :
                              f \in {0, disk[s].files}}
      [] step = "grub" -> {[d EXCEPT !.stub = t],
                           [d EXCEPT !.stub = t, !.menu = "torn"]}
      [] step = "sync" -> {}
      [] step = "efi"  -> {}
      [] OTHER         -> {After(step, t, s)}

\* Before the sync a power cut may take what was written after the format,
\* in any of the partitions, whatever was written first.
Unsynced(step, d) ==
    IF step \notin {"esp", "sys", "data", "grub", "sync"} THEN {d}
    ELSE {[d EXCEPT !.esp = e, !.sys = y, !.data = a] :
             e \in {d.esp} \cup (IF d.esp = "whole" THEN {"part"} ELSE {}),
             y \in {d.sys} \cup (IF d.sys = "whole" THEN {"part"} ELSE {}),
             a \in {d.data} \cup (IF d.data = "whole" THEN {"lost"} ELSE {})}

\* Labels of _register_efi that do not name First Boot.
StaleLabels == {"other system"}

RegisterEfi(t) ==
    {e \in nvram : e.label \notin StaleLabels \cup {"First Boot Linux"}}
        \cup {[label |-> "First Boot Linux", disk |-> t]}

\* PROTECTED_MOUNTS: what unmount_disk leaves mounted, with an error.
ProtectedMountOfRoot(t) == FALSE
ProtectedMount(t) == live = t

\* _apply_cli measures FBL-DATA of the source, where it is mounted, and not
\* whatever disk is at /run/payload.
MeasuredAtPayload(source) == UsedAt(payload)
Measured(source) == IF payload = source THEN UsedAt(source) ELSE 0

-----------------------------------------------------------------------------
(* Actions.                                                                *)

\* _start_shop_install: the chooser plans and, with a target, runs the helper.
StartShopInstall ==
    /\ helper = Idle
    /\ live # None
    /\ ShopPlan.target # None
    /\ helper' = [run |-> "ask", target |-> ShopPlan.target]
    /\ UNCHANGED <<disk, plugged, live, payload, nvram>>

Accepts(source, target) ==
    /\ source # None /\ target \in plugged /\ target # source
    /\ Size[target] >= NeedBytes(source, Measured(source))
    /\ disk[source].labels

\* _apply_cli up to unmount_disk.  The helper takes the target as it is
\* named and finds the source again.  /run/payload is dropped before the
\* refusal to drop /cdrom.
HelperPlans ==
    /\ helper.run = "ask"
    /\ LET s == FindSourceDisk
           t == helper.target
       IN  IF ~Accepts(s, t)
           THEN /\ helper' = Idle
                /\ UNCHANGED payload
           ELSE /\ payload' = IF payload = t THEN None ELSE payload
                /\ helper' = IF ProtectedMount(t) THEN Idle
                             ELSE [run |-> "shop", step |-> 1,
                                   target |-> t, source |-> s]
    /\ UNCHANGED <<disk, plugged, live, nvram>>

StepOf == Steps[helper.step]

\* The source of a copy has been read as far as the step that runs.
SourceThere == helper.source \in plugged

\* rsync runs out of space otherwise: that is ShopStepFails.
CopyFits == disk[helper.source].files + Overhead[helper.target]
                <= Size[helper.target] - SysSize

ShopStep ==
    /\ helper.run = "shop"
    /\ helper.target \in plugged
    /\ StepOf \in {"esp", "sys", "data"} => SourceThere
    /\ StepOf = "data" => CopyFits
    /\ LET t == helper.target
           d == After(StepOf, t, helper.source)
           last == helper.step = Len(Steps)
       IN  /\ disk' = [disk EXCEPT ![t] = [d EXCEPT !.done = last]]
           /\ nvram' \in (IF last THEN {RegisterEfi(t), nvram} ELSE {nvram})
           /\ helper' = IF last THEN Idle
                        ELSE [helper EXCEPT !.step = @ + 1]
    /\ UNCHANGED <<plugged, live, payload>>

\* A command, a mount or a copy fails: InstallError, the overlay closes.
\* os.sync and the firmware's entry cannot fail.
ShopStepFails ==
    /\ helper.run = "shop"
    /\ StepOf \notin {"sync", "efi"}
    /\ disk' \in {[disk EXCEPT ![helper.target] = d] :
                     d \in Half(StepOf, helper.target, helper.source)}
    /\ helper' = Idle
    /\ UNCHANGED <<plugged, live, payload, nvram>>

\* What the target may hold after the power went.
ShopCut ==
    UNION {Unsynced(StepOf, d) :
              d \in Half(StepOf, helper.target, helper.source)}
=============================================================================
