----------------------------- MODULE DriverTree -----------------------------
(***************************************************************************)
(* What every install driver works on: the formatted target, the tree that *)
(* is unpacked on it, its /boot and its EFI system partition, and the      *)
(* steps of osinstall/common.py that the families share.                   *)
(*                                                                         *)
(* A step is an operator from a tree to a tree; the families compose them  *)
(* into their configure and bootloader functions.  Commands in the chroot  *)
(* may fail; most drivers only write that to the log.  fault remembers     *)
(* that some command or unlink of this attempt failed.                     *)
(*                                                                         *)
(* Mounts, locale, time zone, host name, machine id and the log are left   *)
(* out: nothing below depends on them.                                     *)
(***************************************************************************)
EXTENDS Naturals, FiniteSets, FiniteSetsExt, OsEditions

CONSTANTS Versions,  \* kernel versions that an image may hold, as numbers
          Images,    \* what an image may hold, see ImageShape
          Customer   \* the name that the customer types, if it is not a
                     \* live account's name

VARIABLES edition, \* the driver of the plan
          image,   \* the image of the plan
          user,    \* the account of the plan
          at,      \* how far install_native has come with the driver
          tree,    \* the target tree with /boot
          esp,     \* the EFI system partition
          fault    \* something failed in this attempt

vars == <<edition, image, user, at, tree, esp, fault>>

\* There are finitely many versions.
ASSUME VersionsAssumption ==
    \E newest \in Versions \cup {0} : Versions \subseteq 1 .. newest

\* Plain stands for the file names without a version.
Plain == 0
Names == Versions \cup {Plain}

NoInitrd == [n \in Names |-> "none"]

LiveThings ==
    {"casperize", "overlayroot", "installer", "packages", "session", "snap",
     "autologin", "cmdline", "sources", "livesys", "live-dracut", "live-units", "sudoers", "polkit", "archiso"}

(* kernels, initrds  in the tree's /boot                                    *)
(* modules           kernel versions below /usr/lib/modules of the tree     *)
(* beside            kernel and live initrd next to the tree on the image   *)
(* pool              kernel versions of the packages on the image           *)
(* builder           the program in the tree that makes an initrd           *)
(* grub              where the loader's files are: "tree", "image", "none"  *)
(* live              what the live session left in the tree                 *)
ImageShape ==
    [family : {"casper", "fedora", "debian", "cachyos"},
     kernels : SUBSET Versions, initrds : SUBSET Versions,
     modules : SUBSET Versions, beside : BOOLEAN, pool : SUBSET Versions,
     builder : {"update-initramfs", "dracut", "mkinitcpio", "none"},
     grub : {"tree", "image", "none"}, live : SUBSET LiveThings,
     liveAccount : BOOLEAN, masked : BOOLEAN]

ASSUME ImagesAssumption == Images \subseteq ImageShape

Blank ==
    [kernels |-> {}, initrd |-> NoInitrd, modules |-> {}, fstab |-> {},
     accounts |-> {}, greeter |-> "none", masked |-> FALSE,
     graphical |-> FALSE, live |-> {}, grubModules |-> "none",
     signed |-> "none", menu |-> {}, menuBy |-> "nobody", entries |-> {},
     relabel |-> FALSE]

EmptyEsp == [shim |-> FALSE, grub |-> "none", stub |-> {}, entries |-> {}]

-----------------------------------------------------------------------------
(* The target.  The disk that partition_disk describes: its mount points.  *)

CommonDisk  == {"root", "esp"}
FedoraDisk  == {"root", "esp", "boot", "home"}
CachyosDisk == {"root", "esp", "home"}

DiskOf(family) == CASE family = "fedora"  -> FedoraDisk
                    [] family = "cachyos" -> CachyosDisk
                    [] OTHER              -> CommonDisk

\* The tree as it comes out of the image's file system.
Unpacked ==
    [Blank EXCEPT
       !.kernels  = image.kernels,
       !.initrd   = [n \in Names |-> IF n \in image.initrds THEN "live"
                                                            ELSE "none"],
       !.modules  = image.modules,
       !.accounts = IF image.liveAccount THEN edition.liveUsers ELSE {},
       !.greeter  = edition.greeter,
       !.masked   = image.masked,
       !.live     = image.live,
       !.grubModules = IF image.grub = "tree" THEN "image" ELSE "none",
       !.signed      = IF image.grub = "tree" THEN "image" ELSE "none"]

\* kernel and live initrd from beside the tree, with names for version v.
CopyLive(t, v) ==
    [t EXCEPT !.kernels = @ \cup {v}, !.initrd[v] = "live"]

-----------------------------------------------------------------------------
(* Steps on the tree.                                                      *)

WriteFstab(t) == [t EXCEPT !.fstab = DiskOf(edition.family)]

DeleteUsers(t) == [t EXCEPT !.accounts = @ \ edition.liveUsers]

AddUser(t) == [t EXCEPT !.accounts = @ \cup {user}]

\* default.target, display-manager.service; a mask below /etc is removed.
SetGraphicalTarget(t) == [t EXCEPT !.graphical = TRUE, !.masked = FALSE]

\* Mutant: the live accounts are deleted last.
CommonFilesDeleteLast(t) ==
    DeleteUsers(SetGraphicalTarget(AddUser(WriteFstab(t))))

\* The command line of the live session leaves /etc/default/grub.
WriteGrubDefault(t) == [t EXCEPT !.live = @ \ {"cmdline"}]

CommonFiles(t) == SetGraphicalTarget(AddUser(DeleteUsers(WriteFstab(t))))

\* An unlink that fails is passed over.
Strip(t, what, kept) == [t EXCEPT !.live = (@ \ what) \cup (@ \cap kept)]

HasKernelFile(t) ==
    \/ t.kernels # {}
    \/ \E n \in Names : t.initrd[n] # "none"
    \/ t.entries # {}

\* The versions that have a kernel and an initrd of their own.
Paired(t) == {v \in t.kernels : t.initrd[v] # "none"}

\* Shim below EFI/BOOT and EFI/<id>, the signed GRUB below EFI/<id> only.
CopyToEsp(e, grub) == [e EXCEPT !.shim = TRUE, !.grub = grub]

WriteStub(e) == [e EXCEPT !.stub = {edition.loaderDir, "BOOT"}]

EspBootloaderOk(e) == e.shim \/ e.grub # "none"

FstabOk(t) == DiskOf(edition.family) \subseteq t.fstab

AccountOk(t) == user \in t.accounts

GreeterOk(t) == t.greeter = edition.greeter /\ ~t.masked

NoLeftoverCmdline(t) == "cmdline" \notin t.live

\* health_check of common.py, the part that every family runs.
TreeHealthy(t, e) ==
    /\ FstabOk(t)
    /\ HasKernelFile(t)
    /\ EspBootloaderOk(e)
    /\ AccountOk(t)
    /\ t.graphical
    /\ NoLeftoverCmdline(t)
    /\ GreeterOk(t)

-----------------------------------------------------------------------------
(* The attempt: install_native runs partition_disk and the driver's steps  *)
(* in order.  Every exception ends it; a retry starts again with a wiped   *)
(* disk.                                                                   *)

\* Something outside the driver's control fails and the step raises.
Raise == /\ at' = "failed"
         /\ fault' = TRUE
         /\ UNCHANGED <<edition, image, user, tree, esp>>

Step(from, to) == /\ at = from
                  /\ at' = to
                  /\ UNCHANGED <<edition, image, user>>

\* The step raises when its condition does not hold.
OrRaise(cond, to) == IF cond THEN to ELSE "failed"

OnlyTree == UNCHANGED esp
OnlyEsp  == UNCHANGED tree

\* A command of the attempt ended with ok.
Ran(ok) == fault' = (fault \/ ~ok)

PartitionDisk ==
    /\ Step("start", "partitioned")
    /\ tree' = Blank
    /\ esp' = EmptyEsp
    /\ UNCHANGED fault

\* A casper loop on the disk, or sgdisk, mkfs or mount failing.
PartitionFails ==
    /\ at = "start"
    /\ Raise

\* The customer presses Retry; the disk is as the failed attempt left it.
Retry ==
    /\ at = "failed"
    /\ at' = "start"
    /\ fault' = FALSE
    /\ UNCHANGED <<edition, image, user, tree, esp>>

\* The checksum of the plan's image says that it is one for the edition.
StartState ==
    /\ edition \in EditionDrivers
    /\ image \in {i \in Images : i.family = edition.family}
    /\ user \in {Customer} \cup edition.liveUsers
    /\ at = "start"
    /\ tree = Blank
    /\ esp = EmptyEsp
    /\ fault = FALSE
=============================================================================
