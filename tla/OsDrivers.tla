----------------------------- MODULE OsDrivers ------------------------------
(***************************************************************************)
(* One attempt after another to install some edition on the target:        *)
(* install_native calls partition_disk, unpack, configure, bootloader and  *)
(* health_check of the plan's driver.  "healthy" is where it goes on to    *)
(* register the system with the firmware and tells the customer that the   *)
(* install is done.                                                        *)
(***************************************************************************)
EXTENDS CasperDriver, FedoraDriver, DebianDriver, CachyosDriver

Init == StartState

Next == PartitionDisk \/ PartitionFails \/ Retry
        \/ CasperNext \/ FedoraNext \/ DebianNext \/ CachyosNext

Spec == Init /\ [][Next]_vars

-----------------------------------------------------------------------------
Places == {"start", "partitioned", "unpacked", "files", "kernel", "purged",
           "packages", "initrd", "configured", "grub files", "menu",
           "bootable", "healthy", "failed"}

\* Every variable stays in the set that the comments of DriverTree give it.
TypeOK ==
    /\ edition \in EditionDrivers
    /\ image.family = edition.family
    /\ user \in {Customer} \cup edition.liveUsers
    /\ at \in Places
    /\ fault \in BOOLEAN
    /\ tree.kernels \subseteq Names
    /\ tree.initrd \in [Names -> {"none", "live", "disk"}]
    /\ tree.fstab \subseteq {"root", "esp", "boot", "home"}
    /\ tree.live \subseteq image.live
    /\ tree.menu \subseteq Names \X Names
    /\ tree.entries \subseteq Names \X Names
    /\ esp.grub \in {"none", "image", "host"}
    /\ esp.entries \subseteq tree.kernels

\* The directory that the signed GRUB of the family reads its grub.cfg from.
SignerDir(family) == IF family = "casper" THEN "ubuntu" ELSE family

\* Whatever failed on the way: a tree that the health check accepts has a
\* loader on its EFI partition, with its configuration where that signed loader
\* looks for it, and mounts what partition_disk made; the customer has an
\* account, and no live account is left unless the customer took its name.
HealthyStarts ==
    at = "healthy" =>
        /\ esp.shim /\ esp.grub # "none"
        /\ IF InCachyos THEN esp.entries # {}
           ELSE SignerDir(edition.family) \in esp.stub
        /\ tree.fstab = DiskOf(edition.family)
        /\ user \in tree.accounts
        /\ tree.accounts \cap edition.liveUsers \subseteq {user}

\* Whatever failed on the way: a tree that the health check accepts has a
\* kernel with an initrd that goes with it.  For Fedora it is the one of the
\* driver's own menu (blscfg stays on a black screen), made for the disk, with
\* the relabel queued; for CachyOS one entry starts a kernel with its own
\* initrd made for the disk.  (Debian's check looks for no initrd.)
HealthyPair ==
    at = "healthy" =>
        /\ InCasper => Paired(tree) \cap Versions # {}
        /\ InFedora => /\ tree.menuBy = "driver"
                       /\ tree.menu # {}
                       /\ \A e \in tree.menu : /\ e[1] \in tree.kernels
                                               /\ tree.initrd[e[2]] = "disk"
                       /\ tree.relabel
        /\ InCachyos => \E e \in tree.menu : /\ e[1] = e[2]
                                             /\ tree.initrd[e[1]] = "disk"

\* What the strip functions and package lists of a family's driver look for.
LeftBy(family) ==
    CASE family = "casper"  -> CasperStripped \cup {"packages", "cmdline"}
      [] family = "fedora"  -> FedoraStripped \cup {"cmdline"}
      [] family = "debian"  -> DebianStripped \cup {"packages", "cmdline"}
      [] family = "cachyos" -> CachyosStripped \cup {"archiso"}

\* The images that the drivers' comments describe.
GoodImage ==
    /\ image.live \subseteq LeftBy(edition.family)
    /\ image.grub # "none"
    /\ image.initrds \in {{}, image.kernels}
    /\ InCasper => /\ image.kernels # {} \/ (edition.poolKernel /\ image.pool # {})
                   /\ image.builder \in {"update-initramfs", "dracut"}
    /\ InFedora => image.modules # {} \/ image.kernels # {}
    /\ InDebian => IF image.kernels = {} THEN image.beside ELSE image.initrds # {}
    /\ InCachyos => image.modules # {} /\ image.pool # {}

\* As long as nothing fails, no step of any edition refuses such an image and
\* the health check accepts the tree; every entry of its menu has a kernel and
\* an initrd (made for the disk, but for Debian's unversioned one), GRUB's
\* modules and its signed binary come from the same release, and nothing of the
\* live session is left.
CleanRun ==
    ~fault /\ GoodImage =>
        /\ at # "failed"
        /\ at = "healthy" =>
             /\ tree.menu # {}
             /\ \A e \in tree.menu :
                   /\ e[1] \in tree.kernels
                   /\ tree.initrd[e[2]] \in
                        IF InDebian THEN {"disk", "live"} ELSE {"disk"}
             /\ InCasper => esp.grub = tree.grubModules
             /\ tree.live = {}

\* casper.py:36: "Do not overlay First Boot's 26.04 grubx64.efi.signed onto
\* 24.04 modules".
GrubMatchesModules ==
    at = "healthy" /\ edition.series = "24.04" =>
        ~(esp.grub = "host" /\ tree.grubModules = "image")
=============================================================================
