---------------------------- MODULE FedoraDriver ----------------------------
(***************************************************************************)
(* osinstall/fedora.py: /boot of its own, btrfs, a boot entry and a GRUB   *)
(* menu that the driver writes itself, and the SELinux relabel of the      *)
(* first boot.                                                             *)
(***************************************************************************)
EXTENDS DriverTree

InFedora == edition.family = "fedora"

\* The version that every step below works on: the last one with modules,
\* else one with a kernel in /boot.
VmlinuzVersion(t) ==
    IF t.modules # {} THEN Max(t.modules)
    ELSE IF t.kernels \cap Versions # {} THEN Min(t.kernels \cap Versions)
    ELSE Plain

CopyLiveKernel(t) ==
    IF HasKernelFile(t) \/ ~image.beside THEN t
    ELSE CopyLive(t, IF t.modules # {} THEN VmlinuzVersion(t) ELSE Plain)

FedoraUnpack ==
    /\ InFedora
    /\ Step("partitioned", "unpacked")
    /\ tree' = CopyLiveKernel(Unpacked)
    /\ OnlyTree /\ UNCHANGED fault

\* The kernel and the initrd that an entry names: the version's own, else the
\* unversioned one when it is there.
KernelPath(t) ==
    LET v == VmlinuzVersion(t)
    IN  IF v \notin t.kernels /\ Plain \in t.kernels THEN Plain ELSE v

InitrdPath(t) ==
    LET v == VmlinuzVersion(t)
    IN  IF t.initrd[v] = "none" /\ t.initrd[Plain] # "none" THEN Plain
        ELSE v

\* Written only when the kernel exists; it replaces every other entry.
WriteBlsEntry(t) ==
    IF KernelPath(t) \notin t.kernels THEN t
    ELSE [t EXCEPT !.entries = {<<KernelPath(t), InitrdPath(t)>>}]

WriteGrub2Cfg(t) ==
    [t EXCEPT !.menu = {<<KernelPath(t), InitrdPath(t)>>}, !.menuBy = "driver"]

FedoraAutologin   == {"autologin"}
FedoraLiveSession == {"livesys"}
FedoraLiveUnits   == {"live-units"}
LiveDracutConf    == {"live-dracut"}

FedoraStripped == FedoraAutologin \cup FedoraLiveSession \cup FedoraLiveUnits
                  \cup LiveDracutConf

FedoraFiles ==
    /\ InFedora
    /\ Step("unpacked", "files")
    /\ \E kept \in SUBSET (image.live \cap FedoraStripped) :
          /\ tree' = Strip(WriteGrub2Cfg(WriteBlsEntry(
                              WriteGrubDefault(CommonFiles(tree)))),
                           FedoraStripped, kept)
          /\ Ran(kept = {})
    /\ OnlyTree

\* kernel-install copies the kernel of the modules and adds an entry for it.
KernelInstall ==
    /\ InFedora
    /\ Step("files", OrRaise(VmlinuzVersion(tree) # Plain, "kernel"))
    /\ \E ok \in BOOLEAN :
          LET v == VmlinuzVersion(tree) IN
          /\ tree' = IF ok THEN [tree EXCEPT !.kernels = @ \cup {v},
                                             !.entries = @ \cup {<<v, v>>}]
                           ELSE tree
          /\ Ran(ok)
    /\ OnlyTree

\* dracut leaves the live modules out; with a live configuration that could
\* not be removed it may take some of them in all the same.
Dracut ==
    /\ InFedora
    /\ Step("kernel", "initrd")
    /\ \E made \in {"disk"} \cup (tree.live \cap {"live-dracut"}) :
          tree' = [tree EXCEPT !.initrd[VmlinuzVersion(tree)] =
                     IF made = "disk" THEN "disk" ELSE "live"]
    /\ OnlyTree /\ UNCHANGED fault

\* initramfs_contains_live reads the first of the files that exists.
InitramfsContainsLive(t) ==
    \/ t.initrd[VmlinuzVersion(t)] = "live"
    \/ t.initrd[VmlinuzVersion(t)] = "none" /\ t.initrd[Plain] = "live"

\* grub2-mkconfig writes a menu of its own, and configure writes over it.
FedoraConfigured ==
    /\ InFedora
    /\ Step("initrd", OrRaise(~InitramfsContainsLive(tree), "configured"))
    /\ \E ok \in BOOLEAN :
          /\ tree' = [WriteGrub2Cfg(WriteBlsEntry(tree)) EXCEPT
                        !.relabel = TRUE]
          /\ Ran(ok)
    /\ OnlyTree

\* grub2-install and grub2-mkconfig, whose menu is one of blscfg.
Grub2Tools ==
    /\ InFedora
    /\ Step("configured", "grub files")
    /\ \E ok \in BOOLEAN :
          /\ tree' = IF ok THEN [tree EXCEPT !.menuBy = "blscfg"] ELSE tree
          /\ Ran(ok)
    /\ OnlyTree

\* Mutant: the menu that grub2-mkconfig wrote is kept.
FedoraEspKeepsMenu ==
    /\ InFedora
    /\ Step("grub files", OrRaise(image.grub # "none", "bootable"))
    /\ esp' = WriteStub(CopyToEsp(esp, "image"))
    /\ UNCHANGED <<tree, fault>>

\* Fedora's own shim and GRUB, from the image or from the tree.
FedoraEsp ==
    /\ InFedora
    /\ Step("grub files", OrRaise(image.grub # "none", "bootable"))
    /\ tree' = WriteGrub2Cfg(WriteBlsEntry(tree))
    /\ esp' = WriteStub(CopyToEsp(esp, "image"))
    /\ UNCHANGED fault

FedoraHealthy ==
    /\ TreeHealthy(tree, esp)
    /\ tree.menuBy = "blscfg" \/ tree.menu # {}
    /\ tree.entries # {}
    /\ ~InitramfsContainsLive(tree)
    /\ tree.relabel

FedoraCheck ==
    /\ InFedora
    /\ Step("bootable", IF FedoraHealthy THEN "healthy" ELSE "failed")
    /\ UNCHANGED <<tree, esp, fault>>

\* A file that cannot be written, dracut failing.
FedoraRaises ==
    /\ InFedora
    /\ at \in {"partitioned", "unpacked", "kernel", "configured", "grub files"}
    /\ Raise

FedoraNext ==
    \/ FedoraUnpack \/ FedoraFiles \/ KernelInstall \/ Dracut
    \/ FedoraConfigured \/ Grub2Tools \/ FedoraEsp \/ FedoraCheck
    \/ FedoraRaises
=============================================================================
