---------------------------- MODULE DebianDriver ----------------------------
(***************************************************************************)
(* osinstall/debian.py: the live squashfs has no grub-install; the menu is *)
(* written by the driver and the signed binaries come out of the packages  *)
(* on the image.                                                           *)
(***************************************************************************)
EXTENDS DriverTree

InDebian == edition.family = "debian"

CopyLiveKernelDebian(t) ==
    IF image.beside /\ t.kernels = {} THEN CopyLive(t, Plain) ELSE t

DebianUnpack ==
    /\ InDebian
    /\ Step("partitioned", "unpacked")
    /\ tree' = CopyLiveKernelDebian(Unpacked)
    /\ OnlyTree /\ UNCHANGED fault

DebianAutologin == {"autologin"}
DebianLiveUnits == {"live-units"}
DebianSudoers   == {"sudoers"}
AptSources      == {"sources"}

DebianStripped == DebianAutologin \cup DebianLiveUnits \cup DebianSudoers
                  \cup AptSources

DebianFiles ==
    /\ InDebian
    /\ Step("unpacked", "files")
    /\ \E kept \in SUBSET (image.live \cap DebianStripped) :
          /\ tree' = Strip(WriteGrubDefault(CommonFiles(tree)),
                           DebianStripped, kept)
          /\ Ran(kept = {})
    /\ OnlyTree

DebianPurge ==
    /\ InDebian
    /\ Step("files", "purged")
    /\ \E ok \in BOOLEAN :
          /\ tree' = Strip(tree, IF ok THEN {"packages"} ELSE {}, {})
          /\ Ran(ok)
    /\ OnlyTree

\* update-initramfs -u: what it does not get to keeps the initrd it has, and a
\* kernel without an initrd gets none.
DebianInitrd ==
    /\ InDebian
    /\ Step("purged", "configured")
    /\ \E done \in SUBSET (Paired(tree) \cap Versions) :
          /\ tree' = [tree EXCEPT !.initrd = [n \in Names |->
                        IF n \in done THEN "disk" ELSE @[n]]]
          /\ Ran(done = Paired(tree) \cap Versions)
    /\ OnlyTree

DebianGrubFiles ==
    /\ InDebian
    /\ Step("configured", "grub files")
    /\ \E ok \in BOOLEAN :
          /\ tree' = [tree EXCEPT
                !.signed = IF image.grub = "image" /\ ok THEN "image" ELSE @,
                !.grubModules = IF @ = "none" /\ image.grub = "image"
                                THEN "image" ELSE @]
          /\ Ran(ok)
    /\ OnlyTree

\* The last version, its initrd or else the unversioned one; update-grub's
\* menu, where the tree has the program, is written over.
WriteDebianGrubCfg ==
    /\ InDebian
    /\ Step("grub files", "menu")
    /\ LET v == Max(tree.kernels \cup {Plain})
           i == IF tree.initrd[v] = "none" THEN Plain ELSE v
       IN  tree' = [tree EXCEPT
             !.menu = {<<v, IF tree.initrd[i] = "none" THEN v ELSE i>>},
             !.menuBy = "driver"]
    /\ \E ok \in BOOLEAN : Ran(ok)
    /\ OnlyTree

\* The shim may come from the image's own EFI directory, GRUB never does.
DebianEsp ==
    /\ InDebian
    /\ Step("menu", OrRaise(tree.signed # "none", "bootable"))
    /\ esp' = WriteStub(CopyToEsp(esp, tree.signed))
    /\ OnlyEsp /\ UNCHANGED fault

DebianCheck ==
    /\ InDebian
    /\ Step("bootable", IF TreeHealthy(tree, esp) THEN "healthy" ELSE "failed")
    /\ UNCHANGED <<tree, esp, fault>>

DebianRaises ==
    /\ InDebian
    /\ at \in {"partitioned", "unpacked", "configured", "menu"}
    /\ Raise

DebianNext ==
    \/ DebianUnpack \/ DebianFiles \/ DebianPurge \/ DebianInitrd
    \/ DebianGrubFiles \/ WriteDebianGrubCfg \/ DebianEsp \/ DebianCheck
    \/ DebianRaises
=============================================================================
