--------------------------- MODULE CachyosDriver ----------------------------
(***************************************************************************)
(* osinstall/cachyos.py: the EFI system partition is /boot, systemd-boot   *)
(* reads an entry for every kernel on it.  The versions are the kernel     *)
(* packages (linux-cachyos, linux-cachyos-lts); their kernels come from    *)
(* /usr/lib/modules, their initrds from mkinitcpio's presets.              *)
(***************************************************************************)
EXTENDS DriverTree

InCachyos == edition.family = "cachyos"

\* Each copy may fail, and is passed over.  image.kernels are here the
\* kernels next to the tree on the image.
CopyModuleKernels(t, copied) == [t EXCEPT !.kernels = @ \cup copied]

CachyosUnpack ==
    /\ InCachyos
    /\ Step("partitioned", "unpacked")
    /\ \E copied \in SUBSET (image.kernels \cup image.modules) :
          /\ tree' = CopyModuleKernels(
                        [Unpacked EXCEPT !.kernels = {}, !.initrd = NoInitrd],
                        copied)
          /\ Ran(copied = image.kernels \cup image.modules)
    /\ OnlyTree

CachyosLiveSession == {"autologin", "sudoers"}
CachyosPolkit      == {"polkit"}
CachyosLiveUnits   == {"live-units"}

CachyosStripped == CachyosLiveSession \cup CachyosPolkit \cup CachyosLiveUnits

\* locale-gen failing ends the install here, unlike in the other families.
CachyosFiles ==
    /\ InCachyos
    /\ Step("unpacked", "files")
    /\ \E kept \in SUBSET (image.live \cap CachyosStripped) :
          /\ tree' = Strip(CommonFiles(tree), CachyosStripped, kept)
          /\ Ran(kept = {})
    /\ OnlyTree

\* pacman -U with the packages of the catalog; without them, or if it fails,
\* the install ends.  Removing the NVIDIA packages and making the keyring may
\* fail.
InstallStagedPackages ==
    /\ InCachyos
    /\ Step("files", OrRaise(image.pool # {}, "packages"))
    /\ \E ok \in BOOLEAN : Ran(ok)
    /\ UNCHANGED <<tree, esp>>

\* write_mkinitcpio_conf rewrites the archiso hooks.
WriteMkinitcpioConf(t) == Strip(t, {"archiso"}, {})

\* Every preset is run; one that succeeds is enough.
MkinitcpioPresets ==
    /\ InCachyos
    /\ \E copied \in SUBSET tree.modules, done \in SUBSET tree.modules :
          /\ Step("packages", OrRaise(done # {}, "configured"))
          /\ done \subseteq tree.kernels \cup copied
          /\ tree' = [CopyModuleKernels(WriteMkinitcpioConf(tree), copied)
                        EXCEPT !.initrd = [n \in Names |->
                                 IF n \in done THEN "disk" ELSE @[n]]]
          /\ Ran(copied = tree.modules /\ done = tree.modules)
    /\ OnlyTree

CachyosConfigureFails ==
    /\ InCachyos
    /\ at \in {"unpacked", "files", "packages"}
    /\ Raise

\* An entry for each kernel: its own initrd, else one that is there.
LoaderInitrds(t, k) ==
    IF t.initrd[k] # "none" THEN {k}
    ELSE {n \in Names : t.initrd[n] # "none"}

LoaderEntries(t) == UNION {{k} \X LoaderInitrds(t, k) : k \in t.kernels}

\* copy_module_kernels once more, systemd-boot from the tree, bootctl if the
\* tree has it, and the entries.
CachyosEsp ==
    /\ InCachyos
    /\ Step("configured", OrRaise(image.grub # "none", "bootable"))
    /\ \E copied \in SUBSET tree.modules, ok \in BOOLEAN :
          LET t == CopyModuleKernels(tree, copied) IN
          /\ tree' = [t EXCEPT !.menu = LoaderEntries(t), !.menuBy = "driver"]
          /\ esp' = [CopyToEsp(esp, "image") EXCEPT !.entries = t.kernels]
          /\ Ran(ok /\ copied = tree.modules)

CachyosHealthy ==
    /\ TreeHealthy(tree, esp)
    /\ "home" \in tree.fstab
    /\ tree.live \cap {"archiso", "sudoers", "polkit"} = {}
    /\ esp.entries # {}

CachyosCheck ==
    /\ InCachyos
    /\ Step("bootable", IF CachyosHealthy THEN "healthy" ELSE "failed")
    /\ UNCHANGED <<tree, esp, fault>>

CachyosRaises ==
    /\ InCachyos
    /\ at \in {"partitioned", "configured"}
    /\ Raise

CachyosNext ==
    \/ CachyosUnpack \/ CachyosFiles \/ InstallStagedPackages
    \/ MkinitcpioPresets \/ CachyosConfigureFails \/ CachyosEsp
    \/ CachyosCheck \/ CachyosRaises
=============================================================================
