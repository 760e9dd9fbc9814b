---------------------------- MODULE CasperDriver ----------------------------
(***************************************************************************)
(* osinstall/casper.py: Ubuntu and Mint.  The layers are unpacked, the     *)
(* live session is taken out, an initrd for the disk is built, GRUB is     *)
(* written with Canonical's signed binaries.                               *)
(***************************************************************************)
EXTENDS DriverTree

InCasper == edition.family = "casper"

\* Versions without the unversioned vmlinuz, which GRUB's 10_linux skips.
KernelVersions(t) == t.kernels \ {Plain}

InstalledKernelOk(t) == Paired(t) \cap Versions # {}

CopyCasperKernel(t) ==
    IF edition.liveKernel /\ image.beside /\ KernelVersions(t) = {}
    THEN CopyLive(t, Plain) ELSE t

CasperUnpack ==
    /\ InCasper
    /\ Step("partitioned", "unpacked")
    /\ tree' = CopyCasperKernel(Unpacked)
    /\ OnlyTree /\ UNCHANGED fault

\* What the strip functions unlink.  The installer's files go with the live
\* sessions, its packages only with dpkg.
CasperHooks     == {"casperize"}
Overlayroot     == {"overlayroot"}
CasperAutologin == {"autologin"}
InstallerSnaps  == {"snap"}
LiveSessions    == {"installer", "session"}

CasperStripped == CasperHooks \cup Overlayroot \cup CasperAutologin
                  \cup InstallerSnaps \cup LiveSessions

\* The files that configure_casper edits before it enters the chroot.
CasperFiles ==
    /\ InCasper
    /\ Step("unpacked", "files")
    /\ \E kept \in SUBSET (image.live \cap CasperStripped) :
          /\ tree' = Strip(WriteGrubDefault(CommonFiles(tree)),
                           CasperStripped, kept)
          /\ Ran(kept = {})
    /\ OnlyTree

\* dpkg -i may fail and still leave a kernel, with its initrd or without;
\* no kernel ends the install.
InstallKernelFromIso ==
    /\ InCasper
    /\ IF ~edition.poolKernel \/ KernelVersions(tree) # {}
       THEN Step("files", "kernel") /\ UNCHANGED <<tree, fault>>
       ELSE \E ok \in BOOLEAN, got \in {{}, image.pool},
               built \in {"none", "disk"} :
               /\ ok => got = image.pool /\ (built = "disk" \/ image.builder = "none")
               /\ Step("files", OrRaise(got # {}, "kernel"))
               /\ tree' = [tree EXCEPT
                             !.kernels = @ \cup got,
                             !.initrd = [n \in Names |->
                                 IF n \in got THEN built ELSE @[n]]]
               /\ Ran(ok)
    /\ OnlyTree

\* dpkg --purge, once more with --force-depends, and on if both fail; then
\* the hooks and the sessions are stripped a second time.
PurgeLivePackages ==
    /\ InCasper
    /\ Step("kernel", "purged")
    /\ \E ok \in BOOLEAN,
          kept \in SUBSET (tree.live \cap (CasperHooks \cup LiveSessions)) :
          /\ tree' = Strip(Strip(tree, IF ok THEN {"packages"} ELSE {}, {}),
                           CasperHooks \cup LiveSessions, kept)
          /\ Ran(ok /\ kept = {})
    /\ OnlyTree

\* An initrd built while casper's hooks are in place boots the live overlay.
BuiltAs(t) == IF CasperHooks \cap t.live # {} THEN "live" ELSE "disk"

\* update-initramfs over the versions in todo; done are those it finished.
UpdateInitramfs(t, todo, done) ==
    [t EXCEPT !.initrd = [n \in Names |->
        IF n \in todo \cap done THEN BuiltAs(t) ELSE @[n]]]

\* -u refreshes the initrds that exist; -c makes them where there is none.
CasperInitrd ==
    /\ InCasper
    /\ \E done \in SUBSET KernelVersions(tree) :
          LET all == KernelVersions(tree)
              one == UpdateInitramfs(tree, Paired(tree), done)
              two == IF InstalledKernelOk(one) THEN one
                     ELSE UpdateInitramfs(tree, all, done)
          IN  /\ tree' = CASE image.builder = "update-initramfs" -> two
                           [] image.builder = "dracut" ->
                                UpdateInitramfs(tree, all, done)
                           [] OTHER -> tree
              /\ Step("purged", OrRaise(InstalledKernelOk(tree'), "configured"))
              /\ Ran(done = all)
    /\ OnlyTree

-----------------------------------------------------------------------------
(* install_casper_bootloader.                                              *)

\* The tree's modules, else the image's, else those of First Boot itself.
EnsureGrubModules(t) ==
    IF t.grubModules # "none" THEN t
    ELSE [t EXCEPT !.grubModules =
            IF image.grub = "image" THEN "image" ELSE "host"]

\* dpkg-deb -x of the packages on the image; a package that fails is skipped.
ExtractSignedEfi(t, ok) ==
    IF t.signed = "none" /\ image.grub = "image" /\ ok
    THEN [t EXCEPT !.signed = "image"] ELSE t

CasperGrubFiles ==
    /\ InCasper
    /\ Step("configured", "grub files")
    /\ \E ok \in BOOLEAN :
          /\ tree' = ExtractSignedEfi(EnsureGrubModules(tree), ok)
          /\ Ran(ok)
    /\ OnlyTree

\* update-grub lists the versioned kernels, each with the initrd it has.
UpdateGrub ==
    /\ InCasper
    /\ Step("grub files", "menu")
    /\ \E ok \in BOOLEAN :
          /\ tree' = IF ok THEN [tree EXCEPT
                                   !.menu = {<<v, v>> : v \in KernelVersions(tree)},
                                   !.menuBy = "update-grub"]
                           ELSE tree
          /\ Ran(ok)
    /\ OnlyTree

\* The tree's signed pair, else the one that First Boot carries.
SignedEfi(t) == IF t.signed # "none" THEN t.signed ELSE "host"

CasperEsp ==
    /\ InCasper
    /\ Step("menu", "bootable")
    /\ esp' = WriteStub(CopyToEsp(esp, SignedEfi(tree)))
    /\ OnlyEsp /\ UNCHANGED fault

CasperLeftovers(t) == t.live \cap {"casperize", "overlayroot", "installer",
                                   "session", "snap"}

CasperHealthy ==
    /\ TreeHealthy(tree, esp)
    /\ InstalledKernelOk(tree)
    /\ CasperLeftovers(tree) = {}

CasperCheck ==
    /\ InCasper
    /\ Step("bootable", IF CasperHealthy THEN "healthy" ELSE "failed")
    /\ UNCHANGED <<tree, esp, fault>>

\* A file that cannot be written, an image that cannot be read.
CasperRaises ==
    /\ InCasper
    /\ at \in {"partitioned", "unpacked", "configured", "menu"}
    /\ Raise

CasperNext ==
    \/ CasperUnpack \/ CasperFiles \/ InstallKernelFromIso
    \/ PurgeLivePackages \/ CasperInitrd \/ CasperGrubFiles \/ UpdateGrub
    \/ CasperEsp \/ CasperCheck \/ CasperRaises
=============================================================================
