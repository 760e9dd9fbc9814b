---------------------------- MODULE DriverProofs ----------------------------
(***************************************************************************)
(* For any kernel versions and any images of the shape that the drivers    *)
(* meet, whatever commands fail and however often the customer retries:    *)
(* what a tree has that the health check of its family accepts.            *)
(***************************************************************************)
EXTENDS OsDrivers, WellFoundedInduction, TLAPS

Families == {"casper", "fedora", "debian", "cachyos"}
Greeters == {"gdm", "sddm", "lightdm", "plasmalogin"}
LiveUsers == {"ubuntu", "kubuntu", "mint", "liveuser", "user", "cachyos"}
LoaderDirs == {"ubuntu", "fedora", "debian", "cachyos"}

EditionShape ==
    [family : Families, liveKernel : BOOLEAN, poolKernel : BOOLEAN,
     greeter : Greeters, liveUsers : SUBSET LiveUsers,
     loaderDir : LoaderDirs, series : {"26.04", "24.04"} \cup Families]

TreeShape ==
    [kernels : SUBSET Names, initrd : [Names -> {"none", "live", "disk"}],
     modules : SUBSET Versions, fstab : SUBSET FedoraDisk,
     accounts : SUBSET (LiveUsers \cup {Customer}),
     greeter : Greeters \cup {"none"}, masked : BOOLEAN, graphical : BOOLEAN,
     live : SUBSET LiveThings, grubModules : {"none", "image", "host"},
     signed : {"none", "image"}, menu : SUBSET (Names \X Names),
     menuBy : {"nobody", "update-grub", "driver", "blscfg"},
     entries : SUBSET (Names \X Names), relabel : BOOLEAN]

EspShape ==
    [shim : BOOLEAN, grub : {"none", "image", "host"},
     stub : SUBSET (LoaderDirs \cup {"BOOT"}), entries : SUBSET Names]

\* Where the attempt is once configure has written its first files, and where
\* it is once the loader is on the EFI partition.
FilesWritten == {"files", "kernel", "purged", "packages", "initrd",
                 "configured", "grub files", "menu", "bootable", "healthy"}
LoaderWritten == {"bootable", "healthy"}

\* Each variable has its shape, and the plan is one.
Shapes ==
    /\ edition \in EditionDrivers /\ edition \in EditionShape
    /\ edition.loaderDir = SignerDir(edition.family)
    /\ image \in ImageShape /\ image.family = edition.family
    /\ user \in {Customer} \cup edition.liveUsers
    /\ at \in Places
    /\ fault \in BOOLEAN
    /\ tree \in TreeShape
    /\ esp \in EspShape
    /\ tree.live \subseteq image.live

\* The disk is empty before unpack; nothing has written to the EFI partition
\* before bootloader, nor an entry before configure.
EmptyInv ==
    /\ at = "partitioned" => tree = Blank /\ esp = EmptyEsp
    /\ at = "unpacked" => tree.entries = {}
    /\ esp.entries \subseteq tree.kernels

\* The accounts and the fstab are there with the first files, and the loader
\* with its configuration with the last; no later step takes them away.
StartInv ==
    /\ at \in FilesWritten =>
          /\ tree.fstab = DiskOf(edition.family)
          /\ user \in tree.accounts
          /\ tree.accounts \cap edition.liveUsers \subseteq {user}
    /\ at \in LoaderWritten =>
          /\ esp.shim /\ esp.grub # "none"
          /\ ~InCachyos => edition.loaderDir \in esp.stub
    /\ at = "healthy" /\ InCachyos => esp.entries # {}

CasperInv == InCasper /\ at = "healthy" => InstalledKernelOk(tree)

\* An entry was only written for a kernel that is there.  Once dracut has run,
\* the version that every step works on has an initrd of its own; configure
\* goes on only when it is one for the disk; and bootloader's last step writes
\* the menu over what grub2-mkconfig made.
FedoraInv == InFedora =>
    /\ at \in FilesWritten /\ tree.entries # {} =>
          KernelPath(tree) \in tree.kernels
    /\ at \in FilesWritten \ {"files", "kernel"} =>
          tree.initrd[VmlinuzVersion(tree)] # "none"
    /\ at \in {"configured", "grub files"} \cup LoaderWritten =>
          tree.initrd[VmlinuzVersion(tree)] = "disk"
    /\ at \in LoaderWritten =>
          /\ tree.menu = {<<KernelPath(tree), InitrdPath(tree)>>}
          /\ tree.menuBy = "driver"
    /\ at = "healthy" => tree.entries # {} /\ tree.relabel

\* One preset has succeeded, and the entries pair its kernel with its initrd.
CachyosInv == InCachyos =>
    /\ at \in {"configured"} \cup LoaderWritten =>
          \E v \in tree.kernels : tree.initrd[v] = "disk"
    /\ at \in LoaderWritten => tree.menu = LoaderEntries(tree)

SafeInv == Shapes /\ EmptyInv /\ StartInv /\ CasperInv /\ FedoraInv /\ CachyosInv
-----------------------------------------------------------------------------
(* Editions, versions.                                                     *)

LEMMA EditionFacts ==
    \A e \in EditionDrivers :
       e \in EditionShape /\ e.loaderDir = SignerDir(e.family)
<1>. DEFINE Ok(e) == e \in EditionShape /\ e.loaderDir = SignerDir(e.family)
<1>. USE DEF EditionShape, Families, Greeters, LiveUsers, LoaderDirs, SignerDir
<1>1. \A dm \in Greeters, name \in LiveUsers : Ok(CasperEdition(dm, name))
  BY DEF CasperEdition
<1>2. \A dm \in Greeters, name \in LiveUsers : Ok(LayeredEdition(dm, name))
  BY DEF LayeredEdition, CasperEdition
<1>3. Ok(MintEdition) /\ Ok(Ubuntu2404Mate)
  BY DEF MintEdition, Ubuntu2404Mate, LayeredEdition, CasperEdition
<1>4. \A family \in {"fedora", "debian", "cachyos"}, dm \in Greeters,
         names \in SUBSET LiveUsers : Ok(OtherEdition(family, dm, names))
  BY DEF OtherEdition
<1>. HIDE DEF Ok
<1>5. \A e \in {Ubuntu2604Gnome, Ubuntu2604Plasma, Ubuntu2604Budgie,
                Ubuntu2604Cinnamon, Ubuntu2404Mate, Mint223Cinnamon,
                Mint223Mate, Mint223Xfce} : Ok(e)
  BY <1>1, <1>2, <1>3
     DEF Ubuntu2604Gnome, Ubuntu2604Plasma, Ubuntu2604Budgie,
         Ubuntu2604Cinnamon, Mint223Cinnamon, Mint223Mate, Mint223Xfce
<1>6. \A e \in {Fedora44Gnome, Fedora44Plasma, Debian13Cinnamon,
                Debian13Gnome, Debian13Mate, Debian13Plasma,
                CachyOS260809Plasma} : Ok(e)
  BY <1>4
     DEF Fedora44Gnome, Fedora44Plasma, Debian13Cinnamon, Debian13Gnome,
         Debian13Mate, Debian13Plasma, CachyOS260809Plasma
<1>. QED  BY <1>5, <1>6 DEF EditionDrivers, Ok

LEMMA VersionFacts ==
    /\ Versions \subseteq Nat /\ Plain \notin Versions
    /\ \E newest \in Nat : \A n \in Names : n \in Nat /\ n <= newest
  BY VersionsAssumption DEF Plain, Names

\* A set of versions has a first and a last one (VmlinuzVersion, the menu of
\* Debian's driver).
LEMMA LastVersion == ASSUME NEW S \in SUBSET Names, S # {}
                     PROVE  Max(S) \in S /\ \A x \in S : x <= Max(S)
<1>. DEFINE Bounds == {b \in Nat : \A x \in S : x <= b}
<1>1. S \subseteq Nat /\ Bounds # {}
  BY VersionFacts
<1>2. PICK b \in Bounds : \A c \in Bounds : ~(c < b)
  <2>1. PICK b \in Bounds : \A c \in Bounds :
                               ~(<<c, b>> \in OpToRel(<, Nat))
    <3>. HIDE DEF Bounds
    <3>. QED  BY <1>1, NatLessThanWellFounded, WFMin DEF Bounds
  <2>. QED  BY <2>1 DEF OpToRel
<1>3. b \in S
  <2>1. SUFFICES ASSUME b \notin S PROVE FALSE
    OBVIOUS
  <2>2. \A x \in S : x < b
    BY <1>1, <2>1
  <2>3. b > 0 /\ b \in Nat
    <3>1. PICK x \in S : x \in Nat /\ x < b
      BY <1>1, <2>2
    <3>2. b \in Nat
      OBVIOUS
    <3>. QED  BY <3>1, <3>2
  <2>4. \A x \in S : x <= b - 1
    BY <1>1, <2>2, <2>3
  <2>5. b - 1 \in Bounds /\ b - 1 < b
    BY <2>3, <2>4
  <2>. QED  BY <1>2, <2>5
<1>4. \A x \in S : x <= b
  OBVIOUS
<1>5. \E x \in S : \A y \in S : x >= y
  BY <1>1, <1>3, <1>4
<1>. QED  BY <1>1, <1>5 DEF Max

LEMMA FirstVersion == ASSUME NEW S \in SUBSET Names, S # {}
                      PROVE  Min(S) \in S /\ \A x \in S : Min(S) <= x
<1>1. S \subseteq Nat
  BY VersionFacts
<1>2. PICK b \in S : \A c \in S : ~(c < b)
  <2>1. PICK b \in S : \A c \in S : ~(<<c, b>> \in OpToRel(<, Nat))
    BY <1>1, NatLessThanWellFounded, WFMin
  <2>. QED  BY <1>1, <2>1 DEF OpToRel
<1>3. \E x \in S : \A y \in S : x =< y
  BY <1>1, <1>2
<1>. QED  BY <1>1, <1>3 DEF Min
-----------------------------------------------------------------------------
(* What the steps on the tree leave alone, and what they make of it.       *)

SameKernels(t, u) == /\ u.kernels = t.kernels /\ u.initrd = t.initrd
                     /\ u.modules = t.modules
SameMenu(t, u)    == /\ u.entries = t.entries /\ u.menu = t.menu
                     /\ u.menuBy = t.menuBy /\ u.relabel = t.relabel
SameSystem(t, u)  == /\ u.fstab = t.fstab /\ u.accounts = t.accounts
                     /\ u.greeter = t.greeter /\ u.masked = t.masked
                     /\ u.graphical = t.graphical
SameLoader(t, u)  == u.grubModules = t.grubModules /\ u.signed = t.signed

LEMMA DiskShape == ASSUME Shapes PROVE DiskOf(edition.family) \subseteq FedoraDisk
  BY DEF Shapes, DiskOf, FedoraDisk, CommonDisk, CachyosDisk

LEMMA UserShape ==
    ASSUME Shapes
    PROVE  /\ edition.liveUsers \subseteq LiveUsers
           /\ user \in LiveUsers \cup {Customer}
  BY DEF Shapes, EditionShape

LEMMA WriteFstabTree ==
    ASSUME Shapes, NEW t \in TreeShape, NEW u, u = WriteFstab(t)
    PROVE  /\ u \in TreeShape /\ u.fstab = DiskOf(edition.family)
           /\ SameKernels(t, u) /\ SameMenu(t, u) /\ SameLoader(t, u)
           /\ u.accounts = t.accounts /\ u.greeter = t.greeter
           /\ u.masked = t.masked /\ u.graphical = t.graphical
           /\ u.live = t.live
  BY DiskShape
     DEF WriteFstab, TreeShape, SameKernels, SameMenu, SameLoader

LEMMA AccountsTree ==
    ASSUME Shapes, NEW t \in TreeShape,
           NEW u, u = AddUser(DeleteUsers(t))
    PROVE  /\ u \in TreeShape
           /\ u.accounts = (t.accounts \ edition.liveUsers) \cup {user}
           /\ SameKernels(t, u) /\ SameMenu(t, u) /\ SameLoader(t, u)
           /\ u.fstab = t.fstab /\ u.greeter = t.greeter
           /\ u.masked = t.masked /\ u.graphical = t.graphical
           /\ u.live = t.live
  BY UserShape
     DEF AddUser, DeleteUsers, TreeShape, SameKernels, SameMenu, SameLoader

LEMMA GraphicalTree ==
    ASSUME NEW t \in TreeShape, NEW u, u = SetGraphicalTarget(t)
    PROVE  /\ u \in TreeShape /\ u.graphical = TRUE /\ u.masked = FALSE
           /\ SameKernels(t, u) /\ SameMenu(t, u) /\ SameLoader(t, u)
           /\ u.fstab = t.fstab /\ u.accounts = t.accounts
           /\ u.greeter = t.greeter /\ u.live = t.live
  BY DEF SetGraphicalTarget, TreeShape, SameKernels, SameMenu, SameLoader

\* The first files of every family (write_common_files and what goes with it).
LEMMA CommonFilesTree ==
    ASSUME Shapes, NEW t \in TreeShape, NEW u, u = CommonFiles(t)
    PROVE  /\ u \in TreeShape
           /\ u.fstab = DiskOf(edition.family)
           /\ u.accounts = (t.accounts \ edition.liveUsers) \cup {user}
           /\ u.graphical = TRUE /\ u.masked = FALSE
           /\ SameKernels(t, u) /\ SameMenu(t, u) /\ SameLoader(t, u)
           /\ u.greeter = t.greeter /\ u.live = t.live
<1>. DEFINE a == WriteFstab(t)
            b == AddUser(DeleteUsers(a))
<1>1. u = SetGraphicalTarget(b)
  BY DEF CommonFiles
<1>2. /\ a \in TreeShape /\ a.fstab = DiskOf(edition.family)
      /\ SameKernels(t, a) /\ SameMenu(t, a) /\ SameLoader(t, a)
      /\ a.accounts = t.accounts /\ a.greeter = t.greeter
      /\ a.live = t.live
  BY WriteFstabTree
<1>. HIDE DEF a
<1>3. /\ b \in TreeShape
      /\ b.accounts = (a.accounts \ edition.liveUsers) \cup {user}
      /\ SameKernels(a, b) /\ SameMenu(a, b) /\ SameLoader(a, b)
      /\ b.fstab = a.fstab /\ b.greeter = a.greeter /\ b.live = a.live
  BY <1>2, AccountsTree
<1>. HIDE DEF b
<1>4. /\ u \in TreeShape /\ u.graphical = TRUE /\ u.masked = FALSE
      /\ SameKernels(b, u) /\ SameMenu(b, u) /\ SameLoader(b, u)
      /\ u.fstab = b.fstab /\ u.accounts = b.accounts
      /\ u.greeter = b.greeter /\ u.live = b.live
  BY <1>1, <1>3, GraphicalTree
<1>. QED  BY <1>2, <1>3, <1>4 DEF SameKernels, SameMenu, SameLoader

\* The strip functions and the purges touch nothing but what they take out.
LEMMA LiveTree ==
    ASSUME NEW t \in TreeShape, NEW gone, gone \subseteq t.live,
           NEW u, u = [t EXCEPT !.live = gone]
    PROVE  /\ u \in TreeShape /\ u.live = gone
           /\ SameKernels(t, u) /\ SameMenu(t, u) /\ SameSystem(t, u)
           /\ SameLoader(t, u)
  BY DEF TreeShape, SameKernels, SameMenu, SameSystem, SameLoader

LEMMA StripTree ==
    ASSUME NEW t \in TreeShape, NEW what, NEW kept, NEW u,
           u = Strip(t, what, kept)
    PROVE  /\ u \in TreeShape /\ u.live = (t.live \ what) \cup (t.live \cap kept)
           /\ SameKernels(t, u) /\ SameMenu(t, u) /\ SameSystem(t, u)
           /\ SameLoader(t, u)
  BY LiveTree DEF Strip

LEMMA GrubDefaultTree ==
    ASSUME NEW t \in TreeShape, NEW u, u = WriteGrubDefault(t)
    PROVE  /\ u \in TreeShape /\ u.live = t.live \ {"cmdline"}
           /\ SameKernels(t, u) /\ SameMenu(t, u) /\ SameSystem(t, u)
           /\ SameLoader(t, u)
  BY LiveTree DEF WriteGrubDefault

LEMMA CopyLiveTree ==
    ASSUME NEW t \in TreeShape, NEW v \in Names, NEW u, u = CopyLive(t, v)
    PROVE  /\ u \in TreeShape /\ u.kernels = t.kernels \cup {v}
           /\ u.initrd = [t.initrd EXCEPT ![v] = "live"]
           /\ u.modules = t.modules /\ u.live = t.live
           /\ SameMenu(t, u) /\ SameSystem(t, u) /\ SameLoader(t, u)
  BY DEF CopyLive, TreeShape, SameMenu, SameSystem, SameLoader

LEMMA BlankTree ==
    /\ Blank \in TreeShape /\ Blank.kernels = {} /\ Blank.entries = {}
    /\ Blank.live = {}
  BY DEF Blank, TreeShape, NoInitrd

\* The tree as unpack leaves it has the account of the live session only.
LEMMA UnpackedTree ==
    ASSUME Shapes, NEW u, u = Unpacked
    PROVE  /\ u \in TreeShape
           /\ u.kernels = image.kernels /\ u.modules = image.modules
           /\ u.initrd = [n \in Names |-> IF n \in image.initrds THEN "live"
                                                                 ELSE "none"]
           /\ u.accounts \subseteq edition.liveUsers
           /\ u.greeter = edition.greeter /\ u.live = image.live
           /\ u.grubModules = IF image.grub = "tree" THEN "image" ELSE "none"
           /\ u.signed = IF image.grub = "tree" THEN "image" ELSE "none"
           /\ u.entries = {}
<1>1. /\ image.kernels \subseteq Names /\ image.modules \subseteq Versions
      /\ image.live \subseteq LiveThings /\ image.masked \in BOOLEAN
      /\ edition.greeter \in Greeters
      /\ edition.liveUsers \subseteq LiveUsers
  BY DEF Shapes, ImageShape, EditionShape, Names
<1>. DEFINE who == IF image.liveAccount THEN edition.liveUsers ELSE {}
            has == IF image.grub = "tree" THEN "image" ELSE "none"
            made == [n \in Names |-> IF n \in image.initrds THEN "live"
                                                            ELSE "none"]
<1>2. u = [Blank EXCEPT
             !.kernels = image.kernels, !.initrd = made,
             !.modules = image.modules, !.accounts = who,
             !.greeter = edition.greeter, !.masked = image.masked,
             !.live = image.live, !.grubModules = has, !.signed = has]
  BY DEF Unpacked
<1>3. /\ made \in [Names -> {"none", "live", "disk"}]
      /\ who \subseteq edition.liveUsers /\ has \in {"none", "image"}
  OBVIOUS
<1>. HIDE DEF who, has, made
<1>. DEFINE one == [Blank EXCEPT !.kernels = image.kernels, !.initrd = made,
                                 !.modules = image.modules]
            two == [one EXCEPT !.accounts = who, !.greeter = edition.greeter,
                               !.masked = image.masked]
<1>4. u = [two EXCEPT !.live = image.live, !.grubModules = has,
                      !.signed = has]
  BY <1>2
<1>5. /\ one \in TreeShape /\ one.kernels = image.kernels
      /\ one.initrd = made /\ one.modules = image.modules
      /\ one.entries = {}
  BY <1>1, <1>3, BlankTree DEF TreeShape
<1>. HIDE DEF one
<1>6. /\ two \in TreeShape /\ SameKernels(one, two) /\ two.accounts = who
      /\ two.greeter = edition.greeter /\ two.entries = {}
  BY <1>1, <1>3, <1>5 DEF TreeShape, SameKernels
<1>. HIDE DEF two
<1>7. /\ u \in TreeShape /\ SameKernels(two, u)
      /\ u.accounts = who /\ u.greeter = edition.greeter
      /\ u.live = image.live /\ u.grubModules = has /\ u.signed = has
      /\ u.entries = {}
  BY <1>1, <1>3, <1>4, <1>6 DEF TreeShape, SameKernels
<1>. QED  BY <1>3, <1>5, <1>6, <1>7 DEF made, has, SameKernels
\* u has what configure's first files say of the system of t, and of what the
\* live session left it has what is not in gone, but for kept.
WithFiles(t, u) ==
    /\ u.fstab = DiskOf(edition.family)
    /\ u.accounts = (t.accounts \ edition.liveUsers) \cup {user}
    /\ u.graphical = TRUE /\ u.masked = FALSE /\ u.greeter = t.greeter

Without(t, u, gone, kept) == u.live = (t.live \ gone) \cup (t.live \cap kept)

LEMMA FilesTree ==
    ASSUME Shapes, NEW t \in TreeShape, NEW what, NEW kept,
           "cmdline" \notin kept, NEW u,
           u = Strip(WriteGrubDefault(CommonFiles(t)), what, kept)
    PROVE  /\ u \in TreeShape
           /\ WithFiles(t, u)
           /\ SameKernels(t, u) /\ SameMenu(t, u) /\ SameLoader(t, u)
           /\ Without(t, u, what \cup {"cmdline"}, kept)
<1>. DEFINE a == CommonFiles(t)
            b == WriteGrubDefault(a)
<1>1. /\ a \in TreeShape
      /\ a.fstab = DiskOf(edition.family)
      /\ a.accounts = (t.accounts \ edition.liveUsers) \cup {user}
      /\ a.graphical = TRUE /\ a.masked = FALSE
      /\ SameKernels(t, a) /\ SameMenu(t, a) /\ SameLoader(t, a)
      /\ a.greeter = t.greeter /\ a.live = t.live
  BY CommonFilesTree
<1>2. u = Strip(b, what, kept)
  OBVIOUS
<1>. HIDE DEF a
<1>3. /\ b \in TreeShape /\ b.live = a.live \ {"cmdline"}
      /\ SameKernels(a, b) /\ SameMenu(a, b) /\ SameSystem(a, b)
      /\ SameLoader(a, b)
  BY <1>1, GrubDefaultTree
<1>. HIDE DEF b
<1>4. /\ u \in TreeShape /\ u.live = (b.live \ what) \cup (b.live \cap kept)
      /\ SameKernels(b, u) /\ SameMenu(b, u) /\ SameSystem(b, u)
      /\ SameLoader(b, u)
  BY <1>2, <1>3, StripTree
<1>5. WithFiles(t, u)
  BY <1>1, <1>3, <1>4 DEF WithFiles, SameSystem
<1>6. Without(t, u, what \cup {"cmdline"}, kept)
  BY <1>1, <1>3, <1>4 DEF Without
<1>. QED  BY <1>1, <1>3, <1>4, <1>5, <1>6 DEF SameKernels, SameMenu, SameLoader
-----------------------------------------------------------------------------
(* The part of the invariant that all families share, by kind of step.     *)

Shared == Shapes /\ EmptyInv /\ StartInv

\* The plan of the attempt does not change.
SamePlan == edition' = edition /\ image' = image /\ user' = user

\* unpack
LEMMA UnpackShared ==
    ASSUME Shared, SamePlan, at = "partitioned", at' = "unpacked",
           tree' \in TreeShape, tree'.entries = {}, tree'.live \subseteq image.live,
           esp' = esp, fault' \in BOOLEAN
    PROVE  Shared'
<1>1. esp' = EmptyEsp /\ esp'.entries = {}
  BY DEF Shared, EmptyInv, EmptyEsp
<1>. QED  BY <1>1 DEF Shared, SamePlan, Shapes, Places, EmptyInv, StartInv,
                      FilesWritten, LoaderWritten

\* The first files of configure.
LEMMA FilesShared ==
    ASSUME Shared, SamePlan, at = "unpacked", at' = "files",
           tree' \in TreeShape, tree'.kernels = tree.kernels,
           WithFiles(tree, tree'), tree'.live \subseteq tree.live,
           esp' = esp, fault' \in BOOLEAN
    PROVE  Shared'
  BY DEF WithFiles, Shared, SamePlan, Shapes, Places, EmptyInv, StartInv, FilesWritten,
         LoaderWritten, InCachyos

\* A later step of configure, or a step of bootloader before its last.
LEMMA StepShared ==
    ASSUME Shared, SamePlan, at \in FilesWritten,
           at' \in (FilesWritten \ LoaderWritten) \cup {"failed"},
           tree' \in TreeShape, SameSystem(tree, tree'),
           tree'.live \subseteq tree.live, tree.kernels \subseteq tree'.kernels,
           esp' = esp, fault' \in BOOLEAN
    PROVE  Shared'
  BY DEF Shared, SamePlan, Shapes, Places, EmptyInv, StartInv, FilesWritten,
         LoaderWritten, InCachyos, SameSystem

\* The last step of bootloader.
LEMMA LoaderShared ==
    ASSUME Shared, SamePlan, at \in FilesWritten,
           at' \in {"bootable", "failed"},
           tree' \in TreeShape, SameSystem(tree, tree'),
           tree'.live \subseteq tree.live,
           esp' \in EspShape, esp'.entries \subseteq tree'.kernels,
           at' = "bootable" =>
              /\ esp'.shim /\ esp'.grub # "none"
              /\ ~InCachyos => edition.loaderDir \in esp'.stub,
           fault' \in BOOLEAN
    PROVE  Shared'
  BY DEF Shared, SamePlan, Shapes, Places, EmptyInv, StartInv, FilesWritten,
         LoaderWritten, InCachyos, SameSystem

\* The health check.
LEMMA CheckShared ==
    ASSUME Shared, SamePlan, at = "bootable", at' \in {"healthy", "failed"},
           UNCHANGED <<tree, esp, fault>>,
           at' = "healthy" /\ InCachyos => esp.entries # {}
    PROVE  Shared'
  BY DEF Shared, SamePlan, Shapes, Places, EmptyInv, StartInv, FilesWritten,
         LoaderWritten, InCachyos

LEMMA RaiseSafe == ASSUME SafeInv, Raise PROVE SafeInv'
  BY DEF SafeInv, Raise, Shapes, Places, EmptyInv, StartInv, CasperInv,
         FedoraInv, CachyosInv, FilesWritten, LoaderWritten, InCasper,
         InFedora, InCachyos

\* partition_disk, and what the customer and the disk do in between.
LEMMA AttemptSafe ==
    ASSUME SafeInv, PartitionDisk \/ PartitionFails \/ Retry PROVE SafeInv'
<1>. USE DEF SafeInv, Shapes, Places, EmptyInv, StartInv, CasperInv,
             FedoraInv, CachyosInv, FilesWritten, LoaderWritten, InCasper,
             InFedora, InCachyos
<1>1. CASE PartitionDisk
  <2>1. EmptyEsp \in EspShape /\ EmptyEsp.entries = {}
    BY DEF EmptyEsp, EspShape
  <2>2. /\ at' = "partitioned" /\ tree' = Blank /\ esp' = EmptyEsp
        /\ UNCHANGED <<edition, image, user, fault>>
    BY <1>1 DEF PartitionDisk, Step
  <2>. QED  BY <2>1, <2>2, BlankTree
<1>2. CASE PartitionFails
  BY <1>2, RaiseSafe DEF PartitionFails
<1>3. CASE Retry
  BY <1>3 DEF Retry
<1>. QED  BY <1>1, <1>2, <1>3

LEMMA InitSafe == Init => SafeInv
<1>. SUFFICES ASSUME Init PROVE SafeInv
  OBVIOUS
<1>1. edition \in EditionShape /\ edition.loaderDir = SignerDir(edition.family)
  BY EditionFacts DEF Init, StartState
<1>2. image \in ImageShape /\ image.family = edition.family
  BY ImagesAssumption DEF Init, StartState
<1>3. EmptyEsp \in EspShape /\ EmptyEsp.entries = {}
  BY DEF EmptyEsp, EspShape
<1>. QED  BY <1>1, <1>2, <1>3, BlankTree
             DEF Init, StartState, SafeInv, Shapes, Places, EmptyInv,
                 StartInv, CasperInv, FedoraInv, CachyosInv, FilesWritten,
                 LoaderWritten
-----------------------------------------------------------------------------
(* Ubuntu and Mint: what each step of casper.py does.                      *)

LEMMA CasperUnpackDoes ==
    ASSUME Shapes, CasperUnpack
    PROVE  /\ at = "partitioned" /\ at' = "unpacked" /\ SamePlan
           /\ esp' = esp /\ fault' = fault
           /\ tree' \in TreeShape /\ tree'.entries = {}
           /\ tree'.live = image.live /\ tree'.greeter = edition.greeter
           /\ tree'.grubModules = IF image.grub = "tree" THEN "image" ELSE "none"
           /\ tree'.signed = IF image.grub = "tree" THEN "image" ELSE "none"
           /\ KernelVersions(tree') = image.kernels
           /\ \A v \in Versions :
                 tree'.initrd[v] = IF v \in image.initrds THEN "live" ELSE "none"
<1>. DEFINE t == Unpacked
<1>1. /\ at = "partitioned" /\ at' = "unpacked" /\ SamePlan
      /\ esp' = esp /\ fault' = fault /\ tree' = CopyCasperKernel(t)
  BY DEF CasperUnpack, Step, SamePlan, OnlyTree
<1>2. /\ t \in TreeShape /\ t.kernels = image.kernels
      /\ t.initrd = [n \in Names |-> IF n \in image.initrds THEN "live"
                                                            ELSE "none"]
      /\ t.greeter = edition.greeter /\ t.live = image.live
      /\ t.grubModules = IF image.grub = "tree" THEN "image" ELSE "none"
      /\ t.signed = IF image.grub = "tree" THEN "image" ELSE "none"
      /\ t.entries = {}
  BY UnpackedTree
<1>. HIDE DEF t
<1>3. KernelVersions(t) = image.kernels /\ Plain \in Names
  BY <1>2, VersionFacts DEF KernelVersions, Shapes, ImageShape, Names
<1>4. CASE tree' = t
  BY <1>1, <1>2, <1>3, <1>4 DEF Names
<1>5. CASE tree' = CopyLive(t, Plain)
  <2>1. /\ tree' \in TreeShape /\ tree'.kernels = t.kernels \cup {Plain}
        /\ tree'.initrd = [t.initrd EXCEPT ![Plain] = "live"]
        /\ tree'.live = t.live
        /\ SameMenu(t, tree') /\ SameSystem(t, tree') /\ SameLoader(t, tree')
    BY <1>2, <1>3, <1>5, CopyLiveTree
  <2>2. KernelVersions(tree') = image.kernels
    BY <1>3, <2>1 DEF KernelVersions
  <2>3. \A v \in Versions : tree'.initrd[v] = t.initrd[v]
    BY <1>2, <2>1, VersionFacts DEF TreeShape
  <2>. QED  BY <1>1, <1>2, <2>1, <2>2, <2>3
               DEF Names, SameMenu, SameSystem, SameLoader
<1>. QED  BY <1>1, <1>4, <1>5 DEF CopyCasperKernel

LEMMA CasperFilesDoes ==
    ASSUME Shapes, CasperFiles
    PROVE  /\ at = "unpacked" /\ at' = "files" /\ SamePlan /\ esp' = esp
           /\ fault' \in BOOLEAN /\ (fault => fault')
           /\ tree' \in TreeShape
           /\ WithFiles(tree, tree')
           /\ SameKernels(tree, tree') /\ SameMenu(tree, tree')
           /\ SameLoader(tree, tree')
           /\ tree'.live \subseteq tree.live
           /\ ~fault' => tree'.live \cap (CasperStripped \cup {"cmdline"}) = {}
<1>1. /\ at = "unpacked" /\ at' = "files" /\ SamePlan /\ esp' = esp
  BY DEF CasperFiles, Step, SamePlan, OnlyTree
<1>2. PICK kept \in SUBSET (image.live \cap CasperStripped) :
         /\ tree' = Strip(WriteGrubDefault(CommonFiles(tree)),
                          CasperStripped, kept)
         /\ Ran(kept = {})
  BY DEF CasperFiles
<1>3. tree \in TreeShape /\ fault \in BOOLEAN
  BY DEF Shapes
<1>4. "cmdline" \notin kept
  BY DEF CasperStripped, CasperHooks, Overlayroot, CasperAutologin,
         InstallerSnaps, LiveSessions
<1>5. /\ tree' \in TreeShape
      /\ WithFiles(tree, tree')
      /\ SameKernels(tree, tree') /\ SameMenu(tree, tree')
      /\ SameLoader(tree, tree')
      /\ Without(tree, tree', CasperStripped \cup {"cmdline"}, kept)
  BY <1>2, <1>3, <1>4, FilesTree
<1>6. fault' \in BOOLEAN /\ (fault => fault') /\ (~fault' => kept = {})
  BY <1>2, <1>3 DEF Ran
<1>. QED  BY <1>1, <1>5, <1>6 DEF Without

LEMMA InstallKernelDoes ==
    ASSUME Shapes, InstallKernelFromIso
    PROVE  /\ at = "files" /\ at' \in {"kernel", "failed"} /\ SamePlan
           /\ esp' = esp /\ fault' \in BOOLEAN /\ (fault => fault')
           /\ tree' \in TreeShape /\ SameMenu(tree, tree')
           /\ SameSystem(tree, tree') /\ SameLoader(tree, tree')
           /\ tree'.live = tree.live /\ tree.kernels \subseteq tree'.kernels
           /\ \/ /\ ~edition.poolKernel \/ KernelVersions(tree) # {}
                 /\ at' = "kernel" /\ tree' = tree /\ fault' = fault
              \/ /\ edition.poolKernel /\ KernelVersions(tree) = {}
                 /\ ~fault' /\ image.pool # {} /\ image.builder # "none" =>
                      /\ at' = "kernel"
                      /\ KernelVersions(tree') = image.pool
                      /\ \A v \in image.pool : tree'.initrd[v] = "disk"
<1>1. tree \in TreeShape /\ fault \in BOOLEAN /\ image.pool \subseteq Versions
  BY DEF Shapes, ImageShape
<1>2. CASE ~edition.poolKernel \/ KernelVersions(tree) # {}
  BY <1>1, <1>2 DEF InstallKernelFromIso, Step, SamePlan, OnlyTree, SameMenu,
                    SameSystem, SameLoader
<1>3. CASE ~(~edition.poolKernel \/ KernelVersions(tree) # {})
  <2>1. PICK ok \in BOOLEAN, got \in {{}, image.pool},
             built \in {"none", "disk"} :
          /\ ok => got = image.pool /\ (built = "disk" \/ image.builder = "none")
          /\ Step("files", OrRaise(got # {}, "kernel"))
          /\ tree' = [tree EXCEPT
                        !.kernels = @ \cup got,
                        !.initrd = [n \in Names |->
                            IF n \in got THEN built ELSE @[n]]]
          /\ Ran(ok)
    BY <1>3 DEF InstallKernelFromIso
  <2>2. /\ at = "files" /\ at' = (IF got # {} THEN "kernel" ELSE "failed")
        /\ SamePlan /\ esp' = esp
        /\ fault' \in BOOLEAN /\ (fault => fault') /\ (~fault' => ok)
    BY <1>1, <2>1 DEF InstallKernelFromIso, Step, OrRaise, SamePlan, OnlyTree,
                      Ran
  <2>. DEFINE made == [n \in Names |-> IF n \in got THEN built
                                       ELSE tree.initrd[n]]
  <2>3. made \in [Names -> {"none", "live", "disk"}] /\ got \subseteq Names
    BY <1>1 DEF TreeShape, Names
  <2>4. tree' = [tree EXCEPT !.kernels = @ \cup got, !.initrd = made]
    BY <2>1
  <2>5. \A v \in got : made[v] = built
    BY <2>3
  <2>. HIDE DEF made
  <2>6. /\ tree' \in TreeShape /\ SameMenu(tree, tree')
        /\ SameSystem(tree, tree') /\ SameLoader(tree, tree')
        /\ tree'.live = tree.live /\ tree'.kernels = tree.kernels \cup got
        /\ tree'.initrd = made
    BY <1>1, <2>3, <2>4 DEF TreeShape, SameMenu, SameSystem, SameLoader
  <2>7. KernelVersions(tree') = got
    BY <1>1, <1>3, <2>6, VersionFacts DEF KernelVersions
  <2>. QED  BY <1>3, <2>1, <2>2, <2>5, <2>6, <2>7
<1>. QED  BY <1>2, <1>3

LEMMA CasperPurgeDoes ==
    ASSUME Shapes, PurgeLivePackages
    PROVE  /\ at = "kernel" /\ at' = "purged" /\ SamePlan /\ esp' = esp
           /\ fault' \in BOOLEAN /\ (fault => fault')
           /\ tree' \in TreeShape /\ SameKernels(tree, tree')
           /\ SameMenu(tree, tree') /\ SameSystem(tree, tree')
           /\ SameLoader(tree, tree') /\ tree'.live \subseteq tree.live
           /\ ~fault' => tree'.live = (tree.live \ {"packages"})
                                      \ (CasperHooks \cup LiveSessions)
<1>1. /\ at = "kernel" /\ at' = "purged" /\ SamePlan /\ esp' = esp
  BY DEF PurgeLivePackages, Step, SamePlan, OnlyTree
<1>2. PICK ok \in BOOLEAN,
           kept \in SUBSET (tree.live \cap (CasperHooks \cup LiveSessions)) :
          /\ tree' = Strip(Strip(tree, IF ok THEN {"packages"} ELSE {}, {}),
                           CasperHooks \cup LiveSessions, kept)
          /\ Ran(ok /\ kept = {})
  BY DEF PurgeLivePackages
<1>3. tree \in TreeShape /\ fault \in BOOLEAN
  BY DEF Shapes
<1>. DEFINE gone == IF ok THEN {"packages"} ELSE {}
            t == Strip(tree, gone, {})
            hooks == CasperHooks \cup LiveSessions
<1>4. /\ t \in TreeShape /\ t.live = tree.live \ gone
      /\ SameKernels(tree, t) /\ SameMenu(tree, t) /\ SameSystem(tree, t)
      /\ SameLoader(tree, t)
  BY <1>3, StripTree
<1>5. tree' = Strip(t, hooks, kept)
  BY <1>2
<1>. HIDE DEF t, hooks
<1>6. /\ tree' \in TreeShape
      /\ tree'.live = (t.live \ hooks) \cup (t.live \cap kept)
      /\ SameKernels(t, tree') /\ SameMenu(t, tree') /\ SameSystem(t, tree')
      /\ SameLoader(t, tree')
  BY <1>4, <1>5, StripTree
<1>7. fault' \in BOOLEAN /\ (fault => fault') /\ (~fault' => ok /\ kept = {})
  BY <1>2, <1>3 DEF Ran
<1>. QED  BY <1>1, <1>4, <1>6, <1>7
             DEF SameKernels, SameMenu, SameSystem, SameLoader, hooks

\* A run of update-initramfs gives some versions an initrd, for the disk once
\* casper's hooks are gone.
LEMMA UpdateInitramfsTree ==
    ASSUME NEW t \in TreeShape, NEW todo, NEW done, NEW u,
           u = UpdateInitramfs(t, todo, done)
    PROVE  /\ u \in TreeShape /\ SameMenu(t, u) /\ SameSystem(t, u)
           /\ SameLoader(t, u) /\ u.live = t.live /\ u.kernels = t.kernels
           /\ \A v \in Names : u.initrd[v] = IF v \in todo \cap done
                                             THEN BuiltAs(t) ELSE t.initrd[v]
<1>. DEFINE made == [n \in Names |-> IF n \in todo \cap done THEN BuiltAs(t)
                                                            ELSE t.initrd[n]]
<1>1. made \in [Names -> {"none", "live", "disk"}]
  BY DEF TreeShape, BuiltAs
<1>2. u = [t EXCEPT !.initrd = made]
  BY DEF UpdateInitramfs
<1>3. \A v \in Names : made[v] = IF v \in todo \cap done
                                 THEN BuiltAs(t) ELSE t.initrd[v]
  OBVIOUS
<1>. HIDE DEF made
<1>4. /\ u \in TreeShape /\ SameMenu(t, u) /\ SameSystem(t, u)
      /\ SameLoader(t, u) /\ u.live = t.live /\ u.kernels = t.kernels
      /\ u.initrd = made
  BY <1>1, <1>2 DEF TreeShape, SameMenu, SameSystem, SameLoader
<1>. QED  BY <1>3, <1>4

\* All or none of the versions have an initrd.
Uniform(t) == \/ \A v \in KernelVersions(t) : t.initrd[v] # "none"
              \/ \A v \in KernelVersions(t) : t.initrd[v] = "none"

AllForDisk(t) == \A v \in KernelVersions(t) : t.initrd[v] = "disk"

LEMMA CasperInitrdDoes ==
    ASSUME Shapes, CasperInitrd
    PROVE  /\ at = "purged" /\ at' \in {"configured", "failed"} /\ SamePlan
           /\ esp' = esp /\ fault' \in BOOLEAN /\ (fault => fault')
           /\ tree' \in TreeShape /\ SameMenu(tree, tree')
           /\ SameSystem(tree, tree') /\ SameLoader(tree, tree')
           /\ tree'.live = tree.live /\ tree'.kernels = tree.kernels
           /\ /\ ~fault' /\ image.builder \in {"update-initramfs", "dracut"}
              /\ Uniform(tree) /\ KernelVersions(tree) # {} /\ tree.live = {}
              => at' = "configured" /\ AllForDisk(tree')
<1>. DEFINE all == KernelVersions(tree)
<1>1. tree \in TreeShape /\ fault \in BOOLEAN
  BY DEF Shapes
<1>2. PICK done \in SUBSET all :
        LET one == UpdateInitramfs(tree, Paired(tree), done)
            two == IF InstalledKernelOk(one) THEN one
                   ELSE UpdateInitramfs(tree, all, done)
        IN  /\ tree' = CASE image.builder = "update-initramfs" -> two
                         [] image.builder = "dracut" ->
                              UpdateInitramfs(tree, all, done)
                         [] OTHER -> tree
            /\ Step("purged", OrRaise(InstalledKernelOk(tree'), "configured"))
            /\ Ran(done = all)
  BY DEF CasperInitrd
<1>. DEFINE one == UpdateInitramfs(tree, Paired(tree), done)
            whole == UpdateInitramfs(tree, all, done)
<1>3. /\ at = "purged" /\ SamePlan /\ esp' = esp
      /\ at' = IF InstalledKernelOk(tree') THEN "configured" ELSE "failed"
  BY <1>2 DEF CasperInitrd, Step, OrRaise, SamePlan, OnlyTree
<1>4. fault' \in BOOLEAN /\ (fault => fault') /\ (~fault' => done = all)
  BY <1>1, <1>2 DEF Ran
<1>5. /\ image.builder = "update-initramfs" =>
            tree' = IF InstalledKernelOk(one) THEN one ELSE whole
      /\ image.builder = "dracut" => tree' = whole
      /\ tree' \in {tree, one, whole}
  BY <1>2
<1>6. \A v \in all : v \in Names /\ v \in Versions
  BY <1>1 DEF KernelVersions, TreeShape, Names
<1>. HIDE DEF all
<1>7. /\ one \in TreeShape /\ SameMenu(tree, one) /\ SameSystem(tree, one)
      /\ SameLoader(tree, one) /\ one.live = tree.live
      /\ one.kernels = tree.kernels
      /\ \A v \in Names : one.initrd[v] = IF v \in Paired(tree) \cap done
                                          THEN BuiltAs(tree)
                                          ELSE tree.initrd[v]
  BY <1>1, UpdateInitramfsTree
<1>8. /\ whole \in TreeShape /\ SameMenu(tree, whole) /\ SameSystem(tree, whole)
      /\ SameLoader(tree, whole) /\ whole.live = tree.live
      /\ whole.kernels = tree.kernels
      /\ \A v \in Names : whole.initrd[v] = IF v \in all \cap done
                                            THEN BuiltAs(tree)
                                            ELSE tree.initrd[v]
  BY <1>1, UpdateInitramfsTree
<1>. HIDE DEF one, whole
<1>9. /\ tree' \in TreeShape /\ SameMenu(tree, tree')
      /\ SameSystem(tree, tree') /\ SameLoader(tree, tree')
      /\ tree'.live = tree.live /\ tree'.kernels = tree.kernels
  BY <1>1, <1>5, <1>7, <1>8 DEF SameMenu, SameSystem, SameLoader
<1>10. ASSUME done = all, image.builder \in {"update-initramfs", "dracut"},
              Uniform(tree), all # {}, tree.live = {}
       PROVE  InstalledKernelOk(tree') /\ AllForDisk(tree')
  <2>1. BuiltAs(tree) = "disk"
    BY <1>10 DEF BuiltAs
  <2>2. KernelVersions(tree') = all
    BY <1>9 DEF KernelVersions, all
  <2>3. \A v \in all : tree'.initrd[v] = "disk"
    <3>1. CASE tree' = whole
      BY <1>6, <1>8, <1>10, <2>1, <3>1
    <3>2. CASE tree' = one /\ InstalledKernelOk(one)
      <4>1. PICK v \in one.kernels : v \in Versions /\ one.initrd[v] # "none"
        BY <3>2 DEF InstalledKernelOk, Paired
      <4>2. v \in all /\ v \in Names
        BY <1>7, <4>1, VersionFacts DEF all, KernelVersions, Names
      <4>3. tree.initrd[v] # "none"
        BY <1>7, <4>1, <4>2 DEF Paired
      <4>4. \A w \in all : tree.initrd[w] # "none"
        BY <1>10, <4>2, <4>3 DEF Uniform, all
      <4>5. \A w \in all : w \in Paired(tree)
        BY <4>4 DEF Paired, all, KernelVersions
      <4>. QED  BY <1>6, <1>7, <1>10, <2>1, <3>2, <4>5
    <3>. QED  BY <1>5, <1>10, <3>1, <3>2
  <2>4. InstalledKernelOk(tree')
    <3>1. PICK v \in all : TRUE
      BY <1>10
    <3>2. /\ v \in Versions /\ v \in tree'.kernels /\ tree'.initrd[v] # "none"
      BY <1>6, <2>2, <2>3, <3>1 DEF KernelVersions
    <3>. QED  BY <3>2 DEF InstalledKernelOk, Paired
  <2>. QED  BY <2>2, <2>3, <2>4 DEF AllForDisk
<1>11. at' \in {"configured", "failed"}
  BY <1>3
<1>. QED  BY <1>3, <1>4, <1>9, <1>10, <1>11 DEF all

LEMMA CasperGrubDoes ==
    ASSUME Shapes, CasperGrubFiles
    PROVE  /\ at = "configured" /\ at' = "grub files" /\ SamePlan /\ esp' = esp
           /\ fault' \in BOOLEAN /\ (fault => fault')
           /\ tree' \in TreeShape /\ SameKernels(tree, tree')
           /\ SameMenu(tree, tree') /\ SameSystem(tree, tree')
           /\ tree'.live = tree.live
           /\ /\ ~fault' /\ image.grub # "none"
              /\ {tree.grubModules, tree.signed} =
                    IF image.grub = "tree" THEN {"image"} ELSE {"none"}
              => tree'.grubModules = "image" /\ tree'.signed = "image"
<1>1. tree \in TreeShape /\ fault \in BOOLEAN /\ image.grub \in {"tree", "image", "none"}
  BY DEF Shapes, ImageShape
<1>2. PICK ok \in BOOLEAN :
          /\ tree' = ExtractSignedEfi(EnsureGrubModules(tree), ok)
          /\ Ran(ok)
  BY DEF CasperGrubFiles
<1>3. /\ at = "configured" /\ at' = "grub files" /\ SamePlan /\ esp' = esp
  BY DEF CasperGrubFiles, Step, SamePlan, OnlyTree
<1>4. fault' \in BOOLEAN /\ (fault => fault') /\ (~fault' => ok)
  BY <1>1, <1>2 DEF Ran
<1>. DEFINE t == EnsureGrubModules(tree)
<1>5. /\ t \in TreeShape /\ SameKernels(tree, t) /\ SameMenu(tree, t)
      /\ SameSystem(tree, t) /\ t.live = tree.live /\ t.signed = tree.signed
      /\ t.grubModules = IF tree.grubModules # "none" THEN tree.grubModules
                         ELSE IF image.grub = "image" THEN "image" ELSE "host"
  BY <1>1 DEF EnsureGrubModules, TreeShape, SameKernels, SameMenu, SameSystem
<1>6. tree' = ExtractSignedEfi(t, ok)
  BY <1>2
<1>. HIDE DEF t
<1>7. /\ tree' \in TreeShape /\ SameKernels(t, tree') /\ SameMenu(t, tree')
      /\ SameSystem(t, tree') /\ tree'.live = t.live
      /\ tree'.grubModules = t.grubModules
      /\ tree'.signed = IF t.signed = "none" /\ image.grub = "image" /\ ok
                        THEN "image" ELSE t.signed
  BY <1>5, <1>6
     DEF ExtractSignedEfi, TreeShape, SameKernels, SameMenu, SameSystem
<1>8. ASSUME ~fault', image.grub # "none",
             {tree.grubModules, tree.signed} =
                IF image.grub = "tree" THEN {"image"} ELSE {"none"}
      PROVE  tree'.grubModules = "image" /\ tree'.signed = "image"
  <2>1. CASE image.grub = "tree"
    <3>1. tree.grubModules = "image" /\ tree.signed = "image"
      BY <1>8, <2>1
    <3>. QED  BY <1>5, <1>7, <2>1, <3>1
  <2>2. CASE image.grub = "image"
    <3>1. tree.grubModules = "none" /\ tree.signed = "none"
      BY <1>8, <2>2
    <3>. QED  BY <1>4, <1>5, <1>7, <1>8, <2>2, <3>1
  <2>. QED  BY <1>1, <1>8, <2>1, <2>2
<1>. QED  BY <1>3, <1>4, <1>5, <1>7, <1>8
             DEF SameKernels, SameMenu, SameSystem

LEMMA UpdateGrubDoes ==
    ASSUME Shapes, UpdateGrub
    PROVE  /\ at = "grub files" /\ at' = "menu" /\ SamePlan /\ esp' = esp
           /\ fault' \in BOOLEAN /\ (fault => fault')
           /\ tree' \in TreeShape /\ SameKernels(tree, tree')
           /\ SameSystem(tree, tree') /\ SameLoader(tree, tree')
           /\ tree'.live = tree.live
           /\ ~fault' => tree'.menu = {<<v, v>> : v \in KernelVersions(tree)}
<1>1. tree \in TreeShape /\ fault \in BOOLEAN
  BY DEF Shapes
<1>. DEFINE listed == {<<v, v>> : v \in KernelVersions(tree)}
<1>2. PICK ok \in BOOLEAN :
          /\ tree' = IF ok THEN [tree EXCEPT !.menu = listed,
                                             !.menuBy = "update-grub"]
                           ELSE tree
          /\ Ran(ok)
  BY DEF UpdateGrub
<1>3. /\ at = "grub files" /\ at' = "menu" /\ SamePlan /\ esp' = esp
  BY DEF UpdateGrub, Step, SamePlan, OnlyTree
<1>4. fault' \in BOOLEAN /\ (fault => fault') /\ (~fault' => ok)
  BY <1>1, <1>2 DEF Ran
<1>5. listed \subseteq Names \X Names
  BY <1>1 DEF TreeShape, KernelVersions
<1>. HIDE DEF listed
<1>6. /\ tree' \in TreeShape /\ SameKernels(tree, tree')
      /\ SameSystem(tree, tree') /\ SameLoader(tree, tree')
      /\ tree'.live = tree.live /\ (ok => tree'.menu = listed)
  BY <1>1, <1>2, <1>5 DEF TreeShape, SameKernels, SameSystem, SameLoader
<1>. QED  BY <1>3, <1>4, <1>6 DEF listed

\* Shim, the signed GRUB and the configuration that it reads.
LEMMA LoaderEsp ==
    ASSUME Shapes, NEW grub \in {"none", "image", "host"},
           NEW u, u = WriteStub(CopyToEsp(esp, grub))
    PROVE  /\ u \in EspShape /\ u.shim /\ u.grub = grub
           /\ edition.loaderDir \in u.stub /\ u.entries = esp.entries
<1>1. esp \in EspShape /\ edition.loaderDir \in LoaderDirs
  BY DEF Shapes, EditionShape
<1>. QED  BY <1>1 DEF WriteStub, CopyToEsp, EspShape

LEMMA CasperEspDoes ==
    ASSUME Shapes, CasperEsp
    PROVE  /\ at = "menu" /\ at' = "bootable" /\ SamePlan
           /\ tree' = tree /\ fault' = fault
           /\ esp' \in EspShape /\ esp'.shim /\ esp'.grub # "none"
           /\ edition.loaderDir \in esp'.stub /\ esp'.entries = esp.entries
           /\ tree.signed # "none" => esp'.grub = tree.signed
<1>1. /\ at = "menu" /\ at' = "bootable" /\ SamePlan
      /\ tree' = tree /\ fault' = fault
      /\ esp' = WriteStub(CopyToEsp(esp, SignedEfi(tree)))
  BY DEF CasperEsp, Step, SamePlan, OnlyEsp
<1>2. /\ SignedEfi(tree) \in {"image", "host"}
      /\ tree.signed # "none" => SignedEfi(tree) = tree.signed
  BY DEF Shapes, TreeShape, SignedEfi
<1>. QED  BY <1>1, <1>2, LoaderEsp

LEMMA CasperSafe == ASSUME SafeInv, CasperNext PROVE SafeInv'
<1>1. Shapes /\ Shared /\ tree \in TreeShape /\ InCasper /\ fault \in BOOLEAN
      /\ tree.live \subseteq image.live /\ esp.entries \subseteq tree.kernels
  BY DEF SafeInv, Shared, Shapes, EmptyInv, CasperNext, CasperUnpack,
         CasperFiles, InstallKernelFromIso, PurgeLivePackages, CasperInitrd,
         CasperGrubFiles, UpdateGrub, CasperEsp, CasperCheck, CasperRaises
<1>2. ASSUME SamePlan, Shared', at' = "healthy" => InstalledKernelOk(tree')
      PROVE  SafeInv'
  BY <1>1, <1>2 DEF SamePlan, Shared, SafeInv, CasperInv, FedoraInv,
                    CachyosInv, InCasper, InFedora, InCachyos
<1>3. CASE CasperUnpack
  <2>1. /\ SamePlan /\ at = "partitioned" /\ at' = "unpacked"
        /\ tree' \in TreeShape /\ tree'.entries = {}
        /\ tree'.live = image.live /\ esp' = esp /\ fault' = fault
    BY <1>1, <1>3, CasperUnpackDoes
  <2>2. Shared'
    BY <1>1, <2>1, UnpackShared
  <2>. QED  BY <1>2, <2>1, <2>2
<1>4. CASE CasperFiles
  <2>1. /\ SamePlan /\ at = "unpacked" /\ at' = "files" /\ esp' = esp
        /\ tree' \in TreeShape /\ WithFiles(tree, tree')
        /\ SameKernels(tree, tree') /\ tree'.live \subseteq tree.live
        /\ fault' \in BOOLEAN
    BY <1>1, <1>4, CasperFilesDoes
  <2>2. Shared'
    BY <1>1, <2>1, FilesShared DEF SameKernels
  <2>. QED  BY <1>2, <2>1, <2>2
<1>5. CASE InstallKernelFromIso \/ PurgeLivePackages \/ CasperInitrd
           \/ CasperGrubFiles \/ UpdateGrub
  <2>1. /\ SamePlan /\ at \in FilesWritten
        /\ at' \in (FilesWritten \ LoaderWritten) \cup {"failed"}
        /\ esp' = esp /\ fault' \in BOOLEAN
        /\ tree' \in TreeShape /\ SameSystem(tree, tree')
        /\ tree'.live \subseteq tree.live /\ tree.kernels \subseteq tree'.kernels
    BY <1>1, <1>5, InstallKernelDoes, CasperPurgeDoes, CasperInitrdDoes,
       CasperGrubDoes, UpdateGrubDoes
       DEF SameKernels, FilesWritten, LoaderWritten
  <2>2. Shared'
    BY <1>1, <2>1, StepShared
  <2>. QED  BY <1>2, <2>1, <2>2 DEF FilesWritten, LoaderWritten
<1>6. CASE CasperEsp
  <2>1. /\ SamePlan /\ at = "menu" /\ at' = "bootable"
        /\ tree' = tree /\ fault' = fault /\ esp' \in EspShape
        /\ esp'.shim /\ esp'.grub # "none"
        /\ edition.loaderDir \in esp'.stub /\ esp'.entries = esp.entries
    BY <1>1, <1>6, CasperEspDoes
  <2>2. at \in FilesWritten /\ SameSystem(tree, tree')
    BY <2>1 DEF FilesWritten, SameSystem
  <2>3. Shared'
    BY <1>1, <2>1, <2>2, LoaderShared
  <2>. QED  BY <1>2, <2>1, <2>3
<1>7. CASE CasperCheck
  <2>1. /\ SamePlan /\ at = "bootable" /\ UNCHANGED <<tree, esp, fault>>
        /\ at' = IF CasperHealthy THEN "healthy" ELSE "failed"
        /\ ~InCachyos
    BY <1>1, <1>7 DEF CasperCheck, Step, SamePlan, InCasper, InCachyos
  <2>2. /\ at' \in {"healthy", "failed"}
        /\ at' = "healthy" => InstalledKernelOk(tree')
    BY <2>1 DEF CasperHealthy
  <2>3. Shared'
    BY <1>1, <2>1, <2>2, CheckShared
  <2>. QED  BY <1>2, <2>1, <2>2, <2>3
<1>8. CASE CasperRaises
  BY <1>8, RaiseSafe DEF CasperRaises
<1>. QED  BY <1>3, <1>4, <1>5, <1>6, <1>7, <1>8 DEF CasperNext
-----------------------------------------------------------------------------
(* Debian: what each step of debian.py does.                               *)

\* There is a kernel, and each one has an initrd: the unversioned pair from
\* beside the tree, or versions.
DebianKernels(t) ==
    /\ t.kernels = {Plain} \/ (t.kernels # {} /\ t.kernels \subseteq Versions)
    /\ \A k \in t.kernels : t.initrd[k] # "none"

LEMMA DebianUnpackDoes ==
    ASSUME Shapes, DebianUnpack
    PROVE  /\ at = "partitioned" /\ at' = "unpacked" /\ SamePlan
           /\ esp' = esp /\ fault' = fault
           /\ tree' \in TreeShape /\ tree'.entries = {}
           /\ tree'.live = image.live /\ tree'.greeter = edition.greeter
           /\ tree'.signed = IF image.grub = "tree" THEN "image" ELSE "none"
           /\ (IF image.kernels = {} THEN image.beside
                                     ELSE image.initrds = image.kernels)
              => DebianKernels(tree')
<1>. DEFINE t == Unpacked
<1>1. /\ at = "partitioned" /\ at' = "unpacked" /\ SamePlan
      /\ esp' = esp /\ fault' = fault /\ tree' = CopyLiveKernelDebian(t)
  BY DEF DebianUnpack, Step, SamePlan, OnlyTree
<1>2. /\ t \in TreeShape /\ t.kernels = image.kernels
      /\ t.initrd = [n \in Names |-> IF n \in image.initrds THEN "live"
                                                            ELSE "none"]
      /\ t.greeter = edition.greeter /\ t.live = image.live
      /\ t.signed = IF image.grub = "tree" THEN "image" ELSE "none"
      /\ t.entries = {}
  BY UnpackedTree
<1>. HIDE DEF t
<1>3. /\ image.kernels \subseteq Versions /\ Plain \in Names
      /\ Versions \subseteq Names /\ image.beside \in BOOLEAN
  BY DEF Shapes, ImageShape, Names
<1>4. CASE ~(image.beside /\ image.kernels = {})
  <2>1. tree' = t
    BY <1>1, <1>2, <1>4 DEF CopyLiveKernelDebian
  <2>2. image.kernels # {} /\ image.initrds = image.kernels => DebianKernels(t)
    BY <1>2, <1>3 DEF DebianKernels
  <2>. QED  BY <1>1, <1>2, <1>4, <2>1, <2>2
<1>5. CASE image.beside /\ image.kernels = {}
  <2>1. tree' = CopyLive(t, Plain)
    BY <1>1, <1>2, <1>5 DEF CopyLiveKernelDebian
  <2>2. /\ tree' \in TreeShape /\ tree'.kernels = t.kernels \cup {Plain}
        /\ tree'.initrd = [t.initrd EXCEPT ![Plain] = "live"]
        /\ tree'.live = t.live
        /\ SameMenu(t, tree') /\ SameSystem(t, tree') /\ SameLoader(t, tree')
    BY <1>2, <1>3, <2>1, CopyLiveTree
  <2>3. tree'.kernels = {Plain} /\ tree'.initrd[Plain] = "live"
    BY <1>2, <1>3, <1>5, <2>2 DEF TreeShape
  <2>4. DebianKernels(tree')
    BY <2>3 DEF DebianKernels
  <2>. QED  BY <1>1, <1>2, <2>2, <2>4 DEF SameMenu, SameSystem, SameLoader
<1>. QED  BY <1>4, <1>5

LEMMA DebianFilesDoes ==
    ASSUME Shapes, DebianFiles
    PROVE  /\ at = "unpacked" /\ at' = "files" /\ SamePlan /\ esp' = esp
           /\ fault' \in BOOLEAN /\ (fault => fault')
           /\ tree' \in TreeShape
           /\ WithFiles(tree, tree')
           /\ SameKernels(tree, tree') /\ SameMenu(tree, tree')
           /\ SameLoader(tree, tree')
           /\ tree'.live \subseteq tree.live
           /\ ~fault' => tree'.live \cap (DebianStripped \cup {"cmdline"}) = {}
<1>1. /\ at = "unpacked" /\ at' = "files" /\ SamePlan /\ esp' = esp
  BY DEF DebianFiles, Step, SamePlan, OnlyTree
<1>2. PICK kept \in SUBSET (image.live \cap DebianStripped) :
         /\ tree' = Strip(WriteGrubDefault(CommonFiles(tree)),
                          DebianStripped, kept)
         /\ Ran(kept = {})
  BY DEF DebianFiles
<1>3. tree \in TreeShape /\ fault \in BOOLEAN
  BY DEF Shapes
<1>4. "cmdline" \notin kept
  BY DEF DebianStripped, DebianAutologin, DebianLiveUnits, DebianSudoers,
         AptSources
<1>5. /\ tree' \in TreeShape
      /\ WithFiles(tree, tree')
      /\ SameKernels(tree, tree') /\ SameMenu(tree, tree')
      /\ SameLoader(tree, tree')
      /\ Without(tree, tree', DebianStripped \cup {"cmdline"}, kept)
  BY <1>2, <1>3, <1>4, FilesTree
<1>6. fault' \in BOOLEAN /\ (fault => fault') /\ (~fault' => kept = {})
  BY <1>2, <1>3 DEF Ran
<1>. QED  BY <1>1, <1>5, <1>6 DEF Without

LEMMA DebianPurgeDoes ==
    ASSUME Shapes, DebianPurge
    PROVE  /\ at = "files" /\ at' = "purged" /\ SamePlan /\ esp' = esp
           /\ fault' \in BOOLEAN /\ (fault => fault')
           /\ tree' \in TreeShape /\ SameKernels(tree, tree')
           /\ SameMenu(tree, tree') /\ SameSystem(tree, tree')
           /\ SameLoader(tree, tree') /\ tree'.live \subseteq tree.live
           /\ ~fault' => tree'.live = tree.live \ {"packages"}
<1>1. /\ at = "files" /\ at' = "purged" /\ SamePlan /\ esp' = esp
  BY DEF DebianPurge, Step, SamePlan, OnlyTree
<1>2. PICK ok \in BOOLEAN :
          /\ tree' = Strip(tree, IF ok THEN {"packages"} ELSE {}, {})
          /\ Ran(ok)
  BY DEF DebianPurge
<1>3. tree \in TreeShape /\ fault \in BOOLEAN
  BY DEF Shapes
<1>. DEFINE gone == IF ok THEN {"packages"} ELSE {}
<1>4. /\ tree' \in TreeShape /\ tree'.live = tree.live \ gone
      /\ SameKernels(tree, tree') /\ SameMenu(tree, tree')
      /\ SameSystem(tree, tree') /\ SameLoader(tree, tree')
  BY <1>2, <1>3, StripTree
<1>5. fault' \in BOOLEAN /\ (fault => fault') /\ (~fault' => ok)
  BY <1>2, <1>3 DEF Ran
<1>. QED  BY <1>1, <1>4, <1>5

LEMMA DebianInitrdDoes ==
    ASSUME Shapes, DebianInitrd
    PROVE  /\ at = "purged" /\ at' = "configured" /\ SamePlan /\ esp' = esp
           /\ fault' \in BOOLEAN /\ (fault => fault')
           /\ tree' \in TreeShape /\ SameMenu(tree, tree')
           /\ SameSystem(tree, tree') /\ SameLoader(tree, tree')
           /\ tree'.live = tree.live /\ tree'.kernels = tree.kernels
           /\ DebianKernels(tree) => DebianKernels(tree')
<1>1. tree \in TreeShape /\ fault \in BOOLEAN
  BY DEF Shapes
<1>2. PICK done \in SUBSET (Paired(tree) \cap Versions) :
          /\ tree' = [tree EXCEPT !.initrd = [n \in Names |->
                        IF n \in done THEN "disk" ELSE @[n]]]
          /\ Ran(done = Paired(tree) \cap Versions)
  BY DEF DebianInitrd
<1>3. /\ at = "purged" /\ at' = "configured" /\ SamePlan /\ esp' = esp
  BY DEF DebianInitrd, Step, SamePlan, OnlyTree
<1>4. fault' \in BOOLEAN /\ (fault => fault')
  BY <1>1, <1>2 DEF Ran
<1>. DEFINE made == [n \in Names |-> IF n \in done THEN "disk"
                                     ELSE tree.initrd[n]]
<1>5. made \in [Names -> {"none", "live", "disk"}]
  BY <1>1 DEF TreeShape
<1>6. tree' = [tree EXCEPT !.initrd = made]
  BY <1>2
<1>7. \A n \in Names : tree.initrd[n] # "none" => made[n] # "none"
  OBVIOUS
<1>. HIDE DEF made
<1>8. /\ tree' \in TreeShape /\ SameMenu(tree, tree')
      /\ SameSystem(tree, tree') /\ SameLoader(tree, tree')
      /\ tree'.live = tree.live /\ tree'.kernels = tree.kernels
      /\ tree'.initrd = made
  BY <1>1, <1>5, <1>6 DEF TreeShape, SameMenu, SameSystem, SameLoader
<1>9. tree.kernels \subseteq Names
  BY <1>1 DEF TreeShape
<1>10. DebianKernels(tree) => DebianKernels(tree')
  BY <1>7, <1>8, <1>9 DEF DebianKernels
<1>. QED  BY <1>3, <1>4, <1>8, <1>10

LEMMA DebianGrubDoes ==
    ASSUME Shapes, DebianGrubFiles
    PROVE  /\ at = "configured" /\ at' = "grub files" /\ SamePlan /\ esp' = esp
           /\ fault' \in BOOLEAN /\ (fault => fault')
           /\ tree' \in TreeShape /\ SameKernels(tree, tree')
           /\ SameMenu(tree, tree') /\ SameSystem(tree, tree')
           /\ tree'.live = tree.live
           /\ /\ ~fault' /\ image.grub # "none"
              /\ tree.signed = IF image.grub = "tree" THEN "image" ELSE "none"
              => tree'.signed = "image"
<1>1. tree \in TreeShape /\ fault \in BOOLEAN /\ image.grub \in {"tree", "image", "none"}
  BY DEF Shapes, ImageShape
<1>2. PICK ok \in BOOLEAN :
          /\ tree' = [tree EXCEPT
                !.signed = IF image.grub = "image" /\ ok THEN "image" ELSE @,
                !.grubModules = IF @ = "none" /\ image.grub = "image"
                                THEN "image" ELSE @]
          /\ Ran(ok)
  BY DEF DebianGrubFiles
<1>3. /\ at = "configured" /\ at' = "grub files" /\ SamePlan /\ esp' = esp
  BY DEF DebianGrubFiles, Step, SamePlan, OnlyTree
<1>4. fault' \in BOOLEAN /\ (fault => fault') /\ (~fault' => ok)
  BY <1>1, <1>2 DEF Ran
<1>. DEFINE pair == IF image.grub = "image" /\ ok THEN "image" ELSE tree.signed
            mods == IF tree.grubModules = "none" /\ image.grub = "image"
                    THEN "image" ELSE tree.grubModules
<1>5. tree' = [tree EXCEPT !.signed = pair, !.grubModules = mods]
  BY <1>2
<1>6. pair \in {"none", "image"} /\ mods \in {"none", "image", "host"}
  BY <1>1 DEF TreeShape
<1>7. /\ image.grub # "none" /\ ok
      /\ tree.signed = (IF image.grub = "tree" THEN "image" ELSE "none")
      => pair = "image"
  BY <1>1
<1>. HIDE DEF pair, mods
<1>8. /\ tree' \in TreeShape /\ SameKernels(tree, tree')
      /\ SameMenu(tree, tree') /\ SameSystem(tree, tree')
      /\ tree'.live = tree.live /\ tree'.signed = pair
  BY <1>1, <1>5, <1>6 DEF TreeShape, SameKernels, SameMenu, SameSystem
<1>. QED  BY <1>3, <1>4, <1>7, <1>8

LEMMA DebianMenuDoes ==
    ASSUME Shapes, WriteDebianGrubCfg
    PROVE  /\ at = "grub files" /\ at' = "menu" /\ SamePlan /\ esp' = esp
           /\ fault' \in BOOLEAN /\ (fault => fault')
           /\ tree' \in TreeShape /\ SameKernels(tree, tree')
           /\ SameSystem(tree, tree') /\ SameLoader(tree, tree')
           /\ tree'.live = tree.live
           /\ DebianKernels(tree) =>
                \E v \in tree.kernels : tree'.menu = {<<v, v>>}
<1>1. tree \in TreeShape /\ fault \in BOOLEAN
  BY DEF Shapes
<1>. DEFINE v == Max(tree.kernels \cup {Plain})
            i == IF tree.initrd[v] = "none" THEN Plain ELSE v
            e == <<v, IF tree.initrd[i] = "none" THEN v ELSE i>>
<1>2. /\ at = "grub files" /\ at' = "menu" /\ SamePlan /\ esp' = esp
      /\ tree' = [tree EXCEPT !.menu = {e}, !.menuBy = "driver"]
      /\ \E ok \in BOOLEAN : Ran(ok)
  BY DEF WriteDebianGrubCfg, Step, SamePlan, OnlyTree
<1>3. fault' \in BOOLEAN /\ (fault => fault')
  BY <1>1, <1>2 DEF Ran
<1>4. /\ v \in tree.kernels \cup {Plain}
      /\ \A k \in tree.kernels : k <= v
  <2>1. tree.kernels \cup {Plain} \in SUBSET Names
    BY <1>1 DEF TreeShape, Names
  <2>. QED  BY <2>1, LastVersion
<1>5. e \in Names \X Names
  BY <1>1, <1>4 DEF TreeShape, Names
<1>6. tree.initrd[v] # "none" => e = <<v, v>>
  OBVIOUS
<1>. HIDE DEF e, v
<1>7. /\ tree' \in TreeShape /\ SameKernels(tree, tree')
      /\ SameSystem(tree, tree') /\ SameLoader(tree, tree')
      /\ tree'.live = tree.live /\ tree'.menu = {e}
  BY <1>1, <1>2, <1>5 DEF TreeShape, SameKernels, SameSystem, SameLoader
<1>8. ASSUME DebianKernels(tree)
      PROVE  v \in tree.kernels /\ tree.initrd[v] # "none"
  <2>1. CASE tree.kernels = {Plain}
    BY <1>4, <1>8, <2>1 DEF DebianKernels
  <2>2. CASE tree.kernels # {} /\ tree.kernels \subseteq Versions
    <3>1. PICK k \in tree.kernels : k \in Versions
      BY <2>2
    <3>2. k \in Nat /\ k # Plain /\ k <= v
      BY <1>4, <3>1, VersionFacts
    <3>3. v # Plain
      BY <3>2 DEF Plain
    <3>. QED  BY <1>4, <1>8, <3>3 DEF DebianKernels
  <2>. QED  BY <1>8, <2>1, <2>2 DEF DebianKernels
<1>. QED  BY <1>2, <1>3, <1>6, <1>7, <1>8

LEMMA DebianEspDoes ==
    ASSUME Shapes, DebianEsp
    PROVE  /\ at = "menu" /\ SamePlan /\ tree' = tree /\ fault' = fault
           /\ at' = IF tree.signed # "none" THEN "bootable" ELSE "failed"
           /\ esp' \in EspShape /\ esp'.shim /\ esp'.grub = tree.signed
           /\ edition.loaderDir \in esp'.stub /\ esp'.entries = esp.entries
<1>1. /\ at = "menu" /\ SamePlan /\ tree' = tree /\ fault' = fault
      /\ at' = IF tree.signed # "none" THEN "bootable" ELSE "failed"
      /\ esp' = WriteStub(CopyToEsp(esp, tree.signed))
  BY DEF DebianEsp, Step, OrRaise, SamePlan, OnlyEsp
<1>2. tree.signed \in {"none", "image", "host"}
  BY DEF Shapes, TreeShape
<1>. QED  BY <1>1, <1>2, LoaderEsp

LEMMA DebianSafe == ASSUME SafeInv, DebianNext PROVE SafeInv'
<1>1. Shapes /\ Shared /\ tree \in TreeShape /\ InDebian /\ fault \in BOOLEAN
      /\ tree.live \subseteq image.live /\ esp.entries \subseteq tree.kernels
  BY DEF SafeInv, Shared, Shapes, EmptyInv, DebianNext, DebianUnpack,
         DebianFiles, DebianPurge, DebianInitrd, DebianGrubFiles,
         WriteDebianGrubCfg, DebianEsp, DebianCheck, DebianRaises
<1>2. ASSUME SamePlan, Shared' PROVE SafeInv'
  BY <1>1, <1>2 DEF SamePlan, Shared, SafeInv, CasperInv, FedoraInv,
                    CachyosInv, InCasper, InDebian, InFedora, InCachyos
<1>3. CASE DebianUnpack
  <2>1. /\ SamePlan /\ at = "partitioned" /\ at' = "unpacked"
        /\ tree' \in TreeShape /\ tree'.entries = {}
        /\ tree'.live = image.live /\ esp' = esp /\ fault' = fault
    BY <1>1, <1>3, DebianUnpackDoes
  <2>2. Shared'
    BY <1>1, <2>1, UnpackShared
  <2>. QED  BY <1>2, <2>1, <2>2
<1>4. CASE DebianFiles
  <2>1. /\ SamePlan /\ at = "unpacked" /\ at' = "files" /\ esp' = esp
        /\ tree' \in TreeShape /\ WithFiles(tree, tree')
        /\ SameKernels(tree, tree') /\ tree'.live \subseteq tree.live
        /\ fault' \in BOOLEAN
    BY <1>1, <1>4, DebianFilesDoes
  <2>2. Shared'
    BY <1>1, <2>1, FilesShared DEF SameKernels
  <2>. QED  BY <1>2, <2>1, <2>2
<1>5. CASE DebianPurge \/ DebianInitrd \/ DebianGrubFiles \/ WriteDebianGrubCfg
  <2>1. /\ SamePlan /\ at \in FilesWritten
        /\ at' \in (FilesWritten \ LoaderWritten) \cup {"failed"}
        /\ esp' = esp /\ fault' \in BOOLEAN
        /\ tree' \in TreeShape /\ SameSystem(tree, tree')
        /\ tree'.live \subseteq tree.live /\ tree.kernels \subseteq tree'.kernels
    BY <1>1, <1>5, DebianPurgeDoes, DebianInitrdDoes, DebianGrubDoes,
       DebianMenuDoes DEF SameKernels, FilesWritten, LoaderWritten
  <2>2. Shared'
    BY <1>1, <2>1, StepShared
  <2>. QED  BY <1>2, <2>1, <2>2
<1>6. CASE DebianEsp
  <2>1. /\ SamePlan /\ at = "menu" /\ at' \in {"bootable", "failed"}
        /\ tree' = tree /\ fault' = fault /\ esp' \in EspShape
        /\ at' = "bootable" => esp'.shim /\ esp'.grub # "none"
        /\ edition.loaderDir \in esp'.stub /\ esp'.entries = esp.entries
    BY <1>1, <1>6, DebianEspDoes
  <2>2. at \in FilesWritten /\ SameSystem(tree, tree')
    BY <2>1 DEF FilesWritten, SameSystem
  <2>3. Shared'
    BY <1>1, <2>1, <2>2, LoaderShared
  <2>. QED  BY <1>2, <2>1, <2>3
<1>7. CASE DebianCheck
  <2>1. /\ SamePlan /\ at = "bootable" /\ UNCHANGED <<tree, esp, fault>>
        /\ at' \in {"healthy", "failed"} /\ ~InCachyos
    BY <1>1, <1>7 DEF DebianCheck, Step, SamePlan, InDebian, InCachyos
  <2>2. Shared'
    BY <1>1, <2>1, CheckShared
  <2>. QED  BY <1>2, <2>1, <2>2
<1>8. CASE DebianRaises
  BY <1>8, RaiseSafe DEF DebianRaises
<1>. QED  BY <1>3, <1>4, <1>5, <1>6, <1>7, <1>8 DEF DebianNext
-----------------------------------------------------------------------------
(* Fedora: what each step of fedora.py does.                               *)

LEMMA VersionFound ==
    ASSUME NEW t \in TreeShape
    PROVE  /\ VmlinuzVersion(t) \in Names
           /\ KernelPath(t) \in Names /\ InitrdPath(t) \in Names
           /\ t.modules # {} \/ t.kernels \cap Versions # {} =>
                VmlinuzVersion(t) \in Versions
           /\ t.modules = {} /\ VmlinuzVersion(t) # Plain =>
                VmlinuzVersion(t) \in t.kernels
<1>. DEFINE found == t.kernels \cap Versions
<1>1. t.modules \in SUBSET Versions /\ t.modules \in SUBSET Names
  BY DEF TreeShape, Names
<1>2. found \in SUBSET Versions /\ found \in SUBSET Names /\ Plain \in Names
  BY DEF Names
<1>3. t.modules # {} => Max(t.modules) \in t.modules
  BY <1>1, LastVersion
<1>4. found # {} => Min(found) \in found
  BY <1>2, FirstVersion
<1>5. VmlinuzVersion(t) = IF t.modules # {} THEN Max(t.modules)
                          ELSE IF found # {} THEN Min(found) ELSE Plain
  BY DEF VmlinuzVersion
<1>6. found \subseteq t.kernels
  OBVIOUS
<1>7. t.kernels \cap Versions = found
  OBVIOUS
<1>. HIDE DEF found
<1>8. VmlinuzVersion(t) \in Names
  BY <1>1, <1>2, <1>3, <1>4, <1>5
<1>9. KernelPath(t) \in Names /\ InitrdPath(t) \in Names
  BY <1>2, <1>8 DEF KernelPath, InitrdPath
<1>10. t.modules # {} \/ found # {} => VmlinuzVersion(t) \in Versions
  BY <1>1, <1>2, <1>3, <1>4, <1>5
<1>11. t.modules = {} /\ VmlinuzVersion(t) # Plain =>
          VmlinuzVersion(t) \in t.kernels
  BY <1>4, <1>5, <1>6
<1>. QED  BY <1>7, <1>8, <1>9, <1>10, <1>11

\* What the version, the kernel and the initrd of an entry depend on.
LEMMA SamePaths ==
    ASSUME NEW t, NEW u, SameKernels(t, u)
    PROVE  /\ VmlinuzVersion(u) = VmlinuzVersion(t)
           /\ KernelPath(u) = KernelPath(t) /\ InitrdPath(u) = InitrdPath(t)
<1>1. u.kernels = t.kernels /\ u.initrd = t.initrd /\ u.modules = t.modules
  BY DEF SameKernels
<1>2. VmlinuzVersion(u) = VmlinuzVersion(t)
  BY <1>1 DEF VmlinuzVersion
<1>. QED  BY <1>1, <1>2 DEF KernelPath, InitrdPath

\* An entry is written for a kernel that is there, the menu in any case.
WithMenu(t, u) ==
    /\ u.menu = {<<KernelPath(t), InitrdPath(t)>>} /\ u.menuBy = "driver"
    /\ u.entries = IF KernelPath(t) \in t.kernels
                   THEN {<<KernelPath(t), InitrdPath(t)>>} ELSE t.entries

LEMMA MenuTree ==
    ASSUME NEW t \in TreeShape, NEW u, u = WriteGrub2Cfg(WriteBlsEntry(t))
    PROVE  /\ u \in TreeShape /\ SameKernels(t, u) /\ SameSystem(t, u)
           /\ SameLoader(t, u) /\ u.live = t.live /\ u.relabel = t.relabel
           /\ WithMenu(t, u)
<1>. DEFINE a == WriteBlsEntry(t)
            entry == <<KernelPath(t), InitrdPath(t)>>
<1>1. entry \in Names \X Names
  BY VersionFound
<1>2. a = IF KernelPath(t) \notin t.kernels THEN t
          ELSE [t EXCEPT !.entries = {entry}]
  BY DEF WriteBlsEntry
<1>. HIDE DEF a, entry
<1>3. /\ a \in TreeShape /\ SameKernels(t, a) /\ SameSystem(t, a)
      /\ SameLoader(t, a) /\ a.live = t.live /\ a.relabel = t.relabel
      /\ a.entries = IF KernelPath(t) \in t.kernels THEN {entry} ELSE t.entries
  BY <1>1, <1>2 DEF TreeShape, SameKernels, SameSystem, SameLoader
<1>4. <<KernelPath(a), InitrdPath(a)>> = entry
  BY <1>3, SamePaths DEF entry
<1>5. u = [a EXCEPT !.menu = {entry}, !.menuBy = "driver"]
  BY <1>4 DEF WriteGrub2Cfg, a
<1>6. /\ u \in TreeShape /\ SameKernels(a, u) /\ SameSystem(a, u)
      /\ SameLoader(a, u) /\ u.live = a.live /\ u.relabel = a.relabel
      /\ u.menu = {entry} /\ u.menuBy = "driver" /\ u.entries = a.entries
  <2>. DEFINE listed == {entry}
  <2>1. a \in TreeShape /\ listed \in SUBSET (Names \X Names)
    BY <1>1, <1>3
  <2>2. u = [a EXCEPT !.menu = listed, !.menuBy = "driver"]
    BY <1>5
  <2>. HIDE DEF listed
  <2>3. u \in TreeShape
    BY <2>1, <2>2 DEF TreeShape
  <2>4. /\ SameKernels(a, u) /\ SameSystem(a, u)
        /\ SameLoader(a, u) /\ u.live = a.live /\ u.relabel = a.relabel
        /\ u.menu = listed /\ u.menuBy = "driver" /\ u.entries = a.entries
    BY <2>1, <2>2 DEF TreeShape, SameKernels, SameSystem, SameLoader
  <2>. QED  BY <2>3, <2>4 DEF listed
<1>7. WithMenu(t, u)
  BY <1>3, <1>6 DEF WithMenu, entry
<1>. QED  BY <1>3, <1>6, <1>7 DEF SameKernels, SameSystem, SameLoader

LEMMA FedoraUnpackDoes ==
    ASSUME Shapes, FedoraUnpack
    PROVE  /\ at = "partitioned" /\ at' = "unpacked" /\ SamePlan
           /\ esp' = esp /\ fault' = fault
           /\ tree' \in TreeShape /\ tree'.entries = {}
           /\ tree'.live = image.live /\ tree'.greeter = edition.greeter
           /\ image.modules # {} \/ image.kernels # {} =>
                VmlinuzVersion(tree') # Plain
<1>. DEFINE t == Unpacked
            v == IF t.modules # {} THEN VmlinuzVersion(t) ELSE Plain
<1>1. /\ at = "partitioned" /\ at' = "unpacked" /\ SamePlan
      /\ esp' = esp /\ fault' = fault /\ tree' = CopyLiveKernel(t)
  BY DEF FedoraUnpack, Step, SamePlan, OnlyTree
<1>2. /\ t \in TreeShape /\ t.kernels = image.kernels
      /\ t.modules = image.modules
      /\ t.greeter = edition.greeter /\ t.live = image.live
      /\ t.entries = {}
  BY UnpackedTree
<1>3. tree' \in {t, CopyLive(t, v)}
  BY <1>1 DEF CopyLiveKernel
<1>. HIDE DEF t
<1>4. v \in Names
  BY <1>2, VersionFound DEF Names
<1>. HIDE DEF v
<1>5. /\ tree' \in TreeShape /\ tree'.modules = image.modules
      /\ image.kernels \subseteq tree'.kernels
      /\ tree'.live = image.live /\ tree'.greeter = edition.greeter
      /\ tree'.entries = {}
  <2>1. CASE tree' = t
    BY <1>2, <2>1
  <2>2. CASE tree' = CopyLive(t, v)
    <3>1. /\ tree' \in TreeShape /\ tree'.kernels = t.kernels \cup {v}
          /\ tree'.initrd = [t.initrd EXCEPT ![v] = "live"]
          /\ tree'.modules = t.modules /\ tree'.live = t.live
          /\ SameMenu(t, tree') /\ SameSystem(t, tree')
          /\ SameLoader(t, tree')
      BY <1>2, <1>4, <2>2, CopyLiveTree
    <3>. QED  BY <1>2, <3>1 DEF SameMenu, SameSystem
  <2>. QED  BY <1>3, <2>1, <2>2
<1>6. image.kernels \subseteq Versions
  BY DEF Shapes, ImageShape
<1>7. image.modules # {} \/ image.kernels # {} =>
         VmlinuzVersion(tree') \in Versions
  BY <1>5, <1>6, VersionFound
<1>. QED  BY <1>1, <1>5, <1>7, VersionFacts

LEMMA FedoraFilesDoes ==
    ASSUME Shapes, FedoraFiles
    PROVE  /\ at = "unpacked" /\ at' = "files" /\ SamePlan /\ esp' = esp
           /\ fault' \in BOOLEAN /\ (fault => fault')
           /\ tree' \in TreeShape
           /\ WithFiles(tree, tree')
           /\ SameKernels(tree, tree') /\ WithMenu(tree, tree')
           /\ tree'.live \subseteq tree.live
           /\ ~fault' => tree'.live \cap (FedoraStripped \cup {"cmdline"}) = {}
<1>1. /\ at = "unpacked" /\ at' = "files" /\ SamePlan /\ esp' = esp
  BY DEF FedoraFiles, Step, SamePlan, OnlyTree
<1>2. PICK kept \in SUBSET (image.live \cap FedoraStripped) :
         /\ tree' = Strip(WriteGrub2Cfg(WriteBlsEntry(
                             WriteGrubDefault(CommonFiles(tree)))),
                          FedoraStripped, kept)
         /\ Ran(kept = {})
  BY DEF FedoraFiles
<1>3. tree \in TreeShape /\ fault \in BOOLEAN
  BY DEF Shapes
<1>4. "cmdline" \notin kept
  BY DEF FedoraStripped, FedoraAutologin, FedoraLiveSession, FedoraLiveUnits,
         LiveDracutConf
<1>. DEFINE a == CommonFiles(tree)
            b == WriteGrubDefault(a)
            c == WriteGrub2Cfg(WriteBlsEntry(b))
<1>5. /\ a \in TreeShape
      /\ a.fstab = DiskOf(edition.family)
      /\ a.accounts = (tree.accounts \ edition.liveUsers) \cup {user}
      /\ a.graphical = TRUE /\ a.masked = FALSE
      /\ SameKernels(tree, a) /\ SameMenu(tree, a) /\ SameLoader(tree, a)
      /\ a.greeter = tree.greeter /\ a.live = tree.live
  BY <1>3, CommonFilesTree
<1>6. tree' = Strip(c, FedoraStripped, kept)
  BY <1>2
<1>. HIDE DEF a
<1>7. /\ b \in TreeShape /\ b.live = a.live \ {"cmdline"}
      /\ SameKernels(a, b) /\ SameMenu(a, b) /\ SameSystem(a, b)
      /\ SameLoader(a, b)
  BY <1>5, GrubDefaultTree
<1>. HIDE DEF b
<1>8. /\ c \in TreeShape /\ SameKernels(b, c) /\ SameSystem(b, c)
      /\ SameLoader(b, c) /\ c.live = b.live /\ WithMenu(b, c)
  BY <1>7, MenuTree
<1>. HIDE DEF c
<1>9. /\ tree' \in TreeShape
      /\ tree'.live = (c.live \ FedoraStripped) \cup (c.live \cap kept)
      /\ SameKernels(c, tree') /\ SameMenu(c, tree') /\ SameSystem(c, tree')
      /\ SameLoader(c, tree')
  BY <1>6, <1>8, StripTree
<1>10. WithFiles(tree, tree')
  BY <1>5, <1>7, <1>8, <1>9 DEF WithFiles, SameSystem
<1>11. SameKernels(tree, tree') /\ SameKernels(tree, b)
  BY <1>5, <1>7, <1>8, <1>9 DEF SameKernels
<1>12. WithMenu(tree, tree')
  <2>1. KernelPath(b) = KernelPath(tree) /\ InitrdPath(b) = InitrdPath(tree)
    BY <1>11, SamePaths
  <2>2. b.kernels = tree.kernels /\ b.entries = tree.entries
    BY <1>5, <1>7, <1>11 DEF SameKernels, SameMenu
  <2>. QED  BY <1>8, <1>9, <2>1, <2>2 DEF WithMenu, SameMenu
<1>13. fault' \in BOOLEAN /\ (fault => fault') /\ (~fault' => kept = {})
  BY <1>2, <1>3 DEF Ran
<1>14. /\ tree'.live \subseteq tree.live
       /\ kept = {} => tree'.live \cap (FedoraStripped \cup {"cmdline"}) = {}
  BY <1>5, <1>7, <1>8, <1>9
<1>. QED  BY <1>1, <1>9, <1>10, <1>11, <1>12, <1>13, <1>14

LEMMA KernelInstallDoes ==
    ASSUME Shapes, KernelInstall
    PROVE  /\ at = "files" /\ SamePlan /\ esp' = esp
           /\ at' = IF VmlinuzVersion(tree) # Plain THEN "kernel" ELSE "failed"
           /\ fault' \in BOOLEAN /\ (fault => fault')
           /\ tree' \in TreeShape /\ SameSystem(tree, tree')
           /\ SameLoader(tree, tree') /\ tree'.live = tree.live
           /\ tree.kernels \subseteq tree'.kernels
           /\ at' = "kernel" =>
                /\ VmlinuzVersion(tree') = VmlinuzVersion(tree)
                /\ \/ VmlinuzVersion(tree) \in tree'.kernels
                   \/ tree' = tree
                /\ ~fault' => VmlinuzVersion(tree) \in tree'.kernels
<1>. DEFINE v == VmlinuzVersion(tree)
<1>1. tree \in TreeShape /\ fault \in BOOLEAN
  BY DEF Shapes
<1>2. PICK ok \in BOOLEAN :
          /\ tree' = IF ok THEN [tree EXCEPT !.kernels = @ \cup {v},
                                             !.entries = @ \cup {<<v, v>>}]
                           ELSE tree
          /\ Ran(ok)
  BY DEF KernelInstall
<1>3. /\ at = "files" /\ SamePlan /\ esp' = esp
      /\ at' = IF v # Plain THEN "kernel" ELSE "failed"
  BY DEF KernelInstall, Step, OrRaise, SamePlan, OnlyTree
<1>4. fault' \in BOOLEAN /\ (fault => fault') /\ (~fault' => ok)
  BY <1>1, <1>2 DEF Ran
<1>5. v \in Names /\ (tree.modules = {} /\ v # Plain => v \in tree.kernels)
  BY <1>1, VersionFound
<1>6. CASE ~ok
  BY <1>1, <1>2, <1>3, <1>4, <1>6 DEF SameSystem, SameLoader
<1>7. CASE ok
  <2>. DEFINE more == tree.kernels \cup {v}
              listed == tree.entries \cup {<<v, v>>}
  <2>1. more \in SUBSET Names /\ listed \in SUBSET (Names \X Names)
    BY <1>1, <1>5 DEF TreeShape
  <2>2. tree' = [tree EXCEPT !.kernels = more, !.entries = listed]
    BY <1>2, <1>7
  <2>3. v \in more /\ tree.kernels \subseteq more
    OBVIOUS
  <2>4. v \in tree.kernels => more = tree.kernels
    OBVIOUS
  <2>. HIDE DEF more, listed
  <2>5. /\ tree' \in TreeShape /\ SameSystem(tree, tree')
        /\ SameLoader(tree, tree') /\ tree'.live = tree.live
        /\ tree'.kernels = more /\ tree'.modules = tree.modules
    BY <1>1, <2>1, <2>2 DEF TreeShape, SameSystem, SameLoader
  <2>6. v # Plain => VmlinuzVersion(tree') = v
    <3>1. CASE tree.modules # {}
      BY <2>5, <3>1 DEF VmlinuzVersion
    <3>2. CASE tree.modules = {}
      BY <1>5, <2>4, <2>5, <3>2 DEF VmlinuzVersion
    <3>. QED  BY <3>1, <3>2
  <2>. HIDE DEF v
  <2>7. VmlinuzVersion(tree) = v
    BY DEF v
  <2>. QED  BY <1>3, <1>4, <2>3, <2>5, <2>6, <2>7
<1>. QED  BY <1>6, <1>7

LEMMA DracutDoes ==
    ASSUME Shapes, Dracut
    PROVE  /\ at = "kernel" /\ at' = "initrd" /\ SamePlan /\ esp' = esp
           /\ fault' = fault
           /\ tree' \in TreeShape /\ SameMenu(tree, tree')
           /\ SameSystem(tree, tree') /\ SameLoader(tree, tree')
           /\ tree'.live = tree.live /\ tree'.kernels = tree.kernels
           /\ VmlinuzVersion(tree') = VmlinuzVersion(tree)
           /\ tree'.initrd[VmlinuzVersion(tree)] \in {"disk", "live"}
           /\ tree.live = {} => tree'.initrd[VmlinuzVersion(tree)] = "disk"
<1>. DEFINE v == VmlinuzVersion(tree)
<1>1. tree \in TreeShape /\ v \in Names
  BY VersionFound DEF Shapes
<1>2. /\ at = "kernel" /\ at' = "initrd" /\ SamePlan /\ esp' = esp
      /\ fault' = fault
  BY DEF Dracut, Step, SamePlan, OnlyTree
<1>3. PICK made \in {"disk"} \cup (tree.live \cap {"live-dracut"}) :
         tree' = [tree EXCEPT !.initrd[v] =
                    IF made = "disk" THEN "disk" ELSE "live"]
  BY DEF Dracut
<1>. DEFINE kind == IF made = "disk" THEN "disk" ELSE "live"
            files == [tree.initrd EXCEPT ![v] = kind]
<1>4. tree' = [tree EXCEPT !.initrd = files]
  BY <1>3
<1>5. kind \in {"disk", "live"} /\ (tree.live = {} => kind = "disk")
  OBVIOUS
<1>. HIDE DEF v, kind
<1>6. files \in [Names -> {"none", "live", "disk"}] /\ files[v] = kind
  BY <1>1, <1>5 DEF TreeShape
<1>. HIDE DEF files
<1>7. /\ tree' \in TreeShape /\ SameMenu(tree, tree')
      /\ SameSystem(tree, tree') /\ SameLoader(tree, tree')
      /\ tree'.live = tree.live /\ tree'.kernels = tree.kernels
      /\ tree'.modules = tree.modules /\ tree'.initrd = files
  BY <1>1, <1>4, <1>6 DEF TreeShape, SameMenu, SameSystem, SameLoader
<1>8. VmlinuzVersion(tree') = VmlinuzVersion(tree)
  BY <1>7 DEF VmlinuzVersion
<1>. QED  BY <1>2, <1>5, <1>6, <1>7, <1>8 DEF v

LEMMA FedoraConfiguredDoes ==
    ASSUME Shapes, FedoraConfigured
    PROVE  /\ at = "initrd" /\ SamePlan /\ esp' = esp
           /\ at' = IF InitramfsContainsLive(tree) THEN "failed"
                    ELSE "configured"
           /\ fault' \in BOOLEAN /\ (fault => fault')
           /\ tree' \in TreeShape /\ SameKernels(tree, tree')
           /\ SameSystem(tree, tree') /\ tree'.live = tree.live
           /\ WithMenu(tree, tree') /\ tree'.relabel = TRUE
<1>1. tree \in TreeShape /\ fault \in BOOLEAN
  BY DEF Shapes
<1>. DEFINE t == WriteGrub2Cfg(WriteBlsEntry(tree))
<1>2. /\ at = "initrd" /\ SamePlan /\ esp' = esp
      /\ at' = IF InitramfsContainsLive(tree) THEN "failed"
               ELSE "configured"
      /\ tree' = [t EXCEPT !.relabel = TRUE]
      /\ \E ok \in BOOLEAN : Ran(ok)
  BY DEF FedoraConfigured, Step, OrRaise, SamePlan, OnlyTree
<1>3. fault' \in BOOLEAN /\ (fault => fault')
  BY <1>1, <1>2 DEF Ran
<1>4. /\ t \in TreeShape /\ SameKernels(tree, t) /\ SameSystem(tree, t)
      /\ SameLoader(tree, t) /\ t.live = tree.live
      /\ WithMenu(tree, t)
  BY <1>1, MenuTree
<1>. HIDE DEF t
<1>5. /\ tree' \in TreeShape /\ SameKernels(t, tree') /\ SameSystem(t, tree')
      /\ tree'.live = t.live /\ tree'.relabel = TRUE
      /\ tree'.menu = t.menu /\ tree'.menuBy = t.menuBy
      /\ tree'.entries = t.entries
  BY <1>2, <1>4 DEF TreeShape, SameKernels, SameSystem
<1>. QED  BY <1>2, <1>3, <1>4, <1>5 DEF SameKernels, SameSystem, WithMenu

LEMMA Grub2ToolsDoes ==
    ASSUME Shapes, Grub2Tools
    PROVE  /\ at = "configured" /\ at' = "grub files" /\ SamePlan /\ esp' = esp
           /\ fault' \in BOOLEAN /\ (fault => fault')
           /\ tree' \in TreeShape /\ SameKernels(tree, tree')
           /\ SameSystem(tree, tree') /\ tree'.live = tree.live
           /\ tree'.entries = tree.entries /\ tree'.relabel = tree.relabel
<1>1. tree \in TreeShape /\ fault \in BOOLEAN
  BY DEF Shapes
<1>2. PICK ok \in BOOLEAN :
          /\ tree' = IF ok THEN [tree EXCEPT !.menuBy = "blscfg"] ELSE tree
          /\ Ran(ok)
  BY DEF Grub2Tools
<1>3. /\ at = "configured" /\ at' = "grub files" /\ SamePlan /\ esp' = esp
  BY DEF Grub2Tools, Step, SamePlan, OnlyTree
<1>4. fault' \in BOOLEAN /\ (fault => fault')
  BY <1>1, <1>2 DEF Ran
<1>5. /\ tree' \in TreeShape /\ SameKernels(tree, tree')
      /\ SameSystem(tree, tree') /\ tree'.live = tree.live
      /\ tree'.entries = tree.entries /\ tree'.relabel = tree.relabel
  BY <1>1, <1>2 DEF TreeShape, SameKernels, SameSystem
<1>. QED  BY <1>3, <1>4, <1>5

LEMMA FedoraEspDoes ==
    ASSUME Shapes, FedoraEsp
    PROVE  /\ at = "grub files" /\ SamePlan /\ fault' = fault
           /\ at' = IF image.grub # "none" THEN "bootable" ELSE "failed"
           /\ tree' \in TreeShape /\ SameKernels(tree, tree')
           /\ SameSystem(tree, tree') /\ tree'.live = tree.live
           /\ WithMenu(tree, tree') /\ tree'.relabel = tree.relabel
           /\ esp' \in EspShape /\ esp'.shim /\ esp'.grub = "image"
           /\ edition.loaderDir \in esp'.stub /\ esp'.entries = esp.entries
<1>1. /\ at = "grub files" /\ SamePlan /\ fault' = fault
      /\ at' = IF image.grub # "none" THEN "bootable" ELSE "failed"
      /\ tree' = WriteGrub2Cfg(WriteBlsEntry(tree))
      /\ esp' = WriteStub(CopyToEsp(esp, "image"))
  BY DEF FedoraEsp, Step, OrRaise, SamePlan
<1>2. tree \in TreeShape
  BY DEF Shapes
<1>3. /\ tree' \in TreeShape /\ SameKernels(tree, tree')
      /\ SameSystem(tree, tree') /\ SameLoader(tree, tree')
      /\ tree'.live = tree.live /\ tree'.relabel = tree.relabel
      /\ WithMenu(tree, tree')
  BY <1>1, <1>2, MenuTree
<1>4. /\ esp' \in EspShape /\ esp'.shim /\ esp'.grub = "image"
      /\ edition.loaderDir \in esp'.stub /\ esp'.entries = esp.entries
  BY <1>1, LoaderEsp
<1>. QED  BY <1>1, <1>3, <1>4

\* The entries that configure and bootloader write are for a kernel that is
\* there, whatever was there before.
LEMMA EntriesHaveKernels ==
    ASSUME NEW t, NEW u, SameKernels(t, u), WithMenu(t, u),
           t.entries # {} => KernelPath(t) \in t.kernels
    PROVE  /\ u.entries # {} => KernelPath(u) \in u.kernels
           /\ KernelPath(t) \in t.kernels => u.entries # {}
           /\ u.menu = {<<KernelPath(u), InitrdPath(u)>>}
           /\ u.menuBy = "driver"
<1>1. KernelPath(u) = KernelPath(t) /\ InitrdPath(u) = InitrdPath(t)
  BY SamePaths
<1>2. u.kernels = t.kernels
  BY DEF SameKernels
<1>. QED  BY <1>1, <1>2 DEF WithMenu

LEMMA FedoraSafe == ASSUME SafeInv, FedoraNext PROVE SafeInv'
<1>1. Shapes /\ Shared /\ tree \in TreeShape /\ InFedora /\ FedoraInv
      /\ fault \in BOOLEAN
      /\ tree.live \subseteq image.live /\ esp.entries \subseteq tree.kernels
  BY DEF SafeInv, Shared, Shapes, EmptyInv, FedoraNext, FedoraUnpack,
         FedoraFiles, KernelInstall, Dracut, FedoraConfigured, Grub2Tools,
         FedoraEsp, FedoraCheck, FedoraRaises
<1>2. ASSUME SamePlan, Shared', FedoraInv' PROVE SafeInv'
  BY <1>1, <1>2 DEF SamePlan, Shared, SafeInv, CasperInv, CachyosInv,
                    InCasper, InFedora, InCachyos
<1>. DEFINE v == VmlinuzVersion(tree)
<1>3. CASE FedoraUnpack
  <2>1. /\ SamePlan /\ at = "partitioned" /\ at' = "unpacked"
        /\ tree' \in TreeShape /\ tree'.entries = {}
        /\ tree'.live = image.live /\ esp' = esp /\ fault' = fault
    BY <1>1, <1>3, FedoraUnpackDoes
  <2>2. Shared'
    BY <1>1, <2>1, UnpackShared
  <2>3. FedoraInv'
    BY <2>1 DEF FedoraInv, FilesWritten, LoaderWritten
  <2>. QED  BY <1>2, <2>1, <2>2, <2>3
<1>4. CASE FedoraFiles
  <2>1. /\ SamePlan /\ at = "unpacked" /\ at' = "files" /\ esp' = esp
        /\ tree' \in TreeShape /\ WithFiles(tree, tree')
        /\ SameKernels(tree, tree') /\ WithMenu(tree, tree')
        /\ tree'.live \subseteq tree.live /\ fault' \in BOOLEAN
    BY <1>1, <1>4, FedoraFilesDoes
  <2>2. Shared'
    BY <1>1, <2>1, FilesShared DEF SameKernels
  <2>3. tree.entries = {}
    BY <1>1, <2>1 DEF Shared, EmptyInv
  <2>4. tree'.entries # {} => KernelPath(tree') \in tree'.kernels
    BY <2>1, <2>3, EntriesHaveKernels
  <2>5. FedoraInv'
    BY <2>1, <2>4 DEF FedoraInv, FilesWritten, LoaderWritten
  <2>. QED  BY <1>2, <2>1, <2>2, <2>5
<1>5. CASE KernelInstall
  <2>1. /\ SamePlan /\ at = "files" /\ esp' = esp /\ fault' \in BOOLEAN
        /\ at' = IF v # Plain THEN "kernel" ELSE "failed"
        /\ tree' \in TreeShape /\ SameSystem(tree, tree')
        /\ tree'.live = tree.live /\ tree.kernels \subseteq tree'.kernels
        /\ at' = "kernel" => /\ VmlinuzVersion(tree') = v
                             /\ v \in tree'.kernels \/ tree' = tree
    BY <1>1, <1>5, KernelInstallDoes
  <2>2. /\ at \in FilesWritten
        /\ at' \in (FilesWritten \ LoaderWritten) \cup {"failed"}
    BY <2>1 DEF FilesWritten, LoaderWritten
  <2>3. Shared'
    BY <1>1, <2>1, <2>2, StepShared
  <2>4. at' = "kernel" /\ tree'.entries # {} =>
           KernelPath(tree') \in tree'.kernels
    <3>1. CASE tree' = tree
      BY <1>1, <2>2, <3>1 DEF FedoraInv
    <3>2. CASE at' = "kernel" /\ v \in tree'.kernels
      BY <2>1, <3>2 DEF KernelPath
    <3>. QED  BY <2>1, <3>1, <3>2
  <2>5. FedoraInv'
    BY <2>1, <2>4 DEF FedoraInv, FilesWritten, LoaderWritten
  <2>. QED  BY <1>2, <2>1, <2>3, <2>5
<1>6. CASE Dracut
  <2>1. /\ SamePlan /\ at = "kernel" /\ at' = "initrd" /\ esp' = esp
        /\ fault' = fault
        /\ tree' \in TreeShape /\ SameMenu(tree, tree')
        /\ SameSystem(tree, tree') /\ tree'.live = tree.live
        /\ tree'.kernels = tree.kernels /\ VmlinuzVersion(tree') = v
        /\ tree'.initrd[v] \in {"disk", "live"}
    BY <1>1, <1>6, DracutDoes
  <2>2. /\ at \in FilesWritten
        /\ at' \in (FilesWritten \ LoaderWritten) \cup {"failed"}
    BY <2>1 DEF FilesWritten, LoaderWritten
  <2>3. Shared'
    BY <1>1, <2>1, <2>2, StepShared
  <2>4. tree'.entries # {} => KernelPath(tree') \in tree'.kernels
    BY <1>1, <2>1, <2>2 DEF FedoraInv, SameMenu, KernelPath
  <2>5. FedoraInv'
    BY <2>1, <2>4 DEF FedoraInv, FilesWritten, LoaderWritten
  <2>. QED  BY <1>2, <2>1, <2>3, <2>5
<1>7. CASE FedoraConfigured
  <2>1. /\ SamePlan /\ at = "initrd" /\ esp' = esp /\ fault' \in BOOLEAN
        /\ at' = IF InitramfsContainsLive(tree) THEN "failed" ELSE "configured"
        /\ tree' \in TreeShape /\ SameKernels(tree, tree')
        /\ SameSystem(tree, tree') /\ tree'.live = tree.live
        /\ WithMenu(tree, tree')
    BY <1>1, <1>7, FedoraConfiguredDoes
  <2>2. /\ at \in FilesWritten
        /\ at' \in (FilesWritten \ LoaderWritten) \cup {"failed"}
        /\ tree.kernels \subseteq tree'.kernels
    BY <2>1 DEF FilesWritten, LoaderWritten, SameKernels
  <2>3. Shared'
    BY <1>1, <2>1, <2>2, StepShared
  <2>4. tree'.entries # {} => KernelPath(tree') \in tree'.kernels
    BY <1>1, <2>1, <2>2, EntriesHaveKernels DEF FedoraInv
  <2>5. /\ VmlinuzVersion(tree') = v /\ tree'.initrd = tree.initrd
        /\ tree.initrd[v] # "none"
    BY <1>1, <2>1, <2>2, SamePaths
       DEF FedoraInv, FilesWritten, SameKernels
  <2>6. tree.initrd[v] \in {"none", "live", "disk"}
    BY <1>1, VersionFound DEF TreeShape
  <2>7. at' = "configured" => tree.initrd[v] = "disk"
    BY <2>1, <2>5, <2>6 DEF InitramfsContainsLive
  <2>8. FedoraInv'
    BY <2>1, <2>4, <2>5, <2>7 DEF FedoraInv, FilesWritten, LoaderWritten
  <2>. QED  BY <1>2, <2>1, <2>3, <2>8
<1>8. CASE Grub2Tools
  <2>1. /\ SamePlan /\ at = "configured" /\ at' = "grub files" /\ esp' = esp
        /\ fault' \in BOOLEAN
        /\ tree' \in TreeShape /\ SameKernels(tree, tree')
        /\ SameSystem(tree, tree') /\ tree'.live = tree.live
        /\ tree'.entries = tree.entries
    BY <1>1, <1>8, Grub2ToolsDoes
  <2>2. /\ at \in FilesWritten
        /\ at' \in (FilesWritten \ LoaderWritten) \cup {"failed"}
        /\ tree.kernels \subseteq tree'.kernels
    BY <2>1 DEF FilesWritten, LoaderWritten, SameKernels
  <2>3. Shared'
    BY <1>1, <2>1, <2>2, StepShared
  <2>4. /\ VmlinuzVersion(tree') = v /\ KernelPath(tree') = KernelPath(tree)
        /\ tree'.initrd = tree.initrd /\ tree'.kernels = tree.kernels
    BY <2>1, SamePaths DEF SameKernels
  <2>5. FedoraInv'
    BY <1>1, <2>1, <2>4 DEF FedoraInv, FilesWritten, LoaderWritten
  <2>. QED  BY <1>2, <2>1, <2>3, <2>5
<1>9. CASE FedoraEsp
  <2>1. /\ SamePlan /\ at = "grub files" /\ fault' = fault
        /\ at' = IF image.grub # "none" THEN "bootable" ELSE "failed"
        /\ tree' \in TreeShape /\ SameKernels(tree, tree')
        /\ SameSystem(tree, tree') /\ tree'.live = tree.live
        /\ WithMenu(tree, tree')
        /\ esp' \in EspShape /\ esp'.shim /\ esp'.grub = "image"
        /\ edition.loaderDir \in esp'.stub /\ esp'.entries = esp.entries
    BY <1>1, <1>9, FedoraEspDoes
  <2>2. /\ at \in FilesWritten /\ at' \in {"bootable", "failed"}
        /\ esp'.entries \subseteq tree'.kernels
    BY <1>1, <2>1 DEF FilesWritten, SameKernels
  <2>3. Shared'
    BY <1>1, <2>1, <2>2, LoaderShared
  <2>4. /\ VmlinuzVersion(tree') = v /\ tree'.initrd = tree.initrd
        /\ tree.initrd[v] = "disk"
    BY <1>1, <2>1, SamePaths
       DEF FedoraInv, FilesWritten, LoaderWritten, SameKernels
  <2>5. /\ tree'.entries # {} => KernelPath(tree') \in tree'.kernels
        /\ tree'.menu = {<<KernelPath(tree'), InitrdPath(tree')>>}
        /\ tree'.menuBy = "driver"
    BY <1>1, <2>1, <2>2, EntriesHaveKernels DEF FedoraInv
  <2>6. at' \in {"bootable", "failed"}
    BY <2>2
  <2>7. FedoraInv'
    BY <2>4, <2>5, <2>6 DEF FedoraInv, FilesWritten, LoaderWritten
  <2>. QED  BY <1>2, <2>1, <2>3, <2>7
<1>10. CASE FedoraCheck
  <2>1. /\ SamePlan /\ at = "bootable" /\ UNCHANGED <<tree, esp, fault>>
        /\ at' = IF FedoraHealthy THEN "healthy" ELSE "failed"
        /\ ~InCachyos
    BY <1>1, <1>10 DEF FedoraCheck, Step, SamePlan, InFedora, InCachyos
  <2>2. /\ at' \in {"healthy", "failed"}
        /\ at' = "healthy" => tree.entries # {} /\ tree.relabel
    BY <2>1 DEF FedoraHealthy
  <2>3. Shared'
    BY <1>1, <2>1, <2>2, CheckShared
  <2>4. FedoraInv'
    BY <1>1, <2>1, <2>2 DEF FedoraInv, FilesWritten, LoaderWritten
  <2>. QED  BY <1>2, <2>1, <2>3, <2>4
<1>11. CASE FedoraRaises
  BY <1>11, RaiseSafe DEF FedoraRaises
<1>. QED  BY <1>3, <1>4, <1>5, <1>6, <1>7, <1>8, <1>9, <1>10, <1>11
             DEF FedoraNext
-----------------------------------------------------------------------------
(* CachyOS: what each step of cachyos.py does.                             *)

LEMMA CopyKernelsTree ==
    ASSUME NEW t \in TreeShape, NEW copied \in SUBSET Versions, NEW u,
           u = CopyModuleKernels(t, copied)
    PROVE  /\ u \in TreeShape /\ u.kernels = t.kernels \cup copied
           /\ u.initrd = t.initrd /\ u.modules = t.modules
           /\ SameMenu(t, u) /\ SameSystem(t, u) /\ u.live = t.live
<1>1. copied \subseteq Names
  BY DEF Names
<1>. QED  BY <1>1 DEF CopyModuleKernels, TreeShape, SameMenu, SameSystem

LEMMA CachyosUnpackDoes ==
    ASSUME Shapes, CachyosUnpack
    PROVE  /\ at = "partitioned" /\ at' = "unpacked" /\ SamePlan
           /\ esp' = esp /\ fault' \in BOOLEAN /\ (fault => fault')
           /\ tree' \in TreeShape /\ tree'.entries = {}
           /\ tree'.live = image.live /\ tree'.greeter = edition.greeter
           /\ tree'.modules = image.modules
           /\ \A n \in Names : tree'.initrd[n] = "none"
           /\ ~fault' => image.modules \subseteq tree'.kernels
<1>. DEFINE t == Unpacked
            a == [t EXCEPT !.kernels = {}, !.initrd = NoInitrd]
<1>1. /\ at = "partitioned" /\ at' = "unpacked" /\ SamePlan /\ esp' = esp
  BY DEF CachyosUnpack, Step, SamePlan, OnlyTree
<1>2. PICK copied \in SUBSET (image.kernels \cup image.modules) :
         /\ tree' = CopyModuleKernels(a, copied)
         /\ Ran(copied = image.kernels \cup image.modules)
  BY DEF CachyosUnpack
<1>3. fault \in BOOLEAN /\ copied \in SUBSET Versions
  BY DEF Shapes, ImageShape
<1>4. /\ fault' \in BOOLEAN /\ (fault => fault')
      /\ ~fault' => copied = image.kernels \cup image.modules
  BY <1>2, <1>3 DEF Ran
<1>5. /\ t \in TreeShape /\ t.modules = image.modules
      /\ t.greeter = edition.greeter /\ t.live = image.live
      /\ t.entries = {}
  BY UnpackedTree
<1>. HIDE DEF t
<1>6. /\ NoInitrd \in [Names -> {"none", "live", "disk"}]
      /\ \A n \in Names : NoInitrd[n] = "none"
  BY DEF NoInitrd
<1>7. /\ a \in TreeShape /\ a.modules = t.modules /\ a.greeter = t.greeter
      /\ a.live = t.live /\ a.entries = t.entries /\ a.kernels = {}
      /\ a.initrd = NoInitrd
  BY <1>5, <1>6 DEF TreeShape
<1>. HIDE DEF a
<1>8. /\ tree' \in TreeShape /\ tree'.kernels = a.kernels \cup copied
      /\ tree'.initrd = a.initrd /\ tree'.modules = a.modules
      /\ SameMenu(a, tree') /\ SameSystem(a, tree') /\ tree'.live = a.live
  <2>1. tree' = CopyModuleKernels(a, copied)
    BY <1>2
  <2>2. a \in TreeShape
    BY <1>7
  <2>. QED  BY <1>3, <2>1, <2>2, CopyKernelsTree
<1>. QED  BY <1>1, <1>4, <1>5, <1>6, <1>7, <1>8 DEF SameMenu, SameSystem

LEMMA CachyosFilesDoes ==
    ASSUME Shapes, CachyosFiles
    PROVE  /\ at = "unpacked" /\ at' = "files" /\ SamePlan /\ esp' = esp
           /\ fault' \in BOOLEAN /\ (fault => fault')
           /\ tree' \in TreeShape
           /\ WithFiles(tree, tree') /\ SameKernels(tree, tree')
           /\ tree'.live \subseteq tree.live
           /\ ~fault' => tree'.live = tree.live \ CachyosStripped
<1>1. /\ at = "unpacked" /\ at' = "files" /\ SamePlan /\ esp' = esp
  BY DEF CachyosFiles, Step, SamePlan, OnlyTree
<1>2. PICK kept \in SUBSET (image.live \cap CachyosStripped) :
         /\ tree' = Strip(CommonFiles(tree), CachyosStripped, kept)
         /\ Ran(kept = {})
  BY DEF CachyosFiles
<1>3. tree \in TreeShape /\ fault \in BOOLEAN
  BY DEF Shapes
<1>. DEFINE a == CommonFiles(tree)
<1>4. /\ a \in TreeShape
      /\ a.fstab = DiskOf(edition.family)
      /\ a.accounts = (tree.accounts \ edition.liveUsers) \cup {user}
      /\ a.graphical = TRUE /\ a.masked = FALSE
      /\ SameKernels(tree, a) /\ SameMenu(tree, a) /\ SameLoader(tree, a)
      /\ a.greeter = tree.greeter /\ a.live = tree.live
  BY <1>3, CommonFilesTree
<1>5. tree' = Strip(a, CachyosStripped, kept)
  BY <1>2
<1>. HIDE DEF a
<1>6. /\ tree' \in TreeShape
      /\ tree'.live = (a.live \ CachyosStripped) \cup (a.live \cap kept)
      /\ SameKernels(a, tree') /\ SameMenu(a, tree') /\ SameSystem(a, tree')
      /\ SameLoader(a, tree')
  BY <1>4, <1>5, StripTree
<1>7. WithFiles(tree, tree') /\ SameKernels(tree, tree')
  BY <1>4, <1>6 DEF WithFiles, SameSystem, SameKernels
<1>8. fault' \in BOOLEAN /\ (fault => fault') /\ (~fault' => kept = {})
  BY <1>2, <1>3 DEF Ran
<1>. QED  BY <1>1, <1>4, <1>6, <1>7, <1>8

LEMMA StagedPackagesDoes ==
    ASSUME Shapes, InstallStagedPackages
    PROVE  /\ at = "files" /\ SamePlan /\ esp' = esp /\ tree' = tree
           /\ at' = IF image.pool # {} THEN "packages" ELSE "failed"
           /\ fault' \in BOOLEAN /\ (fault => fault')
<1>1. /\ at = "files" /\ SamePlan /\ esp' = esp /\ tree' = tree
      /\ at' = IF image.pool # {} THEN "packages" ELSE "failed"
      /\ \E ok \in BOOLEAN : Ran(ok)
  BY DEF InstallStagedPackages, Step, OrRaise, SamePlan
<1>2. fault \in BOOLEAN
  BY DEF Shapes
<1>3. fault' \in BOOLEAN /\ (fault => fault')
  BY <1>1, <1>2 DEF Ran
<1>. QED  BY <1>1, <1>3

LEMMA PresetsDoes ==
    ASSUME Shapes, MkinitcpioPresets
    PROVE  /\ at = "packages" /\ SamePlan /\ esp' = esp
           /\ at' \in {"configured", "failed"}
           /\ fault' \in BOOLEAN /\ (fault => fault')
           /\ tree' \in TreeShape /\ SameSystem(tree, tree')
           /\ tree'.live = tree.live \ {"archiso"}
           /\ tree.kernels \subseteq tree'.kernels
           /\ tree'.modules = tree.modules
           /\ at' = "configured" =>
                \E v \in tree'.kernels : tree'.initrd[v] = "disk"
           /\ \A n \in Names : tree'.initrd[n] \in {"disk", tree.initrd[n]}
           /\ ~fault' /\ tree.modules # {} => at' = "configured"
<1>1. tree \in TreeShape /\ fault \in BOOLEAN
  BY DEF Shapes
<1>. DEFINE t == WriteMkinitcpioConf(tree)
<1>2. PICK copied \in SUBSET tree.modules, done \in SUBSET tree.modules :
          /\ Step("packages", OrRaise(done # {}, "configured"))
          /\ done \subseteq tree.kernels \cup copied
          /\ tree' = [CopyModuleKernels(t, copied)
                        EXCEPT !.initrd = [n \in Names |->
                                 IF n \in done THEN "disk" ELSE @[n]]]
          /\ Ran(copied = tree.modules /\ done = tree.modules)
  BY DEF MkinitcpioPresets
<1>3. /\ at = "packages" /\ SamePlan /\ esp' = esp
      /\ at' = IF done # {} THEN "configured" ELSE "failed"
  BY <1>2 DEF MkinitcpioPresets, Step, OrRaise, SamePlan, OnlyTree
<1>4. /\ fault' \in BOOLEAN /\ (fault => fault')
      /\ ~fault' => done = tree.modules
  BY <1>1, <1>2 DEF Ran
<1>5. /\ t \in TreeShape /\ t.live = tree.live \ {"archiso"}
      /\ SameKernels(tree, t) /\ SameMenu(tree, t) /\ SameSystem(tree, t)
  <2>1. /\ t \in TreeShape
        /\ t.live = (tree.live \ {"archiso"}) \cup (tree.live \cap {})
        /\ SameKernels(tree, t) /\ SameMenu(tree, t) /\ SameSystem(tree, t)
        /\ SameLoader(tree, t)
    BY <1>1, StripTree DEF WriteMkinitcpioConf
  <2>. QED  BY <2>1
<1>. HIDE DEF t
<1>. DEFINE a == CopyModuleKernels(t, copied)
<1>6. copied \in SUBSET Versions /\ done \in SUBSET Versions
  BY <1>1 DEF TreeShape
<1>7. /\ a \in TreeShape /\ a.kernels = t.kernels \cup copied
      /\ a.initrd = t.initrd /\ a.modules = t.modules
      /\ SameMenu(t, a) /\ SameSystem(t, a) /\ a.live = t.live
  BY <1>5, <1>6, CopyKernelsTree
<1>. DEFINE made == [n \in Names |-> IF n \in done THEN "disk" ELSE a.initrd[n]]
<1>8. tree' = [a EXCEPT !.initrd = made]
  BY <1>2
<1>. HIDE DEF a
<1>9. /\ made \in [Names -> {"none", "live", "disk"}]
      /\ \A n \in done : made[n] = "disk"
      /\ \A n \in Names : made[n] \in {"disk", a.initrd[n]}
  BY <1>6, <1>7 DEF TreeShape, Names
<1>. HIDE DEF made
<1>10. /\ tree' \in TreeShape /\ SameSystem(a, tree') /\ tree'.live = a.live
       /\ tree'.kernels = a.kernels /\ tree'.modules = a.modules
       /\ tree'.initrd = made
  BY <1>7, <1>8, <1>9 DEF TreeShape, SameSystem
<1>11. tree'.kernels = tree.kernels \cup copied /\ a.initrd = tree.initrd
  BY <1>5, <1>7, <1>10 DEF SameKernels
<1>12. done # {} => \E v \in tree'.kernels : tree'.initrd[v] = "disk"
  BY <1>2, <1>9, <1>10, <1>11
<1>13. SameSystem(tree, tree') /\ tree'.modules = tree.modules
       /\ tree'.live = tree.live \ {"archiso"}
  BY <1>5, <1>7, <1>10 DEF SameSystem, SameKernels
<1>14. \A n \in Names : tree'.initrd[n] \in {"disk", tree.initrd[n]}
  BY <1>9, <1>10, <1>11
<1>. QED  BY <1>3, <1>4, <1>10, <1>11, <1>12, <1>13, <1>14

LEMMA EntriesShape == ASSUME NEW t \in TreeShape
                      PROVE  LoaderEntries(t) \in SUBSET (Names \X Names)
  BY DEF LoaderEntries, LoaderInitrds, TreeShape

LEMMA CachyosEspDoes ==
    ASSUME Shapes, CachyosEsp
    PROVE  /\ at = "configured" /\ SamePlan
           /\ at' = IF image.grub # "none" THEN "bootable" ELSE "failed"
           /\ fault' \in BOOLEAN /\ (fault => fault')
           /\ tree' \in TreeShape /\ SameSystem(tree, tree')
           /\ tree'.live = tree.live /\ tree'.initrd = tree.initrd
           /\ tree.kernels \subseteq tree'.kernels
           /\ tree'.menu = LoaderEntries(tree')
           /\ esp' \in EspShape /\ esp'.shim /\ esp'.grub = "image"
           /\ esp'.entries = tree'.kernels
<1>1. tree \in TreeShape /\ fault \in BOOLEAN /\ esp \in EspShape
  BY DEF Shapes
<1>2. PICK copied \in SUBSET tree.modules, ok \in BOOLEAN :
          LET t == CopyModuleKernels(tree, copied) IN
          /\ tree' = [t EXCEPT !.menu = LoaderEntries(t), !.menuBy = "driver"]
          /\ esp' = [CopyToEsp(esp, "image") EXCEPT !.entries = t.kernels]
          /\ Ran(ok /\ copied = tree.modules)
  BY DEF CachyosEsp
<1>. DEFINE t == CopyModuleKernels(tree, copied)
<1>3. /\ at = "configured" /\ SamePlan
      /\ at' = IF image.grub # "none" THEN "bootable" ELSE "failed"
  BY DEF CachyosEsp, Step, OrRaise, SamePlan
<1>4. fault' \in BOOLEAN /\ (fault => fault')
  BY <1>1, <1>2 DEF Ran
<1>5. copied \in SUBSET Versions
  BY <1>1 DEF TreeShape
<1>6. /\ t \in TreeShape /\ t.kernels = tree.kernels \cup copied
      /\ t.initrd = tree.initrd /\ t.modules = tree.modules
      /\ SameMenu(tree, t) /\ SameSystem(tree, t) /\ t.live = tree.live
  BY <1>1, <1>5, CopyKernelsTree
<1>. DEFINE listed == LoaderEntries(t)
<1>7. /\ tree' = [t EXCEPT !.menu = listed, !.menuBy = "driver"]
      /\ esp' = [CopyToEsp(esp, "image") EXCEPT !.entries = t.kernels]
  BY <1>2
<1>. HIDE DEF t
<1>8. listed \in SUBSET (Names \X Names) /\ t.kernels \subseteq Names
  BY <1>6, EntriesShape DEF TreeShape
<1>. HIDE DEF listed
<1>9. /\ tree' \in TreeShape /\ SameSystem(t, tree') /\ tree'.live = t.live
      /\ tree'.initrd = t.initrd /\ tree'.kernels = t.kernels
      /\ tree'.menu = listed
  BY <1>6, <1>7, <1>8 DEF TreeShape, SameSystem
<1>10. LoaderEntries(tree') = listed
  BY <1>9 DEF LoaderEntries, LoaderInitrds, listed
<1>11. /\ esp' \in EspShape /\ esp'.shim /\ esp'.grub = "image"
       /\ esp'.entries = t.kernels
  BY <1>1, <1>7, <1>8 DEF CopyToEsp, EspShape
<1>12. SameSystem(tree, tree') /\ tree.kernels \subseteq tree'.kernels
  BY <1>6, <1>9 DEF SameSystem
<1>. QED  BY <1>3, <1>4, <1>6, <1>9, <1>10, <1>11, <1>12

LEMMA CachyosSafe == ASSUME SafeInv, CachyosNext PROVE SafeInv'
<1>1. Shapes /\ Shared /\ tree \in TreeShape /\ InCachyos /\ CachyosInv
      /\ fault \in BOOLEAN
      /\ tree.live \subseteq image.live /\ esp.entries \subseteq tree.kernels
  BY DEF SafeInv, Shared, Shapes, EmptyInv, CachyosNext, CachyosUnpack,
         CachyosFiles, InstallStagedPackages, MkinitcpioPresets,
         CachyosConfigureFails, CachyosEsp, CachyosCheck, CachyosRaises
<1>2. ASSUME SamePlan, Shared', CachyosInv' PROVE SafeInv'
  BY <1>1, <1>2 DEF SamePlan, Shared, SafeInv, CasperInv, FedoraInv,
                    InCasper, InFedora, InCachyos
<1>3. CASE CachyosUnpack
  <2>1. /\ SamePlan /\ at = "partitioned" /\ at' = "unpacked"
        /\ tree' \in TreeShape /\ tree'.entries = {}
        /\ tree'.live = image.live /\ esp' = esp /\ fault' \in BOOLEAN
    BY <1>1, <1>3, CachyosUnpackDoes
  <2>2. Shared'
    BY <1>1, <2>1, UnpackShared
  <2>3. CachyosInv'
    BY <2>1 DEF CachyosInv, LoaderWritten
  <2>. QED  BY <1>2, <2>1, <2>2, <2>3
<1>4. CASE CachyosFiles
  <2>1. /\ SamePlan /\ at = "unpacked" /\ at' = "files" /\ esp' = esp
        /\ tree' \in TreeShape /\ WithFiles(tree, tree')
        /\ SameKernels(tree, tree') /\ tree'.live \subseteq tree.live
        /\ fault' \in BOOLEAN
    BY <1>1, <1>4, CachyosFilesDoes
  <2>2. Shared'
    BY <1>1, <2>1, FilesShared DEF SameKernels
  <2>3. CachyosInv'
    BY <2>1 DEF CachyosInv, LoaderWritten
  <2>. QED  BY <1>2, <2>1, <2>2, <2>3
<1>5. CASE InstallStagedPackages \/ MkinitcpioPresets
  <2>1. /\ SamePlan /\ at \in FilesWritten
        /\ at' \in {"packages", "configured", "failed"}
        /\ esp' = esp /\ fault' \in BOOLEAN
        /\ tree' \in TreeShape /\ SameSystem(tree, tree')
        /\ tree'.live \subseteq tree.live /\ tree.kernels \subseteq tree'.kernels
        /\ at' = "configured" =>
             \E v \in tree'.kernels : tree'.initrd[v] = "disk"
    <3>1. CASE InstallStagedPackages
      BY <1>1, <3>1, StagedPackagesDoes DEF FilesWritten, SameSystem
    <3>2. CASE MkinitcpioPresets
      BY <1>1, <3>2, PresetsDoes DEF FilesWritten
    <3>. QED  BY <1>5, <3>1, <3>2
  <2>2. at' \in (FilesWritten \ LoaderWritten) \cup {"failed"}
    BY <2>1 DEF FilesWritten, LoaderWritten
  <2>3. Shared'
    BY <1>1, <2>1, <2>2, StepShared
  <2>4. CachyosInv'
    BY <2>1 DEF CachyosInv, LoaderWritten
  <2>. QED  BY <1>2, <2>1, <2>3, <2>4
<1>6. CASE CachyosEsp
  <2>1. /\ SamePlan /\ at = "configured" /\ fault' \in BOOLEAN
        /\ at' = IF image.grub # "none" THEN "bootable" ELSE "failed"
        /\ tree' \in TreeShape /\ SameSystem(tree, tree')
        /\ tree'.live = tree.live /\ tree'.initrd = tree.initrd
        /\ tree.kernels \subseteq tree'.kernels
        /\ tree'.menu = LoaderEntries(tree')
        /\ esp' \in EspShape /\ esp'.shim /\ esp'.grub = "image"
        /\ esp'.entries = tree'.kernels
    BY <1>1, <1>6, CachyosEspDoes
  <2>2. at \in FilesWritten /\ at' \in {"bootable", "failed"}
    BY <2>1 DEF FilesWritten
  <2>3. Shared'
    BY <1>1, <2>1, <2>2, LoaderShared
  <2>4. \E v \in tree'.kernels : tree'.initrd[v] = "disk"
    BY <1>1, <2>1 DEF CachyosInv
  <2>5. CachyosInv'
    BY <2>1, <2>4 DEF CachyosInv, LoaderWritten
  <2>. QED  BY <1>2, <2>1, <2>3, <2>5
<1>7. CASE CachyosCheck
  <2>1. /\ SamePlan /\ at = "bootable" /\ UNCHANGED <<tree, esp, fault>>
        /\ at' = IF CachyosHealthy THEN "healthy" ELSE "failed"
    BY <1>1, <1>7 DEF CachyosCheck, Step, SamePlan
  <2>2. /\ at' \in {"healthy", "failed"}
        /\ at' = "healthy" => esp.entries # {}
    BY <2>1 DEF CachyosHealthy
  <2>3. Shared'
    BY <1>1, <2>1, <2>2, CheckShared
  <2>4. CachyosInv'
    BY <1>1, <2>1, <2>2
       DEF CachyosInv, LoaderWritten, LoaderEntries, LoaderInitrds
  <2>. QED  BY <1>2, <2>1, <2>3, <2>4
<1>8. CASE CachyosConfigureFails \/ CachyosRaises
  BY <1>8, RaiseSafe DEF CachyosConfigureFails, CachyosRaises
<1>. QED  BY <1>3, <1>4, <1>5, <1>6, <1>7, <1>8 DEF CachyosNext
-----------------------------------------------------------------------------
(* What a tree has that the health check accepts.                          *)

LEMMA NextSafe == ASSUME SafeInv, [Next]_vars PROVE SafeInv'
<1>1. CASE UNCHANGED vars
  <2>1. /\ edition' = edition /\ image' = image /\ user' = user /\ at' = at
        /\ tree' = tree /\ esp' = esp /\ fault' = fault
    BY <1>1 DEF vars
  <2>2. Shapes' /\ EmptyInv' /\ StartInv' /\ CasperInv'
    BY <2>1 DEF SafeInv, Shapes, EmptyInv, StartInv, CasperInv, InCasper,
                InCachyos
  <2>3. FedoraInv'
    BY <2>1 DEF SafeInv, FedoraInv, InFedora
  <2>4. CachyosInv'
    BY <2>1 DEF SafeInv, CachyosInv, InCachyos, LoaderEntries, LoaderInitrds
  <2>. QED  BY <2>2, <2>3, <2>4 DEF SafeInv
<1>. QED  BY <1>1, AttemptSafe, CasperSafe, FedoraSafe, DebianSafe, CachyosSafe
             DEF Next

LEMMA AlwaysSafe == Spec => []SafeInv
  BY InitSafe, NextSafe, PTL DEF Spec

\* Whatever failed on the way, the attempt works on a target, a plan and an
\* EFI partition of the shape that install_native and the drivers give them.
THEOREM TypeCorrect == Spec => []TypeOK
<1>1. SafeInv => TypeOK
  <2>. SUFFICES ASSUME SafeInv PROVE TypeOK
    OBVIOUS
  <2>1. tree \in TreeShape /\ esp \in EspShape
    BY DEF SafeInv, Shapes
  <2>2. /\ tree.kernels \subseteq Names
        /\ tree.initrd \in [Names -> {"none", "live", "disk"}]
        /\ tree.fstab \subseteq {"root", "esp", "boot", "home"}
        /\ tree.menu \subseteq Names \X Names
        /\ tree.entries \subseteq Names \X Names
        /\ esp.grub \in {"none", "image", "host"}
    BY <2>1 DEF TreeShape, EspShape, FedoraDisk
  <2>. QED  BY <2>2 DEF SafeInv, Shapes, EmptyInv, TypeOK
<1>. QED  BY <1>1, AlwaysSafe, PTL

\* Whatever failed on the way: a tree that the health check accepts has its
\* loader, the loader its configuration, the fstab the disk's mount points and
\* the customer the only account (install_native's drivers).
THEOREM HealthyStartsHolds == Spec => []HealthyStarts
<1>1. SafeInv => HealthyStarts
  BY DEF SafeInv, Shapes, StartInv, HealthyStarts, FilesWritten, LoaderWritten
<1>. QED  BY <1>1, AlwaysSafe, PTL

\* Whatever failed on the way: a tree that the health check accepts has a
\* kernel with an initrd that goes with it (casper's, Fedora's and CachyOS's
\* health_check, for any number of kernel versions).
THEOREM HealthyPairHolds == Spec => []HealthyPair
<1>1. SafeInv => HealthyPair
  <2>. SUFFICES ASSUME SafeInv, at = "healthy" PROVE HealthyPair
    BY DEF HealthyPair
  <2>1. InCasper => Paired(tree) \cap Versions # {}
    BY DEF SafeInv, CasperInv, InstalledKernelOk
  <2>2. ASSUME InFedora
        PROVE  /\ tree.menuBy = "driver"
               /\ tree.menu # {}
               /\ \A e \in tree.menu : /\ e[1] \in tree.kernels
                                       /\ tree.initrd[e[2]] = "disk"
               /\ tree.relabel
    <3>1. /\ KernelPath(tree) \in tree.kernels
          /\ tree.initrd[VmlinuzVersion(tree)] = "disk"
          /\ tree.menu = {<<KernelPath(tree), InitrdPath(tree)>>}
          /\ tree.menuBy = "driver" /\ tree.relabel
      BY <2>2 DEF SafeInv, FedoraInv, FilesWritten, LoaderWritten
    <3>2. InitrdPath(tree) = VmlinuzVersion(tree)
      BY <3>1 DEF InitrdPath
    <3>. QED  BY <3>1, <3>2
  <2>3. ASSUME InCachyos
        PROVE  \E e \in tree.menu : /\ e[1] = e[2]
                                    /\ tree.initrd[e[1]] = "disk"
    <3>1. PICK v \in tree.kernels : tree.initrd[v] = "disk"
      BY <2>3 DEF SafeInv, CachyosInv, LoaderWritten
    <3>2. tree.menu = LoaderEntries(tree)
      BY <2>3 DEF SafeInv, CachyosInv, LoaderWritten
    <3>3. <<v, v>> \in tree.menu
      BY <3>1, <3>2 DEF LoaderEntries, LoaderInitrds
    <3>. QED  BY <3>1, <3>3
  <2>. QED  BY <2>1, <2>2, <2>3 DEF HealthyPair
<1>. QED  BY <1>1, AlwaysSafe, PTL
-----------------------------------------------------------------------------
(* An attempt in which nothing fails, with an image that the drivers'      *)
(* comments describe.                                                      *)

Clean == ~fault /\ GoodImage

Started == {"unpacked"} \cup FilesWritten

\* Where the loader's files are before bootloader looks for them.
FromImage == IF image.grub = "tree" THEN "image" ELSE "none"

CommonClean ==
    /\ at # "failed"
    /\ at \in Started => tree.greeter = edition.greeter
    /\ at \in FilesWritten => tree.graphical /\ ~tree.masked

\* The tree has a version, or its package is on the image until it is
\* installed.  All versions have an initrd or none has, so that one pass of
\* update-initramfs reaches them all; the hooks are gone by then.
CasperClean == InCasper =>
    /\ at \in {"unpacked", "files"} =>
          KernelVersions(tree) # {} \/ (edition.poolKernel /\ image.pool # {})
    /\ at \in FilesWritten \ {"files"} => KernelVersions(tree) # {}
    /\ at \in {"unpacked", "files", "kernel", "purged"} => Uniform(tree)
    /\ at \in {"configured", "grub files", "menu"} \cup LoaderWritten =>
          AllForDisk(tree)
    /\ at \in FilesWritten => tree.live \subseteq {"packages"}
    /\ at \in FilesWritten \ {"files", "kernel"} => tree.live = {}
    /\ at \in {"unpacked", "files", "kernel", "purged", "configured"} =>
          tree.grubModules = FromImage /\ tree.signed = FromImage
    /\ at \in {"grub files", "menu"} \cup LoaderWritten =>
          tree.grubModules = "image" /\ tree.signed = "image"
    /\ at \in {"menu"} \cup LoaderWritten =>
          tree.menu = {<<v, v>> : v \in KernelVersions(tree)}
    /\ at \in LoaderWritten => esp.grub = "image"

\* kernel-install and dracut work on the same version, and no live
\* configuration is left when dracut runs.
FedoraClean == InFedora =>
    /\ at \in Started => VmlinuzVersion(tree) # Plain
    /\ at \in FilesWritten => tree.live = {}
    /\ at \in FilesWritten \ {"files"} =>
          VmlinuzVersion(tree) \in tree.kernels
    /\ at \in FilesWritten \ {"files", "kernel"} =>
          tree.initrd[VmlinuzVersion(tree)] = "disk"
    /\ at \in {"configured", "grub files"} \cup LoaderWritten =>
          tree.relabel /\ tree.entries # {}

DebianClean == InDebian =>
    /\ at \in Started => DebianKernels(tree)
    /\ at \in FilesWritten => tree.live \subseteq {"packages"}
    /\ at \in FilesWritten \ {"files"} => tree.live = {}
    /\ at \in {"unpacked", "files", "purged", "configured"} =>
          tree.signed = FromImage
    /\ at \in {"grub files", "menu"} \cup LoaderWritten =>
          tree.signed = "image"
    /\ at \in {"menu"} \cup LoaderWritten =>
          \E v \in tree.kernels : tree.menu = {<<v, v>>}

\* The initrds that there are come from the presets.
CachyosClean == InCachyos =>
    /\ at \in {"unpacked", "files", "packages"} =>
          /\ tree.modules = image.modules
          /\ \A n \in Names : tree.initrd[n] = "none"
    /\ at \in {"files", "packages"} => tree.live \subseteq {"archiso"}
    /\ at \in {"configured"} \cup LoaderWritten =>
          /\ tree.live = {}
          /\ \A n \in Names : tree.initrd[n] \in {"none", "disk"}
    /\ at \in LoaderWritten => esp.entries = tree.kernels

CleanInv == Clean => /\ CommonClean
                     /\ CasperClean /\ FedoraClean
                     /\ DebianClean /\ CachyosClean

LEMMA WasClean ==
    ASSUME SamePlan, fault => fault', Clean'
    PROVE  Clean /\ GoodImage /\ ~fault'
  BY DEF SamePlan, Clean, GoodImage, LeftBy, InCasper, InFedora, InDebian,
         InCachyos

\* Nothing of an image's live session stays that the family does not look for.
LEMMA CleanLive ==
    ASSUME Shapes, GoodImage
    PROVE  /\ InCasper =>
                image.live \subseteq CasperStripped \cup {"packages", "cmdline"}
           /\ InFedora => image.live \subseteq FedoraStripped \cup {"cmdline"}
           /\ InDebian =>
                image.live \subseteq DebianStripped \cup {"packages", "cmdline"}
           /\ InCachyos =>
                image.live \subseteq CachyosStripped \cup {"archiso"}
           /\ tree.live \subseteq image.live
  BY DEF Shapes, GoodImage, LeftBy, InCasper, InFedora, InDebian, InCachyos

\* What every family's check asks for.
LEMMA CleanTreeHealthy ==
    ASSUME Shared, CommonClean, at = "bootable", tree.kernels # {},
           tree.live = {}
    PROVE  TreeHealthy(tree, esp)
  BY DEF Shared, StartInv, CommonClean, FilesWritten, LoaderWritten, Started,
         TreeHealthy, FstabOk, HasKernelFile, EspBootloaderOk, AccountOk,
         GreeterOk, NoLeftoverCmdline

LEMMA CasperStaysClean ==
    ASSUME SafeInv, CleanInv, CasperNext PROVE CleanInv'
<1>1. Shapes /\ Shared /\ tree \in TreeShape /\ InCasper /\ fault \in BOOLEAN
  BY DEF SafeInv, Shared, Shapes, CasperNext, CasperUnpack,
         CasperFiles, InstallKernelFromIso, PurgeLivePackages, CasperInitrd,
         CasperGrubFiles, UpdateGrub, CasperEsp, CasperCheck, CasperRaises
<1>2. ASSUME SamePlan, Clean' => CommonClean' /\ CasperClean'
      PROVE  CleanInv'
  BY <1>1, <1>2 DEF SamePlan, CleanInv, FedoraClean, DebianClean,
                    CachyosClean, InCasper, InFedora, InDebian, InCachyos
<1>3. /\ Clean => CommonClean /\ CasperClean
      /\ SamePlan => edition' = edition /\ image' = image /\ InCasper'
      /\ SamePlan => FromImage' = FromImage
  BY <1>1 DEF CleanInv, SamePlan, FromImage, InCasper
<1>4. CASE CasperUnpack
  <2>1. /\ SamePlan /\ at' = "unpacked" /\ fault' = fault
        /\ tree'.greeter = edition.greeter
        /\ tree'.grubModules = FromImage /\ tree'.signed = FromImage
        /\ KernelVersions(tree') = image.kernels
        /\ \A v \in Versions :
              tree'.initrd[v] = IF v \in image.initrds THEN "live" ELSE "none"
    BY <1>1, <1>4, CasperUnpackDoes DEF FromImage
  <2>. SUFFICES ASSUME Clean' PROVE CommonClean' /\ CasperClean'
    BY <1>2, <2>1
  <2>2. /\ image.initrds \in {{}, image.kernels}
        /\ image.kernels # {} \/ (edition.poolKernel /\ image.pool # {})
        /\ image.kernels \subseteq Versions
    BY <1>1, <2>1, WasClean DEF GoodImage, Shapes, ImageShape
  <2>3. Uniform(tree')
    BY <2>1, <2>2 DEF Uniform
  <2>. QED  BY <1>3, <2>1, <2>2, <2>3
               DEF CommonClean, CasperClean, FilesWritten, LoaderWritten,
                   Started
<1>5. CASE CasperFiles
  <2>1. /\ SamePlan /\ at = "unpacked" /\ at' = "files" /\ (fault => fault')
        /\ WithFiles(tree, tree') /\ SameKernels(tree, tree')
        /\ SameLoader(tree, tree') /\ tree'.live \subseteq tree.live
        /\ ~fault' => tree'.live \cap (CasperStripped \cup {"cmdline"}) = {}
    BY <1>1, <1>5, CasperFilesDoes
  <2>. SUFFICES ASSUME Clean' PROVE CommonClean' /\ CasperClean'
    BY <1>2, <2>1
  <2>2. CommonClean /\ CasperClean /\ GoodImage /\ ~fault'
    BY <1>3, <2>1, WasClean
  <2>3. tree'.live \subseteq {"packages"}
    BY <1>1, <2>1, <2>2, CleanLive
  <2>4. /\ KernelVersions(tree') = KernelVersions(tree)
        /\ tree'.initrd = tree.initrd
    BY <2>1 DEF SameKernels, KernelVersions
  <2>5. Uniform(tree')
    BY <1>1, <2>1, <2>2, <2>4 DEF CasperClean, Uniform
  <2>6. /\ KernelVersions(tree') # {}
           \/ (edition.poolKernel /\ image.pool # {})
        /\ tree'.grubModules = FromImage /\ tree'.signed = FromImage
    BY <1>1, <2>1, <2>2, <2>4 DEF CasperClean, SameLoader
  <2>7. CommonClean'
    BY <1>3, <2>1, <2>2
       DEF CommonClean, WithFiles, FilesWritten, Started
  <2>. QED  BY <1>3, <2>1, <2>3, <2>5, <2>6, <2>7
               DEF CasperClean, FilesWritten, LoaderWritten
<1>6. CASE InstallKernelFromIso
  <2>1. /\ SamePlan /\ at = "files" /\ (fault => fault')
        /\ SameSystem(tree, tree') /\ SameLoader(tree, tree')
        /\ tree'.live = tree.live
        /\ \/ /\ ~edition.poolKernel \/ KernelVersions(tree) # {}
              /\ at' = "kernel" /\ tree' = tree /\ fault' = fault
           \/ /\ edition.poolKernel /\ KernelVersions(tree) = {}
              /\ ~fault' /\ image.pool # {} /\ image.builder # "none" =>
                   /\ at' = "kernel"
                   /\ KernelVersions(tree') = image.pool
                   /\ \A v \in image.pool : tree'.initrd[v] = "disk"
    BY <1>1, <1>6, InstallKernelDoes
  <2>. SUFFICES ASSUME Clean' PROVE CommonClean' /\ CasperClean'
    BY <1>2, <2>1
  <2>2. CommonClean /\ CasperClean /\ GoodImage /\ ~fault'
    BY <1>3, <2>1, WasClean
  <2>3. /\ KernelVersions(tree) # {} \/ (edition.poolKernel /\ image.pool # {})
        /\ Uniform(tree) /\ image.builder # "none"
        /\ tree.live \subseteq {"packages"}
        /\ tree.grubModules = FromImage /\ tree.signed = FromImage
    BY <1>1, <2>1, <2>2 DEF CasperClean, GoodImage, FilesWritten
  <2>4. at' = "kernel" /\ KernelVersions(tree') # {} /\ Uniform(tree')
    <3>1. CASE KernelVersions(tree) # {}
      BY <2>1, <2>3, <3>1
    <3>2. CASE KernelVersions(tree) = {}
      BY <2>1, <2>2, <2>3, <3>2 DEF Uniform
    <3>. QED  BY <3>1, <3>2
  <2>5. CommonClean'
    BY <1>3, <2>1, <2>2, <2>4
       DEF CommonClean, SameSystem, FilesWritten, Started
  <2>. QED  BY <1>3, <2>1, <2>3, <2>4, <2>5
               DEF CasperClean, SameLoader, FilesWritten, LoaderWritten
<1>7. CASE PurgeLivePackages
  <2>1. /\ SamePlan /\ at = "kernel" /\ at' = "purged" /\ (fault => fault')
        /\ SameKernels(tree, tree') /\ SameSystem(tree, tree')
        /\ SameLoader(tree, tree')
        /\ ~fault' => tree'.live = (tree.live \ {"packages"})
                                   \ (CasperHooks \cup LiveSessions)
    BY <1>1, <1>7, CasperPurgeDoes
  <2>. SUFFICES ASSUME Clean' PROVE CommonClean' /\ CasperClean'
    BY <1>2, <2>1
  <2>2. CommonClean /\ CasperClean /\ GoodImage /\ ~fault'
    BY <1>3, <2>1, WasClean
  <2>3. tree'.live = {}
    BY <1>1, <2>1, <2>2 DEF CasperClean, FilesWritten
  <2>4. /\ KernelVersions(tree') = KernelVersions(tree)
        /\ tree'.initrd = tree.initrd
    BY <2>1 DEF SameKernels, KernelVersions
  <2>5. Uniform(tree') /\ KernelVersions(tree') # {}
    BY <1>1, <2>1, <2>2, <2>4 DEF CasperClean, Uniform, FilesWritten
  <2>6. tree'.grubModules = FromImage /\ tree'.signed = FromImage
    BY <1>1, <2>1, <2>2 DEF CasperClean, SameLoader
  <2>7. CommonClean'
    BY <1>3, <2>1, <2>2 DEF CommonClean, SameSystem, FilesWritten, Started
  <2>. QED  BY <1>3, <2>1, <2>3, <2>5, <2>6, <2>7
               DEF CasperClean, FilesWritten, LoaderWritten
<1>8. CASE CasperInitrd
  <2>1. /\ SamePlan /\ at = "purged" /\ (fault => fault')
        /\ SameSystem(tree, tree') /\ SameLoader(tree, tree')
        /\ tree'.live = tree.live /\ tree'.kernels = tree.kernels
        /\ /\ ~fault' /\ image.builder \in {"update-initramfs", "dracut"}
           /\ Uniform(tree) /\ KernelVersions(tree) # {} /\ tree.live = {}
           => at' = "configured" /\ AllForDisk(tree')
    BY <1>1, <1>8, CasperInitrdDoes
  <2>. SUFFICES ASSUME Clean' PROVE CommonClean' /\ CasperClean'
    BY <1>2, <2>1
  <2>2. CommonClean /\ CasperClean /\ GoodImage /\ ~fault'
    BY <1>3, <2>1, WasClean
  <2>3. /\ Uniform(tree) /\ KernelVersions(tree) # {} /\ tree.live = {}
        /\ image.builder \in {"update-initramfs", "dracut"}
        /\ tree.grubModules = FromImage /\ tree.signed = FromImage
    BY <1>1, <2>1, <2>2 DEF CasperClean, GoodImage, FilesWritten
  <2>4. /\ at' = "configured" /\ AllForDisk(tree')
        /\ KernelVersions(tree') # {}
    BY <2>1, <2>2, <2>3 DEF KernelVersions
  <2>5. CommonClean'
    BY <1>3, <2>1, <2>2, <2>4
       DEF CommonClean, SameSystem, FilesWritten, Started
  <2>. QED  BY <1>3, <2>1, <2>3, <2>4, <2>5
               DEF CasperClean, SameLoader, FilesWritten, LoaderWritten
<1>9. CASE CasperGrubFiles
  <2>1. /\ SamePlan /\ at = "configured" /\ at' = "grub files"
        /\ (fault => fault')
        /\ SameKernels(tree, tree') /\ SameSystem(tree, tree')
        /\ tree'.live = tree.live
        /\ /\ ~fault' /\ image.grub # "none"
           /\ {tree.grubModules, tree.signed} =
                 IF image.grub = "tree" THEN {"image"} ELSE {"none"}
           => tree'.grubModules = "image" /\ tree'.signed = "image"
    BY <1>1, <1>9, CasperGrubDoes
  <2>. SUFFICES ASSUME Clean' PROVE CommonClean' /\ CasperClean'
    BY <1>2, <2>1
  <2>2. CommonClean /\ CasperClean /\ GoodImage /\ ~fault'
    BY <1>3, <2>1, WasClean
  <2>3. /\ KernelVersions(tree) # {} /\ AllForDisk(tree) /\ tree.live = {}
        /\ image.grub # "none"
        /\ tree.grubModules = FromImage /\ tree.signed = FromImage
    BY <1>1, <2>1, <2>2 DEF CasperClean, GoodImage, FilesWritten
  <2>4. tree'.grubModules = "image" /\ tree'.signed = "image"
    BY <2>1, <2>2, <2>3 DEF FromImage
  <2>5. KernelVersions(tree') # {} /\ AllForDisk(tree')
    BY <2>1, <2>3 DEF KernelVersions, AllForDisk, SameKernels
  <2>6. CommonClean'
    BY <1>3, <2>1, <2>2 DEF CommonClean, SameSystem, FilesWritten, Started
  <2>. QED  BY <1>3, <2>1, <2>3, <2>4, <2>5, <2>6
               DEF CasperClean, FilesWritten, LoaderWritten
<1>10. CASE UpdateGrub
  <2>1. /\ SamePlan /\ at = "grub files" /\ at' = "menu" /\ (fault => fault')
        /\ SameKernels(tree, tree') /\ SameSystem(tree, tree')
        /\ SameLoader(tree, tree') /\ tree'.live = tree.live
        /\ ~fault' => tree'.menu = {<<v, v>> : v \in KernelVersions(tree)}
    BY <1>1, <1>10, UpdateGrubDoes
  <2>. SUFFICES ASSUME Clean' PROVE CommonClean' /\ CasperClean'
    BY <1>2, <2>1
  <2>2. CommonClean /\ CasperClean /\ ~fault'
    BY <1>3, <2>1, WasClean
  <2>3. /\ KernelVersions(tree) # {} /\ AllForDisk(tree) /\ tree.live = {}
        /\ tree.grubModules = "image" /\ tree.signed = "image"
    BY <1>1, <2>1, <2>2 DEF CasperClean, FilesWritten
  <2>4. KernelVersions(tree') = KernelVersions(tree) /\ AllForDisk(tree')
    BY <2>1, <2>3 DEF KernelVersions, AllForDisk, SameKernels
  <2>5. CommonClean'
    BY <1>3, <2>1, <2>2 DEF CommonClean, SameSystem, FilesWritten, Started
  <2>6. tree'.menu = {<<v, v>> : v \in KernelVersions(tree')}
    BY <2>1, <2>2, <2>4
  <2>. QED  BY <1>3, <2>1, <2>3, <2>4, <2>5, <2>6
               DEF CasperClean, SameLoader, FilesWritten, LoaderWritten
<1>11. CASE CasperEsp
  <2>1. /\ SamePlan /\ at = "menu" /\ at' = "bootable"
        /\ tree' = tree /\ fault' = fault
        /\ tree.signed # "none" => esp'.grub = tree.signed
    BY <1>1, <1>11, CasperEspDoes
  <2>. SUFFICES ASSUME Clean' PROVE CommonClean' /\ CasperClean'
    BY <1>2, <2>1
  <2>2. CommonClean /\ CasperClean
    BY <1>3, <2>1, WasClean
  <2>3. CommonClean'
    BY <1>3, <2>1, <2>2 DEF CommonClean, FilesWritten, Started
  <2>4. esp'.grub = "image"
    BY <1>1, <2>1, <2>2 DEF CasperClean
  <2>. QED  BY <1>1, <1>3, <2>1, <2>2, <2>3, <2>4
               DEF CasperClean, FilesWritten, LoaderWritten
<1>12. CASE CasperCheck
  <2>1. /\ SamePlan /\ at = "bootable" /\ UNCHANGED <<tree, esp, fault>>
        /\ at' = IF CasperHealthy THEN "healthy" ELSE "failed"
    BY <1>1, <1>12 DEF CasperCheck, Step, SamePlan
  <2>. SUFFICES ASSUME Clean' PROVE CommonClean' /\ CasperClean'
    BY <1>2, <2>1
  <2>2. CommonClean /\ CasperClean
    BY <1>3, <2>1, WasClean
  <2>3. KernelVersions(tree) # {} /\ AllForDisk(tree) /\ tree.live = {}
    BY <1>1, <2>1, <2>2 DEF CasperClean, FilesWritten, LoaderWritten
  <2>4. tree.kernels # {} /\ TreeHealthy(tree, esp)
    BY <1>1, <2>1, <2>2, <2>3, CleanTreeHealthy DEF KernelVersions
  <2>5. InstalledKernelOk(tree)
    <3>1. PICK v \in KernelVersions(tree) : tree.initrd[v] = "disk"
      BY <2>3 DEF AllForDisk
    <3>2. v \in tree.kernels /\ v \in Versions
      BY <1>1, <3>1 DEF KernelVersions, TreeShape, Names
    <3>. QED  BY <3>1, <3>2 DEF InstalledKernelOk, Paired
  <2>6. at' = "healthy"
    BY <2>1, <2>3, <2>4, <2>5 DEF CasperHealthy, CasperLeftovers
  <2>7. CommonClean'
    BY <1>3, <2>1, <2>2, <2>6 DEF CommonClean, FilesWritten, Started
  <2>. QED  BY <1>1, <1>3, <2>1, <2>2, <2>6, <2>7
               DEF CasperClean, FilesWritten, LoaderWritten
<1>13. CASE CasperRaises
  BY <1>13 DEF CasperRaises, Raise, CleanInv, Clean
<1>. QED  BY <1>4, <1>5, <1>6, <1>7, <1>8, <1>9, <1>10, <1>11, <1>12, <1>13
             DEF CasperNext

LEMMA FedoraStaysClean ==
    ASSUME SafeInv, CleanInv, FedoraNext PROVE CleanInv'
<1>1. /\ Shapes /\ Shared /\ FedoraInv /\ tree \in TreeShape /\ InFedora
      /\ fault \in BOOLEAN
  BY DEF SafeInv, Shared, Shapes, FedoraNext, FedoraUnpack,
         FedoraFiles, KernelInstall, Dracut, FedoraConfigured, Grub2Tools,
         FedoraEsp, FedoraCheck, FedoraRaises
<1>2. ASSUME SamePlan, Clean' => CommonClean' /\ FedoraClean'
      PROVE  CleanInv'
  BY <1>1, <1>2 DEF SamePlan, CleanInv, CasperClean, DebianClean,
                    CachyosClean, InCasper, InFedora, InDebian, InCachyos
<1>. DEFINE v == VmlinuzVersion(tree)
<1>3. /\ Clean => CommonClean /\ FedoraClean
      /\ SamePlan => edition' = edition /\ image' = image /\ InFedora'
  BY <1>1 DEF CleanInv, SamePlan, InFedora
<1>4. CASE FedoraUnpack
  <2>1. /\ SamePlan /\ at' = "unpacked" /\ fault' = fault
        /\ tree'.greeter = edition.greeter
        /\ image.modules # {} \/ image.kernels # {} =>
             VmlinuzVersion(tree') # Plain
    BY <1>1, <1>4, FedoraUnpackDoes
  <2>. SUFFICES ASSUME Clean' PROVE CommonClean' /\ FedoraClean'
    BY <1>2, <2>1
  <2>2. image.modules # {} \/ image.kernels # {}
    BY <1>1, <2>1, WasClean DEF GoodImage
  <2>. QED  BY <1>3, <2>1, <2>2
               DEF CommonClean, FedoraClean, FilesWritten, LoaderWritten,
                   Started
<1>5. CASE FedoraFiles
  <2>1. /\ SamePlan /\ at = "unpacked" /\ at' = "files" /\ (fault => fault')
        /\ WithFiles(tree, tree') /\ SameKernels(tree, tree')
        /\ tree'.live \subseteq tree.live
        /\ ~fault' => tree'.live \cap (FedoraStripped \cup {"cmdline"}) = {}
    BY <1>1, <1>5, FedoraFilesDoes
  <2>. SUFFICES ASSUME Clean' PROVE CommonClean' /\ FedoraClean'
    BY <1>2, <2>1
  <2>2. CommonClean /\ FedoraClean /\ GoodImage /\ ~fault'
    BY <1>3, <2>1, WasClean
  <2>3. tree'.live = {}
    BY <1>1, <2>1, <2>2, CleanLive
  <2>4. VmlinuzVersion(tree') # Plain
    BY <1>1, <2>1, <2>2, SamePaths DEF FedoraClean, Started
  <2>5. CommonClean'
    BY <1>3, <2>1, <2>2 DEF CommonClean, WithFiles, FilesWritten, Started
  <2>. QED  BY <2>1, <2>3, <2>4, <2>5
               DEF FedoraClean, FilesWritten, LoaderWritten, Started
<1>6. CASE KernelInstall
  <2>1. /\ SamePlan /\ at = "files" /\ (fault => fault')
        /\ at' = IF v # Plain THEN "kernel" ELSE "failed"
        /\ SameSystem(tree, tree') /\ tree'.live = tree.live
        /\ at' = "kernel" =>
             /\ VmlinuzVersion(tree') = v
             /\ ~fault' => v \in tree'.kernels
    BY <1>1, <1>6, KernelInstallDoes
  <2>. SUFFICES ASSUME Clean' PROVE CommonClean' /\ FedoraClean'
    BY <1>2, <2>1
  <2>2. CommonClean /\ FedoraClean /\ ~fault'
    BY <1>3, <2>1, WasClean
  <2>3. v # Plain /\ tree.live = {}
    BY <1>1, <2>1, <2>2 DEF FedoraClean, FilesWritten, Started
  <2>4. CommonClean'
    BY <1>3, <2>1, <2>2, <2>3
       DEF CommonClean, SameSystem, FilesWritten, Started
  <2>. QED  BY <2>1, <2>2, <2>3, <2>4
               DEF FedoraClean, FilesWritten, LoaderWritten, Started
<1>7. CASE Dracut
  <2>1. /\ SamePlan /\ at = "kernel" /\ at' = "initrd" /\ fault' = fault
        /\ SameSystem(tree, tree')
        /\ tree'.live = tree.live /\ tree'.kernels = tree.kernels
        /\ VmlinuzVersion(tree') = v
        /\ tree.live = {} => tree'.initrd[v] = "disk"
    BY <1>1, <1>7, DracutDoes
  <2>. SUFFICES ASSUME Clean' PROVE CommonClean' /\ FedoraClean'
    BY <1>2, <2>1
  <2>2. CommonClean /\ FedoraClean
    BY <1>3, <2>1, WasClean
  <2>3. v # Plain /\ tree.live = {} /\ v \in tree.kernels
    BY <1>1, <2>1, <2>2 DEF FedoraClean, FilesWritten, Started
  <2>4. CommonClean'
    BY <1>3, <2>1, <2>2 DEF CommonClean, SameSystem, FilesWritten, Started
  <2>. QED  BY <2>1, <2>3, <2>4
               DEF FedoraClean, FilesWritten, LoaderWritten, Started
<1>8. CASE FedoraConfigured
  <2>1. /\ SamePlan /\ at = "initrd" /\ (fault => fault')
        /\ at' = IF InitramfsContainsLive(tree) THEN "failed" ELSE "configured"
        /\ SameKernels(tree, tree')
        /\ SameSystem(tree, tree') /\ tree'.live = tree.live
        /\ WithMenu(tree, tree') /\ tree'.relabel = TRUE
    BY <1>1, <1>8, FedoraConfiguredDoes
  <2>. SUFFICES ASSUME Clean' PROVE CommonClean' /\ FedoraClean'
    BY <1>2, <2>1
  <2>2. CommonClean /\ FedoraClean
    BY <1>3, <2>1, WasClean
  <2>3. /\ v # Plain /\ tree.live = {} /\ v \in tree.kernels
        /\ tree.initrd[v] = "disk"
    BY <1>1, <2>1, <2>2 DEF FedoraClean, FilesWritten, Started
  <2>4. at' = "configured"
    BY <2>1, <2>3 DEF InitramfsContainsLive
  <2>5. VmlinuzVersion(tree') = v /\ tree'.kernels = tree.kernels
        /\ tree'.initrd = tree.initrd
    BY <2>1, SamePaths DEF SameKernels
  <2>6. tree'.entries # {}
    BY <2>1, <2>3 DEF WithMenu, KernelPath
  <2>7. CommonClean'
    BY <1>3, <2>1, <2>2, <2>4
       DEF CommonClean, SameSystem, FilesWritten, Started
  <2>. QED  BY <2>1, <2>3, <2>4, <2>5, <2>6, <2>7
               DEF FedoraClean, FilesWritten, LoaderWritten, Started
<1>9. CASE Grub2Tools
  <2>1. /\ SamePlan /\ at = "configured" /\ at' = "grub files"
        /\ (fault => fault') /\ SameKernels(tree, tree')
        /\ SameSystem(tree, tree') /\ tree'.live = tree.live
        /\ tree'.entries = tree.entries /\ tree'.relabel = tree.relabel
    BY <1>1, <1>9, Grub2ToolsDoes
  <2>. SUFFICES ASSUME Clean' PROVE CommonClean' /\ FedoraClean'
    BY <1>2, <2>1
  <2>2. CommonClean /\ FedoraClean
    BY <1>3, <2>1, WasClean
  <2>3. /\ v # Plain /\ tree.live = {} /\ v \in tree.kernels
        /\ tree.initrd[v] = "disk" /\ tree.relabel /\ tree.entries # {}
    BY <1>1, <2>1, <2>2 DEF FedoraClean, FilesWritten, Started
  <2>4. VmlinuzVersion(tree') = v /\ tree'.kernels = tree.kernels
        /\ tree'.initrd = tree.initrd
    BY <2>1, SamePaths DEF SameKernels
  <2>5. CommonClean'
    BY <1>3, <2>1, <2>2 DEF CommonClean, SameSystem, FilesWritten, Started
  <2>. QED  BY <2>1, <2>3, <2>4, <2>5
               DEF FedoraClean, FilesWritten, LoaderWritten, Started
<1>10. CASE FedoraEsp
  <2>1. /\ SamePlan /\ at = "grub files" /\ fault' = fault
        /\ at' = IF image.grub # "none" THEN "bootable" ELSE "failed"
        /\ SameKernels(tree, tree')
        /\ SameSystem(tree, tree') /\ tree'.live = tree.live
        /\ WithMenu(tree, tree') /\ tree'.relabel = tree.relabel
    BY <1>1, <1>10, FedoraEspDoes
  <2>. SUFFICES ASSUME Clean' PROVE CommonClean' /\ FedoraClean'
    BY <1>2, <2>1
  <2>2. CommonClean /\ FedoraClean /\ GoodImage
    BY <1>3, <2>1, WasClean
  <2>3. /\ v # Plain /\ tree.live = {} /\ v \in tree.kernels
        /\ tree.initrd[v] = "disk" /\ tree.relabel /\ at' = "bootable"
    BY <1>1, <2>1, <2>2 DEF FedoraClean, GoodImage, FilesWritten, Started
  <2>4. VmlinuzVersion(tree') = v /\ tree'.kernels = tree.kernels
        /\ tree'.initrd = tree.initrd
    BY <2>1, SamePaths DEF SameKernels
  <2>5. tree'.entries # {}
    BY <2>1, <2>3 DEF WithMenu, KernelPath
  <2>6. CommonClean'
    BY <1>3, <2>1, <2>2, <2>3
       DEF CommonClean, SameSystem, FilesWritten, Started
  <2>. QED  BY <2>1, <2>3, <2>4, <2>5, <2>6
               DEF FedoraClean, FilesWritten, LoaderWritten, Started
<1>11. CASE FedoraCheck
  <2>1. /\ SamePlan /\ at = "bootable" /\ UNCHANGED <<tree, esp, fault>>
        /\ at' = IF FedoraHealthy THEN "healthy" ELSE "failed"
    BY <1>1, <1>11 DEF FedoraCheck, Step, SamePlan
  <2>. SUFFICES ASSUME Clean' PROVE CommonClean' /\ FedoraClean'
    BY <1>2, <2>1
  <2>2. CommonClean /\ FedoraClean
    BY <1>3, <2>1, WasClean
  <2>3. /\ v # Plain /\ tree.live = {} /\ v \in tree.kernels
        /\ tree.initrd[v] = "disk" /\ tree.relabel /\ tree.entries # {}
    BY <1>1, <2>1, <2>2
       DEF FedoraClean, FilesWritten, LoaderWritten, Started
  <2>4. TreeHealthy(tree, esp)
    BY <1>1, <2>1, <2>2, <2>3, CleanTreeHealthy
  <2>5. tree.menu # {} /\ ~InitramfsContainsLive(tree)
    BY <1>1, <2>1, <2>3
       DEF FedoraInv, LoaderWritten, InitramfsContainsLive
  <2>6. at' = "healthy"
    BY <2>1, <2>3, <2>4, <2>5 DEF FedoraHealthy
  <2>7. CommonClean'
    BY <1>3, <2>1, <2>2, <2>6 DEF CommonClean, FilesWritten, Started
  <2>. QED  BY <2>1, <2>3, <2>6, <2>7
               DEF FedoraClean, FilesWritten, LoaderWritten, Started
<1>12. CASE FedoraRaises
  BY <1>12 DEF FedoraRaises, Raise, CleanInv, Clean
<1>. QED  BY <1>4, <1>5, <1>6, <1>7, <1>8, <1>9, <1>10, <1>11, <1>12
             DEF FedoraNext

LEMMA DebianStaysClean ==
    ASSUME SafeInv, CleanInv, DebianNext PROVE CleanInv'
<1>1. Shapes /\ Shared /\ tree \in TreeShape /\ InDebian /\ fault \in BOOLEAN
  BY DEF SafeInv, Shared, Shapes, DebianNext, DebianUnpack,
         DebianFiles, DebianPurge, DebianInitrd, DebianGrubFiles,
         WriteDebianGrubCfg, DebianEsp, DebianCheck, DebianRaises
<1>2. ASSUME SamePlan, Clean' => CommonClean' /\ DebianClean'
      PROVE  CleanInv'
  BY <1>1, <1>2 DEF SamePlan, CleanInv, CasperClean, FedoraClean,
                    CachyosClean, InCasper, InFedora, InDebian, InCachyos
<1>3. /\ Clean => CommonClean /\ DebianClean
      /\ SamePlan => edition' = edition /\ image' = image /\ InDebian'
      /\ SamePlan => FromImage' = FromImage
  BY <1>1 DEF CleanInv, SamePlan, FromImage, InDebian
<1>4. \A t, u : SameKernels(t, u) => (DebianKernels(t) => DebianKernels(u))
  BY DEF SameKernels, DebianKernels
<1>5. CASE DebianUnpack
  <2>1. /\ SamePlan /\ at' = "unpacked" /\ fault' = fault
        /\ tree'.greeter = edition.greeter /\ tree'.signed = FromImage
        /\ (IF image.kernels = {} THEN image.beside
                                  ELSE image.initrds = image.kernels)
           => DebianKernels(tree')
    BY <1>1, <1>5, DebianUnpackDoes DEF FromImage
  <2>. SUFFICES ASSUME Clean' PROVE CommonClean' /\ DebianClean'
    BY <1>2, <2>1
  <2>2. IF image.kernels = {} THEN image.beside
                              ELSE image.initrds = image.kernels
    BY <1>1, <2>1, WasClean DEF GoodImage
  <2>. QED  BY <1>3, <2>1, <2>2
               DEF CommonClean, DebianClean, FilesWritten, LoaderWritten,
                   Started
<1>6. CASE DebianFiles
  <2>1. /\ SamePlan /\ at = "unpacked" /\ at' = "files" /\ (fault => fault')
        /\ WithFiles(tree, tree') /\ SameKernels(tree, tree')
        /\ SameLoader(tree, tree') /\ tree'.live \subseteq tree.live
        /\ ~fault' => tree'.live \cap (DebianStripped \cup {"cmdline"}) = {}
    BY <1>1, <1>6, DebianFilesDoes
  <2>. SUFFICES ASSUME Clean' PROVE CommonClean' /\ DebianClean'
    BY <1>2, <2>1
  <2>2. CommonClean /\ DebianClean /\ GoodImage /\ ~fault'
    BY <1>3, <2>1, WasClean
  <2>3. tree'.live \subseteq {"packages"}
    BY <1>1, <2>1, <2>2, CleanLive
  <2>4. DebianKernels(tree') /\ tree'.signed = FromImage
    BY <1>1, <1>4, <2>1, <2>2 DEF DebianClean, SameLoader, Started
  <2>5. CommonClean'
    BY <1>3, <2>1, <2>2 DEF CommonClean, WithFiles, FilesWritten, Started
  <2>. QED  BY <1>3, <2>1, <2>3, <2>4, <2>5
               DEF DebianClean, FilesWritten, LoaderWritten, Started
<1>7. CASE DebianPurge
  <2>1. /\ SamePlan /\ at = "files" /\ at' = "purged" /\ (fault => fault')
        /\ SameKernels(tree, tree') /\ SameSystem(tree, tree')
        /\ SameLoader(tree, tree')
        /\ ~fault' => tree'.live = tree.live \ {"packages"}
    BY <1>1, <1>7, DebianPurgeDoes
  <2>. SUFFICES ASSUME Clean' PROVE CommonClean' /\ DebianClean'
    BY <1>2, <2>1
  <2>2. CommonClean /\ DebianClean /\ ~fault'
    BY <1>3, <2>1, WasClean
  <2>3. tree'.live = {}
    BY <1>1, <2>1, <2>2 DEF DebianClean, FilesWritten
  <2>4. DebianKernels(tree') /\ tree'.signed = FromImage
    BY <1>1, <1>4, <2>1, <2>2 DEF DebianClean, SameLoader, Started, FilesWritten
  <2>5. CommonClean'
    BY <1>3, <2>1, <2>2 DEF CommonClean, SameSystem, FilesWritten, Started
  <2>. QED  BY <1>3, <2>1, <2>3, <2>4, <2>5
               DEF DebianClean, FilesWritten, LoaderWritten, Started
<1>8. CASE DebianInitrd
  <2>1. /\ SamePlan /\ at = "purged" /\ at' = "configured" /\ (fault => fault')
        /\ SameSystem(tree, tree') /\ SameLoader(tree, tree')
        /\ tree'.live = tree.live
        /\ DebianKernels(tree) => DebianKernels(tree')
    BY <1>1, <1>8, DebianInitrdDoes
  <2>. SUFFICES ASSUME Clean' PROVE CommonClean' /\ DebianClean'
    BY <1>2, <2>1
  <2>2. CommonClean /\ DebianClean
    BY <1>3, <2>1, WasClean
  <2>3. /\ tree'.live = {} /\ DebianKernels(tree')
        /\ tree'.signed = FromImage
    BY <1>1, <2>1, <2>2 DEF DebianClean, SameLoader, Started, FilesWritten
  <2>4. CommonClean'
    BY <1>3, <2>1, <2>2 DEF CommonClean, SameSystem, FilesWritten, Started
  <2>. QED  BY <1>3, <2>1, <2>3, <2>4
               DEF DebianClean, FilesWritten, LoaderWritten, Started
<1>9. CASE DebianGrubFiles
  <2>1. /\ SamePlan /\ at = "configured" /\ at' = "grub files"
        /\ (fault => fault')
        /\ SameKernels(tree, tree') /\ SameSystem(tree, tree')
        /\ tree'.live = tree.live
        /\ ~fault' /\ image.grub # "none" /\ tree.signed = FromImage
           => tree'.signed = "image"
    BY <1>1, <1>9, DebianGrubDoes DEF FromImage
  <2>. SUFFICES ASSUME Clean' PROVE CommonClean' /\ DebianClean'
    BY <1>2, <2>1
  <2>2. CommonClean /\ DebianClean /\ ~fault' /\ image.grub # "none"
    BY <1>3, <2>1, WasClean DEF GoodImage
  <2>3. /\ tree'.live = {} /\ DebianKernels(tree')
        /\ tree'.signed = "image"
    BY <1>1, <1>4, <2>1, <2>2 DEF DebianClean, Started, FilesWritten
  <2>4. CommonClean'
    BY <1>3, <2>1, <2>2 DEF CommonClean, SameSystem, FilesWritten, Started
  <2>. QED  BY <1>3, <2>1, <2>3, <2>4
               DEF DebianClean, FilesWritten, LoaderWritten, Started
<1>10. CASE WriteDebianGrubCfg
  <2>1. /\ SamePlan /\ at = "grub files" /\ at' = "menu" /\ (fault => fault')
        /\ SameKernels(tree, tree') /\ SameSystem(tree, tree')
        /\ SameLoader(tree, tree') /\ tree'.live = tree.live
        /\ DebianKernels(tree) =>
             \E v \in tree.kernels : tree'.menu = {<<v, v>>}
    BY <1>1, <1>10, DebianMenuDoes
  <2>. SUFFICES ASSUME Clean' PROVE CommonClean' /\ DebianClean'
    BY <1>2, <2>1
  <2>2. CommonClean /\ DebianClean
    BY <1>3, <2>1, WasClean
  <2>3. /\ tree'.live = {} /\ DebianKernels(tree) /\ DebianKernels(tree')
        /\ tree'.signed = "image" /\ tree'.kernels = tree.kernels
    BY <1>1, <1>4, <2>1, <2>2
       DEF DebianClean, SameLoader, SameKernels, Started, FilesWritten
  <2>4. \E v \in tree'.kernels : tree'.menu = {<<v, v>>}
    BY <2>1, <2>3
  <2>5. CommonClean'
    BY <1>3, <2>1, <2>2 DEF CommonClean, SameSystem, FilesWritten, Started
  <2>. QED  BY <1>3, <2>1, <2>3, <2>4, <2>5
               DEF DebianClean, FilesWritten, LoaderWritten, Started
<1>11. CASE DebianEsp
  <2>1. /\ SamePlan /\ at = "menu" /\ tree' = tree /\ fault' = fault
        /\ at' = IF tree.signed # "none" THEN "bootable" ELSE "failed"
    BY <1>1, <1>11, DebianEspDoes
  <2>. SUFFICES ASSUME Clean' PROVE CommonClean' /\ DebianClean'
    BY <1>2, <2>1
  <2>2. CommonClean /\ DebianClean
    BY <1>3, <2>1, WasClean
  <2>3. /\ tree.live = {} /\ DebianKernels(tree) /\ tree.signed = "image"
        /\ \E v \in tree.kernels : tree.menu = {<<v, v>>}
    BY <1>1, <2>1, <2>2 DEF DebianClean, Started, FilesWritten
  <2>4. at' = "bootable" /\ DebianKernels(tree')
    BY <2>1, <2>3
  <2>5. CommonClean'
    BY <1>3, <2>1, <2>2, <2>4 DEF CommonClean, FilesWritten, Started
  <2>. QED  BY <2>1, <2>3, <2>4, <2>5
               DEF DebianClean, FilesWritten, LoaderWritten, Started
<1>12. CASE DebianCheck
  <2>1. /\ SamePlan /\ at = "bootable" /\ UNCHANGED <<tree, esp, fault>>
        /\ at' = IF TreeHealthy(tree, esp) THEN "healthy" ELSE "failed"
    BY <1>1, <1>12 DEF DebianCheck, Step, SamePlan
  <2>. SUFFICES ASSUME Clean' PROVE CommonClean' /\ DebianClean'
    BY <1>2, <2>1
  <2>2. CommonClean /\ DebianClean
    BY <1>3, <2>1, WasClean
  <2>3. /\ tree.live = {} /\ DebianKernels(tree) /\ tree.signed = "image"
        /\ \E v \in tree.kernels : tree.menu = {<<v, v>>}
    BY <1>1, <2>1, <2>2 DEF DebianClean, Started, FilesWritten, LoaderWritten
  <2>4. tree.kernels # {}
    BY <2>3
  <2>5. at' = "healthy"
    BY <1>1, <2>1, <2>2, <2>3, <2>4, CleanTreeHealthy
  <2>6. CommonClean' /\ DebianKernels(tree')
    BY <1>3, <2>1, <2>2, <2>3, <2>5 DEF CommonClean, FilesWritten, Started
  <2>. QED  BY <2>1, <2>3, <2>5, <2>6
               DEF DebianClean, FilesWritten, LoaderWritten, Started
<1>13. CASE DebianRaises
  BY <1>13 DEF DebianRaises, Raise, CleanInv, Clean
<1>. QED  BY <1>5, <1>6, <1>7, <1>8, <1>9, <1>10, <1>11, <1>12, <1>13
             DEF DebianNext

LEMMA CachyosStaysClean ==
    ASSUME SafeInv, CleanInv, CachyosNext PROVE CleanInv'
<1>1. /\ Shapes /\ Shared /\ CachyosInv /\ tree \in TreeShape /\ InCachyos
      /\ fault \in BOOLEAN
  BY DEF SafeInv, Shared, Shapes, CachyosNext, CachyosUnpack,
         CachyosFiles, InstallStagedPackages, MkinitcpioPresets,
         CachyosConfigureFails, CachyosEsp, CachyosCheck, CachyosRaises
<1>2. ASSUME SamePlan, Clean' => CommonClean' /\ CachyosClean'
      PROVE  CleanInv'
  BY <1>1, <1>2 DEF SamePlan, CleanInv, CasperClean, FedoraClean,
                    DebianClean, InCasper, InFedora, InDebian, InCachyos
<1>3. /\ Clean => CommonClean /\ CachyosClean
      /\ SamePlan => edition' = edition /\ image' = image /\ InCachyos'
  BY <1>1 DEF CleanInv, SamePlan, InCachyos
<1>4. CASE CachyosUnpack
  <2>1. /\ SamePlan /\ at' = "unpacked" /\ tree'.greeter = edition.greeter
        /\ tree'.modules = image.modules
        /\ \A n \in Names : tree'.initrd[n] = "none"
    BY <1>1, <1>4, CachyosUnpackDoes
  <2>. QED  BY <1>2, <1>3, <2>1
               DEF CommonClean, CachyosClean, FilesWritten, LoaderWritten,
                   Started
<1>5. CASE CachyosFiles
  <2>1. /\ SamePlan /\ at = "unpacked" /\ at' = "files" /\ (fault => fault')
        /\ WithFiles(tree, tree') /\ SameKernels(tree, tree')
        /\ ~fault' => tree'.live = tree.live \ CachyosStripped
    BY <1>1, <1>5, CachyosFilesDoes
  <2>. SUFFICES ASSUME Clean' PROVE CommonClean' /\ CachyosClean'
    BY <1>2, <2>1
  <2>2. CommonClean /\ CachyosClean /\ GoodImage /\ ~fault'
    BY <1>3, <2>1, WasClean
  <2>3. tree'.live \subseteq {"archiso"}
    BY <1>1, <2>1, <2>2, CleanLive
  <2>4. /\ tree'.modules = image.modules
        /\ \A n \in Names : tree'.initrd[n] = "none"
    BY <1>1, <2>1, <2>2 DEF CachyosClean, SameKernels
  <2>5. CommonClean'
    BY <1>3, <2>1, <2>2 DEF CommonClean, WithFiles, FilesWritten, Started
  <2>. QED  BY <1>3, <2>1, <2>3, <2>4, <2>5
               DEF CachyosClean, LoaderWritten
<1>6. CASE InstallStagedPackages
  <2>1. /\ SamePlan /\ at = "files" /\ tree' = tree /\ (fault => fault')
        /\ at' = IF image.pool # {} THEN "packages" ELSE "failed"
    BY <1>1, <1>6, StagedPackagesDoes
  <2>. SUFFICES ASSUME Clean' PROVE CommonClean' /\ CachyosClean'
    BY <1>2, <2>1
  <2>2. CommonClean /\ CachyosClean /\ GoodImage
    BY <1>3, <2>1, WasClean
  <2>3. at' = "packages"
    BY <1>1, <2>1, <2>2 DEF GoodImage
  <2>4. CommonClean'
    BY <1>3, <2>1, <2>2, <2>3 DEF CommonClean, FilesWritten, Started
  <2>5. /\ tree.modules = image.modules /\ tree.live \subseteq {"archiso"}
        /\ \A n \in Names : tree.initrd[n] = "none"
    BY <1>1, <2>1, <2>2 DEF CachyosClean
  <2>. QED  BY <1>3, <2>1, <2>3, <2>4, <2>5 DEF CachyosClean, LoaderWritten
<1>7. CASE MkinitcpioPresets
  <2>1. /\ SamePlan /\ at = "packages" /\ (fault => fault')
        /\ SameSystem(tree, tree')
        /\ tree'.live = tree.live \ {"archiso"}
        /\ \A n \in Names : tree'.initrd[n] \in {"disk", tree.initrd[n]}
        /\ ~fault' /\ tree.modules # {} => at' = "configured"
    BY <1>1, <1>7, PresetsDoes
  <2>. SUFFICES ASSUME Clean' PROVE CommonClean' /\ CachyosClean'
    BY <1>2, <2>1
  <2>2. CommonClean /\ CachyosClean /\ GoodImage /\ ~fault'
    BY <1>3, <2>1, WasClean
  <2>3. /\ tree.modules = image.modules /\ tree.live \subseteq {"archiso"}
        /\ \A n \in Names : tree.initrd[n] = "none"
        /\ image.modules # {}
    BY <1>1, <2>1, <2>2 DEF CachyosClean, GoodImage
  <2>4. /\ at' = "configured" /\ tree'.live = {}
        /\ \A n \in Names : tree'.initrd[n] \in {"none", "disk"}
    BY <2>1, <2>2, <2>3
  <2>5. CommonClean'
    BY <1>3, <2>1, <2>2, <2>4
       DEF CommonClean, SameSystem, FilesWritten, Started
  <2>. QED  BY <1>3, <2>4, <2>5 DEF CachyosClean, LoaderWritten
<1>8. CASE CachyosEsp
  <2>1. /\ SamePlan /\ at = "configured" /\ (fault => fault')
        /\ at' = IF image.grub # "none" THEN "bootable" ELSE "failed"
        /\ SameSystem(tree, tree')
        /\ tree'.live = tree.live /\ tree'.initrd = tree.initrd
        /\ esp'.entries = tree'.kernels
    BY <1>1, <1>8, CachyosEspDoes
  <2>. SUFFICES ASSUME Clean' PROVE CommonClean' /\ CachyosClean'
    BY <1>2, <2>1
  <2>2. CommonClean /\ CachyosClean /\ GoodImage
    BY <1>3, <2>1, WasClean
  <2>3. /\ at' = "bootable" /\ tree.live = {}
        /\ \A n \in Names : tree.initrd[n] \in {"none", "disk"}
    BY <1>1, <2>1, <2>2 DEF CachyosClean, GoodImage
  <2>4. CommonClean'
    BY <1>3, <2>1, <2>2, <2>3
       DEF CommonClean, SameSystem, FilesWritten, Started
  <2>. QED  BY <1>3, <2>1, <2>3, <2>4 DEF CachyosClean, LoaderWritten
<1>9. CASE CachyosCheck
  <2>1. /\ SamePlan /\ at = "bootable" /\ UNCHANGED <<tree, esp, fault>>
        /\ at' = IF CachyosHealthy THEN "healthy" ELSE "failed"
    BY <1>1, <1>9 DEF CachyosCheck, Step, SamePlan
  <2>. SUFFICES ASSUME Clean' PROVE CommonClean' /\ CachyosClean'
    BY <1>2, <2>1
  <2>2. CommonClean /\ CachyosClean
    BY <1>3, <2>1, WasClean
  <2>3. /\ tree.live = {} /\ esp.entries = tree.kernels
        /\ \A n \in Names : tree.initrd[n] \in {"none", "disk"}
    BY <1>1, <2>1, <2>2 DEF CachyosClean, LoaderWritten
  <2>4. tree.kernels # {}
    BY <1>1, <2>1 DEF CachyosInv, LoaderWritten
  <2>5. TreeHealthy(tree, esp)
    BY <1>1, <2>1, <2>2, <2>3, <2>4, CleanTreeHealthy
  <2>6. "home" \in tree.fstab
    BY <1>1, <2>1 DEF Shared, StartInv, FilesWritten, DiskOf, CachyosDisk,
                      InCachyos
  <2>7. at' = "healthy"
    BY <2>1, <2>3, <2>4, <2>5, <2>6 DEF CachyosHealthy
  <2>8. CommonClean'
    BY <1>3, <2>1, <2>2, <2>7 DEF CommonClean, FilesWritten, Started
  <2>. QED  BY <1>3, <2>1, <2>3, <2>7, <2>8 DEF CachyosClean, LoaderWritten
<1>10. CASE CachyosConfigureFails \/ CachyosRaises
  BY <1>10 DEF CachyosConfigureFails, CachyosRaises, Raise, CleanInv, Clean
<1>. QED  BY <1>4, <1>5, <1>6, <1>7, <1>8, <1>9, <1>10 DEF CachyosNext

LEMMA InitClean == Init => CleanInv
  BY DEF Init, StartState, CleanInv, CommonClean, CasperClean, FedoraClean,
         DebianClean, CachyosClean, FilesWritten, LoaderWritten, Started

LEMMA NextClean == ASSUME SafeInv, CleanInv, [Next]_vars PROVE CleanInv'
<1>1. CASE PartitionDisk \/ Retry
  <2>1. at' \in {"start", "partitioned"}
    BY <1>1 DEF PartitionDisk, Retry, Step
  <2>. QED  BY <2>1 DEF CleanInv, CommonClean, CasperClean, FedoraClean,
                        DebianClean, CachyosClean, FilesWritten,
                        LoaderWritten, Started
<1>2. CASE PartitionFails
  BY <1>2 DEF PartitionFails, Raise, CleanInv, Clean
<1>3. CASE UNCHANGED vars
  <2>1. /\ edition' = edition /\ image' = image /\ at' = at
        /\ tree' = tree /\ esp' = esp /\ fault' = fault
    BY <1>3 DEF vars
  <2>2. Clean' = Clean /\ CommonClean' = CommonClean
    BY <2>1 DEF Clean, CommonClean, GoodImage, LeftBy, InCasper, InFedora,
                InDebian, InCachyos
  <2>3. CasperClean' = CasperClean
    BY <2>1 DEF CasperClean, InCasper, FromImage, Uniform, AllForDisk,
                KernelVersions
  <2>4. FedoraClean' = FedoraClean
    BY <2>1 DEF FedoraClean, InFedora
  <2>5. DebianClean' = DebianClean /\ CachyosClean' = CachyosClean
    BY <2>1 DEF DebianClean, CachyosClean, InDebian, InCachyos, FromImage,
                DebianKernels
  <2>. QED  BY <2>2, <2>3, <2>4, <2>5 DEF CleanInv
<1>. QED  BY <1>1, <1>2, <1>3, CasperStaysClean, FedoraStaysClean,
             DebianStaysClean, CachyosStaysClean DEF Next

\* As long as nothing fails, no step of any edition refuses an image of the
\* kind that the drivers' comments describe, and the tree that is accepted
\* starts on every entry of its menu (the whole of configure and bootloader,
\* for any number of kernel versions).
THEOREM CleanRunHolds == Spec => []CleanRun
<1>1. Spec => [](SafeInv /\ CleanInv)
  <2>1. SafeInv /\ CleanInv /\ [Next]_vars => (SafeInv /\ CleanInv)'
    BY NextSafe, NextClean
  <2>. QED  BY InitSafe, InitClean, <2>1, PTL DEF Spec
<1>2. SafeInv /\ CleanInv => CleanRun
  <2>. SUFFICES ASSUME SafeInv, CleanInv, Clean PROVE
            /\ at # "failed"
            /\ at = "healthy" =>
                 /\ tree.menu # {}
                 /\ \A e \in tree.menu :
                       /\ e[1] \in tree.kernels
                       /\ tree.initrd[e[2]] \in
                            IF InDebian THEN {"disk", "live"} ELSE {"disk"}
                 /\ InCasper => esp.grub = tree.grubModules
                 /\ tree.live = {}
    BY DEF CleanRun, Clean
  <2>1. /\ at # "failed" /\ CasperClean /\ FedoraClean /\ DebianClean
        /\ CachyosClean
    BY DEF CleanInv, CommonClean
  <2>. SUFFICES ASSUME at = "healthy" PROVE
            /\ tree.menu # {}
            /\ \A e \in tree.menu :
                  /\ e[1] \in tree.kernels
                  /\ tree.initrd[e[2]] \in
                       IF InDebian THEN {"disk", "live"} ELSE {"disk"}
            /\ InCasper => esp.grub = tree.grubModules
            /\ tree.live = {}
    BY <2>1
  <2>2. /\ tree \in TreeShape /\ (InCasper \/ InFedora \/ InDebian \/ InCachyos)
        /\ InCasper \/ InFedora \/ InCachyos => ~InDebian
        /\ InFedora \/ InDebian \/ InCachyos => ~InCasper
    BY DEF SafeInv, Shapes, EditionShape, Families, InCasper, InFedora,
           InDebian, InCachyos
  <2>3. CASE InCasper
    <3>1. /\ KernelVersions(tree) # {} /\ AllForDisk(tree) /\ tree.live = {}
          /\ tree.menu = {<<v, v>> : v \in KernelVersions(tree)}
          /\ esp.grub = tree.grubModules
      BY <2>1, <2>3 DEF CasperClean, FilesWritten, LoaderWritten
    <3>2. tree.menu # {}
      <4>1. PICK v \in KernelVersions(tree) : TRUE
        BY <3>1
      <4>2. <<v, v>> \in tree.menu
        BY <3>1, <4>1
      <4>. QED  BY <4>2
    <3>3. ASSUME NEW e \in tree.menu
          PROVE  e[1] \in tree.kernels /\ tree.initrd[e[2]] = "disk"
      <4>1. PICK v \in KernelVersions(tree) : e = <<v, v>>
        BY <3>1
      <4>2. v \in tree.kernels /\ tree.initrd[v] = "disk"
        BY <3>1, <4>1 DEF AllForDisk, KernelVersions
      <4>3. e[1] = v /\ e[2] = v
        BY <4>1
      <4>. QED  BY <4>2, <4>3
    <3>. QED  BY <2>2, <2>3, <3>1, <3>2, <3>3
  <2>4. CASE InFedora
    <3>1. /\ KernelPath(tree) \in tree.kernels
          /\ tree.initrd[VmlinuzVersion(tree)] = "disk"
          /\ tree.menu = {<<KernelPath(tree), InitrdPath(tree)>>}
      BY <2>4 DEF SafeInv, FedoraInv, FilesWritten, LoaderWritten
    <3>2. InitrdPath(tree) = VmlinuzVersion(tree) /\ tree.live = {}
      BY <2>1, <2>4, <3>1 DEF InitrdPath, FedoraClean, FilesWritten
    <3>. QED  BY <2>2, <2>4, <3>1, <3>2
  <2>5. CASE InDebian
    <3>1. /\ DebianKernels(tree) /\ tree.live = {}
          /\ \E v \in tree.kernels : tree.menu = {<<v, v>>}
      BY <2>1, <2>5 DEF DebianClean, FilesWritten, LoaderWritten, Started
    <3>2. PICK v \in tree.kernels : tree.menu = {<<v, v>>}
      BY <3>1
    <3>3. tree.initrd[v] \in {"disk", "live"}
      BY <2>2, <3>1, <3>2 DEF DebianKernels, TreeShape
    <3>4. tree.menu # {}
      BY <3>2
    <3>5. ASSUME NEW e \in tree.menu
          PROVE  e[1] \in tree.kernels /\ tree.initrd[e[2]] \in {"disk", "live"}
      <4>1. e = <<v, v>>
        BY <3>2
      <4>2. e[1] = v /\ e[2] = v
        BY <4>1
      <4>. QED  BY <3>2, <3>3, <4>2
    <3>6. ~InCasper
      BY <2>2, <2>5
    <3>. QED  BY <2>5, <3>1, <3>4, <3>5, <3>6
  <2>6. CASE InCachyos
    <3>1. /\ tree.live = {}
          /\ \A n \in Names : tree.initrd[n] \in {"none", "disk"}
      BY <2>1, <2>6 DEF CachyosClean, LoaderWritten
    <3>2. PICK v \in tree.kernels : tree.initrd[v] = "disk"
      BY <2>6 DEF SafeInv, CachyosInv, LoaderWritten
    <3>3. tree.menu = LoaderEntries(tree)
      BY <2>6 DEF SafeInv, CachyosInv, LoaderWritten
    <3>4. <<v, v>> \in tree.menu
      BY <3>2, <3>3 DEF LoaderEntries, LoaderInitrds
    <3>5. ASSUME NEW e \in tree.menu
          PROVE  e[1] \in tree.kernels /\ tree.initrd[e[2]] = "disk"
      <4>1. PICK k \in tree.kernels : e \in {k} \X LoaderInitrds(tree, k)
        BY <3>3 DEF LoaderEntries
      <4>2. e[1] = k /\ e[2] \in LoaderInitrds(tree, k)
        BY <4>1
      <4>3. e[2] \in Names /\ tree.initrd[e[2]] # "none"
        BY <2>2, <4>2 DEF LoaderInitrds, TreeShape
      <4>. QED  BY <3>1, <4>2, <4>3
    <3>. QED  BY <2>2, <2>6, <3>1, <3>4, <3>5
  <2>. QED  BY <2>2, <2>3, <2>4, <2>5, <2>6
<1>. QED  BY <1>1, <1>2, PTL
=============================================================================
