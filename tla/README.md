# First Boot Linux: a TLA+ verification project

Specifications of First Boot Linux: the live system that a shop puts on a
computer or a stick, and from which the customer chooses and installs the
distribution they want. The modules are translated from `src/`; TLC checks
them on small instances, and TLAPS proves the safety properties the runs check for
every value of the constants.

## The system

First Boot is a live image with three partitions (ESP, FBL-SYS with the
squashfs, FBL-DATA with the shop's files and images). It runs a kiosk session
with one application, the chooser, and everything privileged is done by helper
processes the chooser starts.

| Part | State it keeps | Operations | Talks to |
| --- | --- | --- | --- |
| Chooser window (`app.py`) | overlay, dialogs, `_wiped_target`, visibility of buttons, the loaded payload with `on_disk` flags | choose, confirm, restore, close, download | starts helpers; their lines come back through a thread and `GLib.idle_add` |
| Install helper (`osinstall/__init__.py`, `pipeline.py`, drivers) | memory (`RAM_DIR`: layers, live squashfs, rescue files, extras), root, mounts, target disk | `install_native`: check, copy to memory, pivot, wipe, unpack, configure, boot loader, health check, EFI entry, reboot | the disk, the firmware, the chooser (stdout) |
| Restore (`osinstall/restore.py`) | the rescue files in `RAM_DIR/rescue` | `snapshot_rescue`, `restore_fbl` | the memory the install helper left behind |
| Edition download (`isodownload.py`, `run_edition_fetch`) | `<file>.part`, finished files | probe, request with a range, append, verify, rename | a mirror, FBL-DATA, the chooser |
| Shop install (`install.py`, `disk.py`) | target disk, copied files | choose target, partition, copy stick to disk, boot files | the disk, the chooser |
| Legacy boot-into-installer path (`prepare_os`) | GRUB entry, initrd on FBL-SYS | inject answers, write entry, reboot | GRUB, FBL-SYS |
| Power, battery, dimmer, network, settings | one value each | poll, set | external tools |
| Creator (`src/creator`, Go) | session (catalog, packs, job), image cache, devices | start, cancel, load pack, attach image, compose, write stick | browser UI over HTTP, setuid write helper |
| Seed and scripts (`src/seed`, `src/image`, `src/scripts`) | none at run time | build | |

### What is hard, and what makes each part correct

* **Install helper.** The disk to be erased may be the one First Boot runs
  from. It must be in memory, completely, before the first destructive step,
  on the first attempt and on every retry, and a retry finds what earlier
  attempts left behind and takes shortcuts through it. Correct means: no wipe
  without a verified image out of the wipe's reach, and at any time either the
  disk boots something or a First Boot to restore is within reach.
* **Restore.** It may itself fail and be retried; what it writes must be the
  whole First Boot.
* **Chooser.** It hears of the helper with a delay and in pieces. Correct
  means: never two helpers, a restore button exactly when it is needed, and no
  screen that is never left.
* **Download.** Resumes from whatever a previous attempt or a power failure
  left, from a server whose file may have changed. Correct means: only the
  pinned image is ever stored, and no left-over blocks the download for ever.
* **Drivers.** Commands in the chroot may fail and mostly are only logged;
  unlinks may fail; the health check is all that stands between such a tree
  and a computer that does not start. Correct means: what it accepts starts,
  with kernel, initrd and menu that belong together.
* **Shop install and packs' installers.** Two processes plan from what is
  plugged in at their own moment; a copy of First Boot names the stick until
  its menu is rewritten; starts, power cuts and pulled sticks come between any
  two writes. Correct means: the running disk and the source are never
  written, a copy that is not complete does not start by itself, and after
  DONE the stick is not needed.
* **Creator.** A job runs while the browser goes on changing the session.
* **From creator to chooser.** One writes `catalog.json` (Go), the other reads
  it (Python), on another computer and with no way to complain. Correct means:
  the chooser shows what was ticked, with its image and its own driver.

## Modules

| Module | Models |
| --- | --- |
| `InstallHelper` | the helper: every step of `install_native` and `restore_fbl`, each of which may fail, and the machine it runs on |
| `CustomerInstall` | the chooser on top of it: dialog, overlay, buttons, delivery of the helper's lines, power failures |
| `InstallPromise` | abstract: what the customer was promised about computer and screen |
| `InstallInvariant`, `InstallProofs` | the inductive invariant of `CustomerInstall`; its theorems; what a restore writes, what a wipe relies on, and the refinement of `InstallPromise` |
| `EditionFetch`, `EditionProofs` | downloading an edition's files on the customer's computer: part file, changing mirror, power failures; what is stored and what is listed |
| `OsEditions` | the fifteen edition drivers as records |
| `DriverTree` | what the drivers share: the machine of partitions, unpacked tree, EFI partition; steps that raise and are tried again |
| `CasperDriver`, `FedoraDriver`, `DebianDriver`, `CachyosDriver` | the four families: unpack, configure, initrd, boot loader, health check |
| `OsDrivers`, `DriverProofs` | all of them together, and their properties; the invariants of the families and the theorems from them |
| `ShopInstall` | plan and helper of "Install to this device" (`disk.py`, `install.py`) |
| `LegacyInstall` | `prepare_os`: a pack's installer on FBL-SYS and in the GRUB menu |
| `ShopMachine`, `ShopProofs` | both on one computer, with firmware, GRUB, casper, a stick and the power; what a copy is at each of its steps, and the theorems from it |
| `ShopCatalog` | `BuildShop` and the size that `Plan` gives FBL-DATA, as operators |
| `StickPayload` | what the chooser makes of FBL-DATA (`payload.py`, `get_driver`, `_act`), as operators |
| `RetailerPacks` | packs in the creator: load, attach an ISO, remove |
| `ShopStick`, `StickProofs` | from the ticks to the finished stick and its cards; lemmas on lists picked from lists, and the theorems from them |
| `Totals` | a sum over finitely many things as the number of their units, with lemmas; `EditionFetch` and `ShopCatalog` add up with it |
| `CreatorJob` | the creator's session: packs, jobs, cancel, task list, composition, write helper |
| `CreatorProofs` | the inductive invariants of a session, its jobs, files and tasks, and the theorems from them |
| `CacheDownload`, `CacheProofs` | one file of the creator's image cache; what is stored there |
| `MCInstall`, `MCEditionFetch`, `MCCreator`, `MCCacheDownload`, `MCOsDrivers`, `MCShopMachine`, `MCShopStick` | the constants TLC needs |

`CustomerInstall` EXTENDS `InstallHelper` (the two share `pipe`, the helper's
standard output) and implements `InstallPromise` through the refinement mapping
`Computer`, `Screen`. `OsDrivers` is the detail of what `InstallHelper` takes as
the steps from `FormatTarget` to `HealthCheck`; `CacheDownload` of what
`CreatorJob` and `ShopStick` take as one step. `ShopMachine` EXTENDS
`LegacyInstall` EXTENDS `ShopInstall`: the two helpers exclude each other and
meet in what they leave on the disks. `ShopStick` EXTENDS `RetailerPacks`
EXTENDS `StickPayload` EXTENDS `ShopCatalog`; it and `CreatorJob` model the
same job for different questions: there the interleavings of one image's file
with the session, here which images, packs and drivers come together.

### InstallHelper and CustomerInstall

State. `disk` says how far the target has been rewritten and `tree` of which
edition's layers the unpacked tree is made; `root`, `medium`, `payload` are the
mounts; `rels`, `layer`, `live`, `kernel`, `shop`, `pkgs` are the contents of
`RAM_DIR` (`squashfs-layers.txt`, `layer<i>.squashfs`, `live.squashfs`, the
rescue files, the staged packages), each absent, torn or whole; `ed`, `source`,
`used`, `extras`, `erased` are locals of `install_native`; `pipe` holds the
lines the chooser has not handled. On the chooser's side `overlay`, `restoreBtn`,
`wipedTarget`, `task`, `chosen` are the widgets and fields of `app.py`.

Actions. One per stage of `install_native` (`pipeline.py:701-950`) and
`restore_fbl` (`restore.py:337-459`), in the order of the code; each either does
its work, or stops in the middle and leaves what the code would leave
(`StepFails` and the failing disjunct of the steps that have an effect half
done). A new attempt starts from what is in memory: `ReuseListedLayers`,
`ReuseCopiedLayers`, the skipped image check, the kept rescue files.
`Deliver` is one `GLib.idle_add` callback; `PowerCycle` empties memory and boots
whatever the firmware finds. An image is its edition's name and a layer of it is
that name again; memory is counted in layers.

### EditionFetch

`download_iso` block by block for each file of an edition
(`run_edition_fetch`), with the probe for size and space, the ranged request,
the 416 fallback, the read loop, verification and `os.replace`; `on_disk`, and
with it the choice between Download and Install, is computed by `FileDone` and
at start. `PowerLoss` may cut what was not written back; `ServerChanges` swaps
the version the mirror serves.

### OsDrivers

One attempt of `install_native` from the wipe to the health check, for one
edition and one image. `tree` records what the later steps and the check look
at: mounts in fstab, accounts, greeter, live left-overs by kind, kernels,
initrds (made for the disk or for the live system), modules, GRUB's modules,
menu and who wrote it; `esp` the shim, whose GRUB it starts, and in which
directories its configuration lies. Each action is a run of calls that the
driver makes in a row; `Ran(ok)` marks the attempts in which a command or an
unlink failed, which is what `CleanRun` asks about. `Raise` is an
`OsInstallError`, after which the customer may try again from the start. An image
differs from another of its family in what may differ between releases: which
kernels and initrds lie where, whether signed packages can be unpacked, which
live accounts, autologins and units it has.

### ShopInstall, LegacyInstall and ShopMachine

A disk is a record of its partition names, the state of FBL-ESP, FBL-SYS and
FBL-DATA, whose UUID the EFI stub and the GRUB menu name, the payload's bytes,
and what `prepare_os` put on it. `StartShopInstall` is the chooser's
`live_plan`; `HelperPlans` is `_apply_cli`, which finds the source again;
`wipefs` and `sgdisk` take the partition table only: what was in the partitions
is there until mkfs, and shows again when the new ones lie where the old ones
lay (`NewTable`). `Overhead` is what mkfs.ext4 takes of each target, with
nothing assumed of it: a payload that does not fit (`CopyFits`) fails. `Steps`
is the order of `_apply_formatted`. A step is done, or fails in the middle
(`Half`), or is cut by the power (`Unsynced`), which before `os.sync` may take
what was written, from any of the partitions. `LegacySteps` is the order of
`prepare_os`. External: the firmware and GRUB (`MenusFrom`, `BootChooser`,
`BootInstaller`), a pack's installer (`InstallerErases`, `InstallerStops`) and
hands (`Plug`, `Unplug`, `PowerOff`, `PowerCut`).

### ShopCatalog, RetailerPacks, StickPayload and ShopStick

A content stands for its sha256, a URL for the name at its end. `ShopCatalog`
follows `catalog.go` operator by operator; `RetailerPacks` keeps every `Pack`
ever loaded, because a job goes on using the ones it started with, and the
`driver.py` in `packs/<id>`, which is the last one written whether its zip was
accepted or not; `ShopStick` is a job (`Start`, `FetchImages`, `StageImages`,
`CopyPacks`, `Format`, or `JobFails` anywhere) between packs' requests.
`StickPayload` is evaluated on the finished stick by the properties: it is the
reader for which the creator writes.

### CreatorJob

Session fields (`busy`, `done`, `tasks`, `cancel`, the pack in `packs`), the
pack objects that session and jobs share by pointer (`isoPath`, `sum`), the ISO
in the cache, one record of locals per job, the work tree, the disk image, the
helper and the stick. `start` is split where it gives up `session.mu`: `Claim`,
`CopyPacks`, `BuildShop`, `Launch`, or `StartFails`. `cancelJob` is split
between reading `s.cancel` and calling it. `run` follows `compose.Write` and
`writeStick`; the places where `ctx` is looked at are guards. A step that takes
the lock needs `LockFree`, because `attachISO` keeps the lock while it hashes.
`ISOPath` is read twice by `localISO`, without the lock (`StatIso`,
`TakeIsoPath`). A content is named by the load that brought it and is its own
checksum; with `HardLinks` the file in the tree *is* the file in the cache.
Wallpapers, language, extras of official editions and the driver files of a pack
are left out.

### CacheDownload

`EnsureFile` and `download`: a file is a length and whether it is (a prefix of)
the pinned one. Every HTTP outcome is an action (206, 200, 416, other), every
end of the read loop another; `CancelJob` and `Exit` stop it anywhere.

## What TLC checks

| Run | Constants | Shows |
| --- | --- | --- |
| `install_same_disk` | one edition with extras, two layers, memory just enough, rescue files copied without I/O errors | no wipe outside memory or without a good image; a way back; the restore button; one helper; what a restore writes is whole; every run ends; the system implements `InstallPromise` |
| `install_from_usb` | First Boot on a stick, two editions with one and two layers, one image damaged, no reboot at the end | the same from a stick |
| `edition_fetch` | two files of 2 blocks, another version of 3, a disk with room for 5 blocks and one with room for 9 | only the pinned content is stored; a flag says present only when it is; the space check covers what follows; a steady network settles the download on the ample disk |
| `creator_job` | two jobs, two loads of a pack, one official edition, image copied | session, composition and helper agree |
| `creator_cancel` | two jobs, one load, image hard-linked | every cancelled job ends |
| `os_drivers` | fifteen editions, every kind of image of each family, every failure of a command or unlink | what the health check accepts starts, with a kernel, initrd and menu that match; an attempt without failures is accepted |
| `shop_machine` | a stick and a larger and a smaller internal disk, on which another system or an older First Boot may be, one pack, `MaxDisksPrepared = 1`, `MaxStarts = 0` | running disk and source stay; a partial copy does not start alone; DONE needs no stick; a target is accepted for what is copied to it; a pack's image outlives the erasing |
| `shop_stick` | three official distros, six packs, `MaxLoads = 3`, `MaxTicks = 2` | the chooser serves what was ticked, runs its own driver, offers nothing that leads nowhere; FBL-DATA takes the tree |
| `cache_download` | 3 blocks, other versions of 2, 3 and 4, two changes of the mirror | see below |

Why the bounds are enough. Two layers tell "all", "some" and "none" apart; one
edition suffices where the question is what an attempt leaves for the next
(the number of attempts is not bounded), two where editions may be confused.
`RamUnits = 7` lets the first copy fit. I/O errors while rescue files are copied
are in the runs from a stick and, on the same disk, in the theorems. Two jobs give every pair of an old cancel and a new job; two loads give
a file that changes under a job. Versions shorter than, as long as and longer
than the pinned file are the three cases the code distinguishes.

`OsDrivers` has no bound but the images: for each family every kind of image
that differs in what its driver looks at. On the bench a stick and two disks
are the fewest with which source, target, running disk and a disk with an old
First Boot can all differ; sizes 1 to 4 make a payload fit, fit but for what
mkfs.ext4 takes, and not fit (an `Overhead` of 2 above a `Slack` of 1);
`MaxDisksPrepared = 1` lets one disk at a time carry a prepared installer, and
starts of an installer are counted only for `OneShot` (`MaxStarts = 2`).
`MaxLoads = 3` is a pack, its next version, and a third load that is refused or
of another pack; `MaxTicks = 2` gives two desktops of one distro in both orders,
two distros, and a distro with a pack. The packs in `MCShopStick` are one that
is in order in two versions, and one for each way of being wrong. Their images are of
100 to 500 MiB, so that the partition of two desktops is on either side of 1024 MiB,
where ext4's journal grows.

`CHECK_DEADLOCK FALSE` is used where the system may stop: the computer is off
with nothing to boot, all jobs have been started, the file is in the cache, the
driver has raised, the loads are used up.
`EditionFetch` never stops.

### Fairness

* `CustomerInstall`: weak fairness of the helper's steps (a process the kernel
  runs; every external tool it waits for ends) and of `Deliver` (GLib runs idle
  callbacks). The customer is under no obligation: `EveryRunEnds` needs none.
* `EditionFetch`, `CacheDownload`: weak fairness of `Download` as a whole, which
  includes pressing Download (or starting a job) again; the liveness properties
  speak of the time after the network and the mirror have become steady, and
  `FetchSettles` of a disk that holds every file twice: on a fuller one a cut
  file and its part may leave no room for the next attempt.
* `CreatorJob`: strong fairness of the running job's steps, because they compete for
  `session.mu`, and a Go mutex hands over to a waiter that has waited too long;
  weak fairness of the pending call of a cancel function, of the signals to
  `pkexec`, of hashing and of writing. Granting permission is not fair: a prompt
  may stay open for ever, unless the job is cancelled.

### Where code and documents disagree

Three runs end in a counterexample, one per claim:

| Run | Claim | What the code does |
| --- | --- | --- |
| `second_choice` | what is installed is what was chosen | a second attempt from memory takes the first attempt's layers |
| `creator_links` | every local image matches the catalog | its hard link changes after the check when the pack is loaded again |
| `rejected_pack` | the folder of a pack holds the driver of its id | a refused zip leaves its driver in the folder of the loaded pack of that id, and a job copies it |

`creator_job` (image copied) states what does hold beside the second of them.

Further claims are stated in the modules with a configuration of their own,
and TLC refutes them in seconds; they are kept beside the listed runs because
the models show them too:

| Definition, configuration | Claim | What the code does |
| --- | --- | --- |
| `WipedOffersRestore`, `LateWiped.cfg` | a failed install of a wiped disk offers the restore | WIPED is printed after formatting, so a failure between `wipefs` and the mounts is not reported as wiped |
| `ExtrasReachTheTree`, `UsbExtras.cfg` | staged packages are installed | from a stick their mount is dropped before they are read |
| `ImageOutlivesTheWipe`, `OldFirstBoot.cfg` | the payload is mounted again after it was dropped | with an older First Boot on the target, that one's payload is mounted, and wiped |
| `Settles`, `CacheComplete.cfg` | official images are downloaded into the cache | a complete part makes every later request end in 416 (`SettlesUnlessComplete` states what does hold) |
| `GrubMatchesModules`, `OsGrub.cfg` | First Boot's GRUB is not put over an older release's modules | it is, when a signed package cannot be unpacked: that is only logged |
| `AcceptedTargetHasRoom`, `TightTarget.cfg` | a target is refused as "too small" (`disk.py:330`), so one that is accepted is large enough | `need_bytes` keeps 64 MiB (`disk.py:19`); mkfs.ext4 takes about 1.6 % of FBL-DATA, which has the rest of the disk, and its journal (`install.py:392`): a target that just fits is wiped, and the copy then runs out of space (`AcceptedForWhatItCopies` states what does hold) |
| `OneShot`, `OneShot.cfg` | the installer's menu is one-shot | nothing puts the old menu back: an installer that stops is started again |
| `OtherSystemsKeepTheirEntry`, `OtherEntries.cfg` | boot entries of systems "this disk used to hold" are deleted | so are those of systems on other disks |

What the models show besides, and nothing in the repository promises:

* Install. With `RescueCopyFaults` an initrd whose copy to memory was cut short
  is not copied again by a retry, and a later restore writes it back
  (`restore.py:140`); hence the condition in `RestoredWhole`. With
  `RamUnits = 5` a retry after copies that did not reach the pivot is refused
  for the memory these copies hold (`pipeline.py:789`). Close forgets the wiped
  target (`app.py:1565`). `stage_payload_extras` keeps a file that was left cut
  short (`pipeline.py:175`); `register_os_efi` may delete the old entries and
  fail to make the new one (`common.py:1328`); shop files that cannot be read
  are left out of a restore without a word (`restore.py:167`).
* Download. A finished file may be cut by a power failure, is still listed, and
  then refused by every install (`isodownload.py:248`); on a disk with hardly
  room a cut file and its part block the download (`isodownload.py:128`).
* Drivers. An initrd made for the live system passes the check when
  `update-initramfs` failed (`casper.py:936`), a failed `update-grub` leaves no
  menu (`casper.py:1772`), a kernel may boot with the other kernel's initrd
  (`cachyos.py:930`; `HealthyPair` states how far that goes).
* Shop install. A refusal to unmount `/cdrom` comes after `/run/payload` was
  dropped (`install.py:264`). A stick is preferred as the source whatever the
  session runs from (`disk.py:284`), also under `--source`. The menu is written
  before `os.sync` (`install.py:445`), hence "lost" in `CutCopyNeedsTheStick`.
* Packs' installers. An error after the menu is written leaves the installer
  armed; a second preparation that fails leaves the first one's menu over the
  second one's files (`osinstall/__init__.py:995-1053`).
* Catalog and packs. Ids such as `a--b` (`pack.go:178`) and names such as
  `X.ISO` (`pack.go:565`) pass the creator and make the chooser reject the whole
  catalog. A pack's image named like an official one, or like another pack's,
  makes the job fail at its checksum (`compose.go:415`). A pack loaded again
  during a job brings its driver to the stick (`compose.go:455`). Local
  editions carry no URL, so a lost file cannot be downloaded. `Plan` does not
  count the packs' own files. With Secure Boot on, a recommended edition that
  cannot be installed can still be downloaded. `get_driver` keeps a pack's
  driver by its path, whatever becomes of the file.
* Creator. A cancel between `/api/start` and `s.cancel` does nothing
  (`server.go:647`); a window and the command line at work in one cache append
  to the same part (`cache.go:137`); a hashing `attachISO` holds the session's
  lock (`server.go:505`), which `CancelledJobEnds` takes into account.

## What is proved

For every value of the constants, under the named assumptions of the modules.
These give constants their types and say what is distinct; six say more:

* `OrderAssumption` (`ShopInstall`): `lsblk` lists every disk, in some order.
* `ShelfAssumption` (`ShopMachine`): a payload that is on a disk at first fits
  the partition it is in.
* `VersionsAssumption` (`DriverTree`): there are finitely many kernel versions.
  A driver takes the newest of the directories it finds, or the first.
* `LinkedAssumption` (`CreatorJob`): the mark of a hard link is no content.
* `OfficialAssumption` (`ShopCatalog`): what `LoadOfficial` and `catalog_test.go`
  check of `official-catalog.json`: distinct ids, a default edition for each distro.
* `OfficialNames` (`StickPayload`): the official ids and file names are ones the
  chooser reads, and each edition's driver is in the live system, as the catalog
  in `src/schemas` has it. Of packs nothing of the kind is assumed.

### The install (`InstallProofs`)

`TypeOK`, `RunsFromMemory`, `AlwaysAWayBack`, `FailureOffersRestore`,
`OneHelper`, for any set of editions, layer counts, memory size, with and without
faults. None of them is inductive. `IInv` adds what the helper's position says of
the machine: the live medium is dropped by the pivot and nothing else, memory
holds all of First Boot before the pivot (`MemoryInv`), the disk is untouched at
every step before that when it is the boot disk (`DiskInv`), at most one report
and one end are in the pipe (`PipeInv`), which overlay is up while what runs
(`ScreenInv`), and the report of the wipe is known or on its way (`WipedInv`).
The hard case is the retry: `ReuseListedLayers` skips check and copy, and is
safe because running from memory is part of the invariant.

The other theorems each add one invariant to it.

* `RestoredWhole` from `RescueInv`: the rescue files are whole before the pivot
  and nothing but the power takes them out of memory, so that a restore that
  is tried again finds what the first one found.
* `WipesWithGoodImage` from `ImageInv`, under `OneImage`: the customer has one
  image to choose, or First Boot is on a stick, and no disk carries an older
  First Boot. Without that condition the property is false: `second_choice`
  and `OldFirstBoot.cfg` show it. With it, a list of layers in memory can only
  be that of the image that was checked, however many attempts came between.
* `KeepsPromise`, the refinement, from `PlaceInv` (how far the disk is when the
  helper reports an end): each step of helper, chooser and power is a step of
  `InstallPromise` or leaves its variables alone. `BootsWhatWasRestored` is the
  condition that a First Boot restored to its own disk boots, which an I/O
  error while its rescue files are copied may prevent (`SameDisk =>
  ~RescueCopyFaults`).

### The edition download (`EditionProofs`) and the cache (`CacheProofs`)

* `StoresOnlyThePinned` and `ListedIsPresent`, for any number of files,
  versions and blocks. `PartInv` says that a response is read into a part that
  exists and that the power can only cut a file that is there: a cut file stays
  listed, and only a finished download replaces it.
* `RoomForThePinned`, from `RoomInv`: what is taken of the disk, summed over all
  files and their parts, and what the running download still needs, fit. The
  sum is the number of units in a set (`Totals`), so that a step that changes one
  file is a fact about sets (`TotalChanges`) and needs no induction over the files.
* `OnlyThePinned`, for every size and every version the mirror serves: nothing
  comes between the check of the hash and the rename. `KeepsWhatIsGood`, from
  `PrefixInv`: a part that is a prefix of the pinned file is never longer than
  it, so that neither the check of the length nor that of the sum removes one.
  `TypeOK` from `ReadingInv`: a part grows within the version being received.

### The creator's session (`CreatorProofs`)

For any number of jobs, loads and official editions.

* `OneJobAtATime` and `DoneMeansStill` from `IInv`: a running job keeps `busy` set
  and `done` cleared, `s.cancel` belongs to a job that has been launched, and a
  helper has its job waiting. `busy` is read and set in one critical section and
  cleared only by the one running job, which by then has waited for its helper.
* `TypeOK`; `DoneStickIsWhole` from `StickInv` (whose image lies in the work
  directory at each step, and what the helper wrote); `EarlyCancelStops` from
  `CancelInv` (no job that still builds has a finished image).
* `ImageMatchesCatalog` from `CatalogInv`, where images are copied
  (`~HardLinks`); `creator_links` shows that it fails where they are linked.
  Nothing is assumed of what `localISO` reads without the lock: the hash of the
  staged file decides.
* `TasksTellTheTruth` from `TaskInv`, with lemmas on what `applyTaskProgress`
  does to a list of any length.

### From the ticks to the cards (`StickProofs`)

`TypeOK`, `ServesTheTicks`, `RunsItsOwnDriver`, `OffersLeadSomewhere`,
`RoomForTheTree`, for any official catalog within the assumptions, any packs, ticks,
sizes, and any number of loads, attached ISOs, removals and jobs in any order.

* *Lists.* `Those(s, P)` puts the elements of `s` at the positions `P` in order. The
  rank of a position among `P` is a bijection to `1 .. Cardinality(P)`
  (`RankGrows`, `RankIsOnto`), so what `Row`, `CardsOf`, `TickOrder`, `OtherRows` and
  `OrderedEditions` return, and that names stay distinct, follows from sets.
* *The shop.* `RecommendedIs` and `OthersAre` say which row of which distro or pack
  `BuildShop` makes; `OfficialRowStands` and `PackRowStands` that the chooser takes each
  row, with exactly one default edition, and that what is local of it is what was
  ticked.
* *The invariant* (`IInv`). `PacksInv`: the packs of the session are in shape and have
  distinct ids, and `packs/<id>` holds the driver of some zip of that id. `JobInv`: a
  job's shop is one `BuildShop` made of packs with the ids its packs still have. It
  cannot say more, because `AttachISO` changes the pack objects that a job holds while
  it runs: the image of an edition is tied to its catalog row by the hash in
  `StageImages`, and from there on by `HasImages` and `HasDrivers`, which the stick
  inherits (`StickInv`).
* *Room.* The images and extras of the tree embed into those the plan has counted
  (`TotalEmbeds`, `TotalOfParts`), several editions sharing a file at most once; a
  tenth and 64 MiB cover ext4's blocks at every size (`SlackIsEnough`).

Two hypotheses stand at the theorems, and `shop_stick`'s constants satisfy both.
`SameNames`: names the creator takes for packs and images are those the chooser
reads; where they are not (`a--b`, `X.ISO`, see above) the catalog does not load.
`OwnDrivers`: the driver in a zip is for the zip's id; `rejected_pack` is the
counterexample without it, and `DriverIsTheIdsHolds` proves its claim with it.
`TypeOK` and `RoomForTheTree` need neither.

### The shop install (`ShopProofs`)

`TypeOK`, `LiveDiskStays`, `CutCopyNeedsTheStick`, `DoneNeedsNoStick`,
`AcceptedForWhatItCopies`, `ImageOutlivesInstaller`, for any number of disks of
any sizes, whatever they hold at first, whatever mkfs.ext4 takes of a target and
wherever the power goes. The argument is
that the largest internal disk is the same at every moment, so that no other disk
is ever the target of a copy (`HelperInv`). A disk that is copied from is not the
target, hence never a copy cut short (`SoundInv`); its menu names itself or
nothing, never the target, and that is what the target has until its own menu is
rewritten, after its payload (`Copied`, step by step of `_apply_formatted`). Up
to mkfs the target has its old contents, to which a new table may lead again:
`Sound` speaks of what a disk holds, with or without a table.
That the chooser's plan is old when the helper starts is harmless for the
same reason: `CopyInv` is established by `HelperPlans`, not by
`StartShopInstall`.

### The drivers (`DriverProofs`)

`TypeOK`, `HealthyStarts`, `HealthyPair` and `CleanRun`, for any kernel versions
and any images of the shape `ImageShape`, all fifteen editions, any failures of
commands and unlinks, any number of attempts. `SafeInv` holds whatever fails:
accounts, fstab and loader are there from the step that writes them on
(`StartInv`), and for each family what its check relies on (`CasperInv`,
`FedoraInv`, `CachyosInv`). `CleanInv` says what a tree has at each step as long
as nothing failed (`CasperClean`, `FedoraClean`, `DebianClean`, `CachyosClean`).
That the version taken for the newest lies in the tree needs a greatest element
of a finite set of numbers, which comes from the library's theorem on minimal
elements of a well-founded relation.

`GoodImage`, the hypothesis of `CleanRun`, says which images the drivers' comments
describe. It asks that what lies on the image of a live session is among what the
family's strip functions look for (`LeftBy`), and that a Casper image builds its
initrd with update-initramfs or dracut: images of another kind are refused by the
health check, as the proof attempt showed.

## What is only model-checked

Every invariant and every action property of the passing runs is a theorem. TLC
alone checks `EveryRunEnds`, `FetchSettles`, `CancelledJobEnds` and
`SettlesUnlessComplete`: liveness under fairness is out of the provers' reach.

`TypeOK` of `EditionFetch`, `CacheDownload` and `OsDrivers` documents the shape of
their states; it is proved and not among the runs' properties.

## What is not modelled

* Of the drivers: locale, time zone, host name, machine id, icons, NVIDIA
  packages and pacman's keyring, snaps' seed texts; what the commands in the
  chroot do beyond succeeding or failing.
* Of a pack's installer: the cpio archives that `inject_into_initrd` takes apart
  and makes again are one write of `LegacyInstall`; the pack's driver is external.
* Of the stick: FBL-ESP and FBL-SYS, the partition table, checksum files,
  wallpapers, `retailer.conf`.
* Two creators at work in one cache (a window and the command line).
* Panels for network, power, volume, brightness, language and keyboard, and
  presentation: one value each, set by a tool and read back; nothing there is
  kept, ordered or shared that a model would tell apart from its code. The
  shutdown countdown (`shell.py`) is left for later.
* Build and release scripts, the seed's packages, tests.

## Plan

Done: the install, its promise, the edition download, the drivers, the shop
install, packs' installers, the creator's session and its cache, catalog, packs
and stick. Next, in this order:

1. `ImageLayout`: the partition arithmetic of `compose.Plan`, `assemble` and
   `writeGPT` (aligned, disjoint, inside the image), as theorems over all sizes.
2. `PowerCountdown`: the chooser's shutdown countdown against its dialogs.
3. `SharedCache`: two callers of `download` on one `.part`, with the file's identity
   (inode) in the model.
