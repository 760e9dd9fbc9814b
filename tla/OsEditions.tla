----------------------------- MODULE OsEditions -----------------------------
(***************************************************************************)
(* The install drivers of chooser/firstboot/osinstall: one file per        *)
(* edition, each a class of constants and of calls into the steps of its   *)
(* family (casper.py, fedora.py, debian.py, cachyos.py).  What the         *)
(* editions of a family differ in is written here once per edition:        *)
(*   family      whose steps unpack, configure, bootloader and             *)
(*               health_check call                                         *)
(*   liveKernel  unpack copies the live kernel when the tree has none      *)
(*   poolKernel  configure installs the kernel from the image's pool       *)
(*   greeter     display_manager                                           *)
(*   liveUsers   live_usernames, deleted from the tree                     *)
(*   loaderDir   bootloader_id, the directory below EFI on the ESP         *)
(*   series      the release whose GRUB the image is built from            *)
(***************************************************************************)

\* Mutant: the directory is named for the distribution.
CasperEditionOwnDir(dm, user) ==
    [family |-> "casper", liveKernel |-> TRUE, poolKernel |-> FALSE,
     greeter |-> dm, liveUsers |-> {user}, loaderDir |-> user,
     series |-> "26.04"]

CasperEdition(dm, user) ==
    [family |-> "casper", liveKernel |-> TRUE, poolKernel |-> FALSE,
     greeter |-> dm, liveUsers |-> {user}, loaderDir |-> "ubuntu",
     series |-> "26.04"]

\* The install layers of these have no initrd, or no kernel at all.
LayeredEdition(dm, user) ==
    [CasperEdition(dm, user) EXCEPT !.liveKernel = FALSE, !.poolKernel = TRUE]

Ubuntu2604Gnome    == CasperEdition("gdm", "ubuntu")
Ubuntu2604Plasma   == CasperEdition("sddm", "kubuntu")
Ubuntu2604Budgie   == LayeredEdition("sddm", "ubuntu")
Ubuntu2604Cinnamon == LayeredEdition("lightdm", "ubuntu")
Ubuntu2404Mate ==
    [LayeredEdition("lightdm", "ubuntu") EXCEPT !.series = "24.04"]

\* Mint keeps Ubuntu's directory: Canonical's signed GRUB reads no other.
MintEdition ==
    [CasperEdition("lightdm", "mint") EXCEPT !.series = "24.04"]

Mint223Cinnamon == MintEdition
Mint223Mate     == MintEdition
Mint223Xfce     == MintEdition

OtherEdition(family, dm, users) ==
    [family |-> family, liveKernel |-> TRUE, poolKernel |-> FALSE,
     greeter |-> dm, liveUsers |-> users, loaderDir |-> family,
     series |-> family]

Fedora44Gnome  == OtherEdition("fedora", "gdm", {"liveuser"})
Fedora44Plasma == OtherEdition("fedora", "plasmalogin", {"liveuser"})

Debian13Cinnamon == OtherEdition("debian", "lightdm", {"user"})
Debian13Gnome    == OtherEdition("debian", "gdm", {"user"})
Debian13Mate     == OtherEdition("debian", "lightdm", {"user"})
Debian13Plasma   == OtherEdition("debian", "sddm", {"user"})

CachyOS260809Plasma ==
    OtherEdition("cachyos", "plasmalogin", {"liveuser", "cachyos"})

EditionDrivers ==
    {Ubuntu2604Gnome, Ubuntu2604Plasma, Ubuntu2604Budgie, Ubuntu2604Cinnamon,
     Ubuntu2404Mate, Mint223Cinnamon, Mint223Mate, Mint223Xfce,
     Fedora44Gnome, Fedora44Plasma, Debian13Cinnamon, Debian13Gnome,
     Debian13Mate, Debian13Plasma, CachyOS260809Plasma}
=============================================================================
