---------------------------- MODULE MCOsDrivers -----------------------------
(***************************************************************************)
(* All editions, each with every kind of image that its family can meet:   *)
(* a tree with no, one or two kernels, with all, some or none of their     *)
(* initrds, kernels beside the tree or in packages on the image, GRUB in   *)
(* the tree, on the image or nowhere.                                      *)
(***************************************************************************)
EXTENDS OsDrivers

MCVersions == {1, 2}

Image(family, kernels, initrds, modules, beside, pool, builder, grub, live) ==
    [family |-> family, kernels |-> kernels, initrds |-> initrds,
     modules |-> modules, beside |-> beside, pool |-> pool,
     builder |-> builder, grub |-> grub, live |-> live,
     liveAccount |-> TRUE, masked |-> TRUE]

Grubs == {"tree", "image", "none"}

CasperImages ==
    {Image("casper", k, i, k, b, p, m, g,
           {"casperize", "installer", "packages", "cmdline"}) :
        k \in {{}, {1}, {1, 2}}, i \in {{}, {1}, {1, 2}}, b \in BOOLEAN,
        p \in {{}, {2}}, m \in {"update-initramfs", "dracut", "none"},
        g \in Grubs}

FedoraImages ==
    {Image("fedora", k, i, m, b, {}, "dracut", g,
           {"cmdline", "live-dracut"}) :
        k \in SUBSET {1, 2}, i \in {{}, {1}}, m \in SUBSET {1, 2},
        b \in BOOLEAN, g \in Grubs}

DebianImages ==
    {Image("debian", k, i, k, b, {}, "update-initramfs", g,
           {"sources", "packages"}) :
        k \in SUBSET {1, 2}, i \in SUBSET {1, 2}, b \in BOOLEAN, g \in Grubs}

CachyosImages ==
    {Image("cachyos", k, {}, m, TRUE, p, "mkinitcpio", g,
           {"sudoers", "archiso"}) :
        k \in {{}, {1}}, m \in {{}, {1}, {1, 2}}, p \in {{}, {1}}, g \in Grubs}

\* What is beside the tree or in packages matters when the tree has no kernel.
MCImages ==
    {i \in CasperImages \cup FedoraImages \cup DebianImages :
        /\ i.initrds \subseteq i.kernels
        /\ i.kernels = {} \/ (~i.beside /\ i.pool = {})}
    \cup CachyosImages
=============================================================================
