-------------------------- MODULE InstallInvariant --------------------------
(***************************************************************************)
(* The inductive invariant behind the safety properties of                 *)
(* CustomerInstall that hold for every value of the constants.             *)
(***************************************************************************)
EXTENDS CustomerInstall

\* Steps of install_native up to the wipe, and behind it.
BeforeCopy == {"check", "image"}
CopySteps  == {"stage", "layers", "live", "shadow", "pivot"}
AfterCopy  == {"keep", "release", "wipe", "format"}
AfterWipe  == {"unpack", "configure", "bootloader", "health", "efi", "finish"}

Final == {"error", "reboot", "done"}

\* What is in the pipe: at most the report of the wipe and the end.
PipeInv ==
    /\ pipe \in {<<>>, <<"wiped">>} \cup {<<x>> : x \in Final}
                  \cup {<<"wiped", x>> : x \in Final}
    /\ pc \in BeforeCopy \cup CopySteps \cup AfterCopy \cup RestoreSteps
         => pipe = <<>>
    /\ pc \in AfterWipe => pipe \in {<<>>, <<"wiped">>}
    /\ pc \in {"idle", "off"} => pipe # <<"wiped">>

\* Who is on the screen while what runs.
ScreenInv ==
    /\ OneHelper
    /\ overlay = "dark" => pc = "off"
    /\ pc \in RestoreSteps => task = "restore"

\* The medium is dropped by the pivot and by nothing else; memory holds all
\* of First Boot before that.
MemoryInv ==
    /\ medium <=> root = "medium"
    /\ ~SameDisk => root = "medium" /\ live = "absent"
    /\ pc \in CopySteps => SameDisk /\ root = "medium" /\ disk = "before"
    /\ pc \in {"shadow", "pivot"} => live = "whole"
    /\ pc = "pivot" => kernel # "absent"
    /\ root = "ram" /\ overlay # "dark" => live = "whole" /\ kernel # "absent"

\* The chooser has heard of the wipe, or will as soon as it looks.
WipeReported == wipedTarget \/ (pipe # <<>> /\ Head(pipe) = "wiped")

\* The disk is not touched before First Boot has left it.
DiskInv ==
    /\ SameDisk /\ pc \in AfterCopy \cup AfterWipe \cup RestoreSteps
         => root = "ram"
    /\ SameDisk /\ pc \in BeforeCopy => disk = "before"
    /\ SameDisk /\ pc # "off" /\ disk \notin {"before", "fbl"} => root = "ram"
    /\ SameDisk /\ overlay # "dark" /\ WipeReported => root = "ram"

\* The wipe is known, or about to be, while its install is on the screen.
WipedInv ==
    /\ erased /\ overlay = "progress" => WipeReported
    /\ FailureOffersRestore

IInv == TypeOK /\ PipeInv /\ ScreenInv /\ MemoryInv /\ DiskInv /\ WipedInv
-----------------------------------------------------------------------------
(* What only some theorems need, each on top of IInv.                      *)

\* How far the disk is where a step changes what the customer would boot,
\* and what the end of a run says about it.
PlaceInv ==
    /\ pc = "bootloader" => disk = "configured"
    /\ pc \in {"health", "efi", "finish"} => disk = "os"
    /\ pc \in {"r.sys", "r.data", "r.esp"} => disk = "fblparts"
    /\ pc = "r.efi" => disk = "fbl"
    /\ \A x \in {"reboot", "done"} : pipe \in {<<x>>, <<"wiped", x>>}
         => disk \in {"os", "fbl"}
    /\ WipeReported \/ pc \in AfterWipe => disk # "before"

\* Where copying the rescue files meets no error they are complete before the
\* wipe and stay in memory until the power goes, and what is written back
\* from them is whole.
RescueInv ==
    /\ kernel # "torn"
    /\ pc \in {"image"} \cup CopySteps \cup {"keep"} /\ ~OnRam
         => payload # "down"
    /\ overlay # "dark" /\ OnRam => shop
    /\ pc \in {"pivot", "release", "wipe", "format"} => shop
    /\ overlay # "dark" /\ WipeReported => shop
    /\ pc \in AfterWipe => shop
    /\ pc \in RestoreSteps => wipedTarget
    /\ pc \in {"r.data", "r.esp"} => sysBack = "whole"
    /\ pc = "r.esp" => shopBack
    /\ disk = "fbl" => sysBack = "whole" /\ shopBack

\* One image for the customer to choose, or First Boot on a stick, and no
\* second First Boot that could be mounted in place of the right one.
OneImage == ~OldFbl /\ (SameDisk => \A e, f \in Editions : e = f)

\* The layers in memory are all of e.
LayersOf(e) == \A i \in 1 .. LayerCount[e] : layer[i] = e

\* What is unpacked after the wipe has been checked and is out of its reach.
SourceGood ==
    \/ source = "live" /\ ~SameDisk
    \/ source = "ram" /\ used = LayerCount[ed] /\ LayersOf(ed)

\* With OneImage, the image that was checked is the one that is unpacked,
\* also when a retry takes its layers from memory unseen.
ImageInv ==
    /\ pc \in {"image"} \cup CopySteps \cup AfterCopy \cup {"unpack"}
         => ed \in verified
    /\ SameDisk => rels = 0 \/ \E e \in Editions : rels = LayerCount[e]
    /\ pc \in {"live", "shadow", "pivot"}
         => source = "ram" /\ used = LayerCount[ed] /\ LayersOf(ed)
    /\ pc \in AfterCopy \cup {"unpack"} => SourceGood
    /\ OnRam /\ overlay # "dark"
         => \A e \in Editions : e \in verified /\ LayersOf(e)
=============================================================================
