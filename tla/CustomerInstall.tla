-------------------------- MODULE CustomerInstall --------------------------
(***************************************************************************)
(* The chooser (app.py) on top of the install helper: the customer picks   *)
(* an edition, confirms, watches the overlay, and after a failure closes   *)
(* it or has First Boot restored.  The helper's output reaches the chooser *)
(* line by line through a pipe and GLib.idle_add, so the overlay lags      *)
(* behind the machine; it is handled in order.  The power may go at any    *)
(* time.                                                                   *)
(***************************************************************************)
EXTENDS InstallHelper

VARIABLES
    overlay,      \* what the customer sees
    chosen,       \* the edition of the confirm dialog
    task,         \* which handler hears of the end of the helper
    wipedTarget,  \* _wiped_target is set
    restoreBtn,   \* Restore First Boot Linux is visible and sensitive
    closeBtn      \* Close is visible

screenVars == <<overlay, chosen, task, wipedTarget, restoreBtn, closeBtn>>
vars == <<helperVars, screenVars>>

TypeOK ==
    /\ HelperTypeOK
    /\ overlay \in {"none", "confirm", "progress", "failed", "restarting",
                    "done", "dark"}
    /\ chosen \in Editions \cup {NoEdition}
    /\ overlay = "confirm" => chosen \in Editions
    /\ task \in {"install", "restore"}
    /\ wipedTarget \in BOOLEAN /\ restoreBtn \in BOOLEAN /\ closeBtn \in BOOLEAN

Init ==
    /\ HelperInit
    /\ overlay = "none" /\ chosen = NoEdition /\ task = "install"
    /\ wipedTarget = FALSE /\ restoreBtn = FALSE /\ closeBtn = FALSE

-----------------------------------------------------------------------------
(* The customer.                                                           *)

\* _confirm_os_install: the dialog.
Choose(e) ==
    /\ overlay = "none"
    /\ overlay' = "confirm" /\ chosen' = e
    /\ UNCHANGED <<helperVars, task, wipedTarget, restoreBtn, closeBtn>>

Cancel ==
    /\ overlay = "confirm"
    /\ overlay' = "none" /\ chosen' = NoEdition
    /\ UNCHANGED <<helperVars, task, wipedTarget, restoreBtn, closeBtn>>

\* _show_install_overlay and _hide_shop_overlays both forget the last run.
ForgetLastRun ==
    wipedTarget' = FALSE /\ restoreBtn' = FALSE /\ closeBtn' = FALSE

\* _start_os_install: live_os_plan mounts FBL-DATA again when the image is
\* not there; a plan that is not available takes the overlay down again.
Confirm ==
    /\ overlay = "confirm"
    /\ payload' \in {payload} \cup (IF payload = "down" THEN FblData ELSE {})
    /\ IF PlanAvailable(payload', chosen)
       THEN LaunchInstall(chosen) /\ overlay' = "progress"
       ELSE UNCHANGED <<planVars, pc>> /\ overlay' = "none"
    /\ ForgetLastRun
    /\ task' = "install" /\ chosen' = NoEdition
    /\ UNCHANGED <<targetVars, root, medium, ramVars, verified, pipe>>

\* Mutant: the failure overlay stays up while First Boot is restored.
PressRestoreAndStay ==
    /\ overlay = "failed" /\ restoreBtn /\ wipedTarget
    /\ LaunchRestore
    /\ task' = "restore"
    /\ restoreBtn' = FALSE /\ closeBtn' = FALSE
    /\ UNCHANGED <<machineVars, verified, pipe, overlay, chosen, wipedTarget>>

\* _start_fbl_restore
PressRestore ==
    /\ overlay = "failed" /\ restoreBtn /\ wipedTarget
    /\ LaunchRestore
    /\ overlay' = "progress" /\ task' = "restore"
    /\ restoreBtn' = FALSE /\ closeBtn' = FALSE
    /\ UNCHANGED <<machineVars, verified, pipe, chosen, wipedTarget>>

\* _hide_shop_overlays from the Close button
PressClose ==
    /\ overlay = "failed" /\ closeBtn
    /\ overlay' = "none"
    /\ ForgetLastRun
    /\ UNCHANGED <<helperVars, chosen, task>>

-----------------------------------------------------------------------------
(* What the helper printed, one line at a time.                            *)

\* _shop_event
HearWiped ==
    /\ Head(pipe) = "wiped"
    /\ wipedTarget' = TRUE
    /\ UNCHANGED <<overlay, restoreBtn, closeBtn>>

\* Mutant: only a failed restore offers the restore.
HearErrorOfRestore ==
    /\ Head(pipe) = "error"
    /\ overlay' = "failed"
    /\ restoreBtn' = (restoreBtn \/ task = "restore")
    /\ closeBtn' = TRUE
    /\ UNCHANGED wipedTarget

\* _os_finished and _restore_finished with an error
HearError ==
    /\ Head(pipe) = "error"
    /\ overlay' = "failed"
    /\ restoreBtn' = (restoreBtn \/ task = "restore" \/ wipedTarget)
    /\ closeBtn' = TRUE
    /\ UNCHANGED wipedTarget

\* _os_finished and _restore_finished without one
HearEnd ==
    /\ Head(pipe) \in {"reboot", "done"}
    /\ overlay' = IF Head(pipe) = "reboot" THEN "restarting" ELSE "done"
    /\ UNCHANGED <<wipedTarget, restoreBtn, closeBtn>>

Deliver ==
    /\ pipe # <<>> /\ overlay # "dark"
    /\ pipe' = Tail(pipe)
    /\ HearWiped \/ HearError \/ HearEnd
    /\ UNCHANGED <<machineVars, planVars, pc, verified, chosen, task>>

-----------------------------------------------------------------------------
(* The power goes and comes back: memory is lost, and what the machine     *)
(* then boots depends on the disk.                                         *)

\* The stick is still plugged in, or the disk holds a First Boot.
BootsFirstBoot ==
    \/ ~SameDisk
    \/ disk = "before"
    \/ disk = "fbl" /\ sysBack = "whole"

PowerCycle ==
    /\ overlay # "dark"
    /\ IF BootsFirstBoot
       THEN /\ pc' = "idle" /\ overlay' = "none"
            /\ root' = "medium" /\ medium' = TRUE /\ payload' = "live"
       ELSE /\ pc' = "off" /\ overlay' = "dark"
            /\ UNCHANGED mountVars
    /\ rels' = 0 /\ layer' = [i \in LayerSlots |-> NoFile]
    /\ live' = "absent" /\ kernel' = "absent" /\ shop' = FALSE
    /\ pkgs' = [e \in Editions |-> "absent"]
    /\ ed' = NoEdition /\ source' = "none" /\ used' = 0
    /\ extras' = "payload" /\ erased' = FALSE
    /\ pipe' = <<>>
    /\ chosen' = NoEdition /\ task' = "install"
    /\ ForgetLastRun
    /\ UNCHANGED <<targetVars, verified>>

CustomerStep ==
    \/ \E e \in Editions : Choose(e)
    \/ Cancel \/ Confirm \/ PressRestore \/ PressClose

HelperRuns == HelperStep /\ overlay # "dark" /\ UNCHANGED screenVars

Next == CustomerStep \/ HelperRuns \/ Deliver \/ PowerCycle

\* The kernel runs the helper and GLib its idle callbacks; nothing makes a
\* customer press a button.
Spec == Init /\ [][Next]_vars /\ WF_vars(HelperRuns) /\ WF_vars(Deliver)

-----------------------------------------------------------------------------
(* Properties.                                                             *)

NothingBoots == disk \in {"blank", "empty", "rootfs", "configured", "fblparts"}

\* Once the disk First Boot was started from is erased, First Boot itself
\* runs from memory and nothing it needs is read from that disk any more:
\* copy_live_to_ram and its pivot precede every wipe, also on a retry.
RunsFromMemory ==
    SameDisk /\ pc # "off" /\ disk \notin {"before", "fbl"}
        => root = "ram" /\ ~medium /\ live = "whole"

\* While the disk holds nothing that boots, a complete First Boot and its
\* kernel are within reach of a restore (snapshot_rescue, restore_fbl),
\* whichever step of whichever attempt failed.
AlwaysAWayBack ==
    pc # "off" /\ NothingBoots
        => /\ live = "whole" \/ (live = "absent" /\ medium)
           /\ kernel # "absent" \/ medium

\* When the disk is about to be erased for an edition, its image has passed
\* the checksum and what will be unpacked is all of that edition and out of
\* reach of the wipe (verify_iso, copy_live_to_ram, install_native).
WipesWithGoodImage ==
    pc \in {"wipe", "format", "unpack"}
        => /\ ed \in verified
           /\ \/ source = "live" /\ ~SameDisk
              \/ /\ source = "ram" /\ used = LayerCount[ed]
                 /\ \A i \in 1 .. used : layer[i] = ed

\* Unless copying the rescue files itself met an I/O error, a First Boot that
\* restore_fbl wrote back is the whole one, with its shop files, even though
\* images and memory went through any number of attempts.
RestoredWhole ==
    disk = "fbl" /\ ~RescueCopyFaults => sysBack = "whole" /\ shopBack

\* The error overlay offers the restore whenever the helper's last install
\* had reported the wipe: WIPED is handled before the error is
\* (_shop_event, _os_finished), and a failed restore offers itself again.
FailureOffersRestore == overlay = "failed" /\ erased => restoreBtn

\* The customer can only start a helper when no helper runs and nothing an
\* earlier one printed is still to be handled: the overlay hides every
\* button that would, although no code checks for a running helper.
OneHelper == pc \notin {"idle", "off"} \/ pipe # <<>> => overlay = "progress"

\* Every install and every restore leaves the progress screen.
EveryRunEnds == overlay = "progress" ~> overlay # "progress"

\* What the customer was promised (InstallPromise).
Computer == CASE disk = "before" -> "untouched"
              [] disk = "os" -> "os"
              [] disk = "fbl" -> "firstboot"
              [] OTHER -> "erased"

Screen == CASE overlay \in {"none", "confirm"} -> "shop"
            [] overlay = "progress" -> "working"
            [] overlay \in {"restarting", "done"} -> "finished"
            [] OTHER -> overlay

Promise == INSTANCE InstallPromise
               WITH Stick <- ~SameDisk, computer <- Computer, screen <- Screen

KeepsPromise == Promise!Spec

-----------------------------------------------------------------------------
(* What the code's own documents say and the code does not do: each is     *)
(* the subject of a run that shows it violated.                            *)

\* "If the disk was already wiped and the install fails, the error overlay
\* offers Restore First Boot Linux."
WipedOffersRestore ==
    overlay = "failed" /\ NothingBoots => restoreBtn

\* "This will erase this computer and install {name}."
InstallsTheChosen == pc = "efi" => tree = {ed}

\* "Put FBL-DATA back at /run/payload after a RAM pivot dropped it": what is
\* put back is what was dropped, never a First Boot on the disk to erase.
ImageOutlivesTheWipe == pc = "wipe" => source # "target"

\* Staged extra packages are there when the tree is configured.
ExtrasReachTheTree == pc = "configure" /\ ed \in WithExtras => ExtrasUsable
=============================================================================
