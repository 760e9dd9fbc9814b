----------------------------- MODULE CreatorJob -----------------------------
(***************************************************************************)
(* The shop's USB creator (src/creator): an HTTP server on the retailer's  *)
(* PC with one session.  A job composes a disk image from official images  *)
(* and one retailer pack and may put it on a stick with a privileged       *)
(* helper, while requests from the page go on changing the session: packs  *)
(* are loaded again, an ISO is attached, a pack is removed, the job is     *)
(* cancelled.  Handlers run concurrently; session.mu guards some of what   *)
(* they share.                                                             *)
(*                                                                         *)
(* Every step of a job may fail.  A content is named by the load that      *)
(* brought it; the checksum of a content is the content.                   *)
(* Bounds: one pack, one of its editions, one load of it at a time, and no  *)
(* more jobs and loads than the constants say.                             *)
(***************************************************************************)
EXTENDS Naturals, Sequences, FiniteSets

CONSTANTS
    MaxJobs,     \* bound: how often a job is started
    MaxLoads,    \* bound: how often a version of the pack is loaded
    Official,    \* official editions staged before the pack's
    HardLinks,   \* image cache and work directory share a file system
    NoFile,
    Own,         \* the content of an ISO the retailer picks
    Linked,      \* a hard link to the ISO in the cache
    Torn         \* a stick that was not written to the end

ASSUME CreatorConstants ==
    /\ MaxJobs \in Nat /\ MaxLoads \in Nat /\ Official \in Nat
    /\ HardLinks \in BOOLEAN
    /\ Cardinality({NoFile, Own, Linked, Torn}) = 4

Jobs == 1 .. MaxJobs
NoJob == 0
Loads == 1 .. MaxLoads
NoPack == 0

VARIABLES
    \* the session
    busy, done, shown,  \* shown: how the last job ended, for the page
    tasks,       \* status of each task of the job, by position
    cancel,      \* s.cancel: the job it cancels
    current,     \* the pack in s.packs
    attaching,   \* the pack for which AttachISO holds session.mu
    \* packs: objects in memory, shared by session and jobs; files on disk
    isoPath,     \* where PackEdition.ISOPath of each pack points
    sum,         \* PackEdition.SHA256 of each pack
    cacheIso,    \* images/<filename> in the cache
    loaded, loading,  \* packs loaded so far; LoadZip in progress, by step
    \* jobs
    pc, pack, at, wanted, from, device, cancelled, result,
    grabbed,     \* the cancel function cancelJob has read and not yet called
    \* the work directory and what comes out of it
    treeIso, dataImg, image,
    writer, stick

sessionVars == <<busy, done, shown, tasks, cancel>>
packVars == <<current, attaching, isoPath, sum, cacheIso, loaded, loading>>
jobVars == <<pc, pack, at, wanted, from, device, cancelled, result, grabbed>>
workVars == <<treeIso, dataImg, image>>
stickVars == <<writer, stick>>
vars == <<sessionVars, packVars, jobVars, workVars, stickVars>>

Status == {"pending", "active", "done", "error"}
Contents == {NoFile, Own} \cup (Loads \X {"torn", "whole"})
\* The mark of a hard link is no content.
ASSUME LinkedAssumption == Linked \notin Contents

\* A disk image, by its job and whether its ISO is the one its catalog names.
Images == [job : Jobs \cup {NoJob}, matches : BOOLEAN]
NoImage == [job |-> NoJob, matches |-> TRUE]

StartSteps == {"claimed", "packs", "shop"}
BuildSteps == {"fetch", "stat", "plan", "link", "hash", "format", "assemble"}
StickSteps == {"ask", "writing"}
Running == StartSteps \cup BuildSteps \cup StickSteps \cup {"rename", "ending"}

TypeOK ==
    /\ busy \in BOOLEAN /\ done \in BOOLEAN
    /\ shown \in {"none", "done", "cancelled", "stopped"}
    /\ tasks \in Seq(Status)
    /\ cancel \in Jobs \cup {NoJob} /\ grabbed \in Jobs \cup {NoJob}
    /\ current \in Loads \cup {NoPack} /\ attaching \in Loads \cup {NoPack}
    /\ isoPath \in [Loads -> {"none", "cache", "own"}]
    /\ sum \in [Loads -> Contents]
    /\ cacheIso \in Contents
    /\ loaded \in Loads \cup {0}
    /\ loading \in {"no", "files", "iso", "hash"}
    /\ pc \in [Jobs -> Running \cup {"new", "over"}]
    /\ pack \in [Jobs -> Loads \cup {NoPack}]
    /\ at \in [Jobs -> 1 .. Official + 1]
    /\ wanted \in [Jobs -> Contents]
    /\ from \in [Jobs -> {"none", "cache", "own"}]
    /\ device \in [Jobs -> BOOLEAN]
    /\ cancelled \in [Jobs -> {"no", "early", "late"}]
    /\ result \in [Jobs -> {"none", "done", "cancelled", "stopped"}]
    /\ treeIso \in Contents \cup {Linked}
    /\ dataImg \in Images /\ image \in Images
    /\ writer \in {"none", "asking", "writing", "ok", "failed"}
    /\ stick \in Images \cup {NoFile, Torn}

Init ==
    /\ busy = FALSE /\ done = FALSE /\ shown = "none" /\ tasks = <<>>
    /\ cancel = NoJob /\ grabbed = NoJob
    /\ current = NoPack /\ attaching = NoPack
    /\ isoPath = [p \in Loads |-> "none"] /\ sum = [p \in Loads |-> NoFile]
    /\ cacheIso = NoFile
    /\ loaded = 0 /\ loading = "no"
    /\ pc = [j \in Jobs |-> "new"] /\ pack = [j \in Jobs |-> NoPack]
    /\ at = [j \in Jobs |-> 1]
    /\ wanted = [j \in Jobs |-> NoFile] /\ from = [j \in Jobs |-> "none"]
    /\ device = [j \in Jobs |-> FALSE]
    /\ cancelled = [j \in Jobs |-> "no"] /\ result = [j \in Jobs |-> "none"]
    /\ treeIso = NoFile /\ dataImg = NoImage /\ image = NoImage
    /\ writer = "none" /\ stick = NoFile

-----------------------------------------------------------------------------
(* Helpers.                                                                *)

\* Only AttachISO keeps session.mu for longer than a few assignments.
LockFree == attaching = NoPack

Goto(j, step) == pc' = [pc EXCEPT ![j] = step]

BuildTask == Official + 2
WriteTask == Official + 3

\* planTasks
PlanTasks(dev) ==
    [i \in 1 .. (IF dev THEN WriteTask ELSE BuildTask) |-> "pending"]

\* Mutant: tasks behind the active one keep the status they have.
MarkActiveOnly(list, n) ==
    [i \in 1 .. Len(list) |->
        IF i = n /\ list[i] # "done" THEN "active" ELSE list[i]]

\* applyTaskProgress, for a stage that belongs to task n
ApplyProgress(list, n) ==
    [i \in 1 .. Len(list) |->
        CASE i < n -> "done"
          [] i = n -> IF list[i] = "done" THEN "done" ELSE "active"
          [] OTHER -> IF list[i] = "active" THEN "pending" ELSE list[i]]

\* applyTaskProgress, for the stage "done" of compose.Write
ComposeDone(list) ==
    [i \in 1 .. Len(list) |-> IF i = WriteTask THEN list[i] ELSE "done"]

\* markActiveError: the first active task, if there is one.
MarkActiveError(list) ==
    [i \in 1 .. Len(list) |->
        IF list[i] = "active" /\ \A k \in 1 .. i - 1 : list[k] # "active"
        THEN "error" ELSE list[i]]

FileAt(path) == CASE path = "cache" -> cacheIso
                  [] path = "own" -> Own
                  [] OTHER -> NoFile

\* A hard link shows whatever the cached file holds now.
TreeContent == IF treeIso = Linked THEN cacheIso ELSE treeIso

\* What a job that is over leaves behind.
Forget(j) ==
    /\ Goto(j, "over")
    /\ pack' = [pack EXCEPT ![j] = NoPack] /\ at' = [at EXCEPT ![j] = 1]
    /\ wanted' = [wanted EXCEPT ![j] = NoFile]
    /\ from' = [from EXCEPT ![j] = "none"]
    /\ device' = [device EXCEPT ![j] = FALSE]
    /\ cancelled' = [cancelled EXCEPT ![j] = "no"]
    /\ result' = [result EXCEPT ![j] = "none"]

-----------------------------------------------------------------------------
(* Packs: loadPack and LoadZip, attachISO and AttachISO, removePack.       *)

\* The pack's directory is removed and filled again from the zip.
LoadStart ==
    /\ loading = "no" /\ loaded < MaxLoads
    /\ loaded' = loaded + 1 /\ loading' = "files"
    /\ UNCHANGED <<sessionVars, current, attaching, isoPath, sum, cacheIso,
                   jobVars, workVars, stickVars>>

\* The ISO is in the zip: it overwrites the cached file in place.
LoadIsoStart ==
    /\ loading = "files"
    /\ cacheIso' = <<loaded, "torn">> /\ loading' = "iso"
    /\ UNCHANGED <<sessionVars, current, attaching, isoPath, sum, loaded, jobVars, workVars, stickVars>>

LoadIsoEnd ==
    /\ loading = "iso"
    /\ cacheIso' = <<loaded, "whole">> /\ loading' = "hash"
    /\ UNCHANGED <<sessionVars, current, attaching, isoPath, sum, loaded, jobVars, workVars, stickVars>>

\* The pack replaces the one with its id.  Without an ISO of its own it
\* takes the one in the cache.
LoadEnd ==
    /\ loading \in {"files", "hash"} /\ LockFree
    /\ isoPath' = [isoPath EXCEPT ![loaded] =
                      IF cacheIso = NoFile THEN "none" ELSE "cache"]
    /\ sum' = [sum EXCEPT ![loaded] = cacheIso]
    /\ current' = loaded /\ loading' = "no"
    /\ UNCHANGED <<sessionVars, attaching, cacheIso, loaded,
                   jobVars, workVars, stickVars>>

LoadFails ==
    /\ loading # "no"
    /\ loading' = "no"
    /\ UNCHANGED <<sessionVars, current, attaching, isoPath, sum, cacheIso, loaded, jobVars, workVars, stickVars>>

\* The path is set first; hashing the file takes long, with session.mu held.
AttachStart ==
    /\ LockFree /\ current # NoPack
    /\ isoPath' = [isoPath EXCEPT ![current] = "own"]
    /\ attaching' = current
    /\ UNCHANGED <<sessionVars, current, sum, cacheIso, loaded,
                   loading, jobVars, workVars, stickVars>>

AttachEnd ==
    /\ attaching # NoPack
    /\ \/ sum' = [sum EXCEPT ![attaching] = Own] /\ UNCHANGED isoPath
       \/ /\ sum' = [sum EXCEPT ![attaching] = NoFile]
          /\ isoPath' = [isoPath EXCEPT ![attaching] = "none"]
    /\ attaching' = NoPack
    /\ UNCHANGED <<sessionVars, current, cacheIso, loaded, loading,
                   jobVars, workVars, stickVars>>

RemovePack ==
    /\ LockFree /\ current # NoPack
    /\ current' = NoPack
    /\ UNCHANGED <<sessionVars, attaching, isoPath, sum, cacheIso,
                   loaded, loading, jobVars, workVars, stickVars>>

Requests ==
    \/ LoadStart \/ LoadIsoStart \/ LoadIsoEnd \/ LoadEnd
    \/ LoadFails \/ AttachStart \/ AttachEnd \/ RemovePack

-----------------------------------------------------------------------------
(* start: three critical sections, and what the handler does in between.   *)

\* Mutant: a second request is let through.
ClaimAlways(j) ==
    /\ pc[j] = "new" /\ LockFree
    /\ busy' = TRUE /\ done' = FALSE /\ shown' = "none" /\ tasks' = <<>>
    /\ \E dev \in BOOLEAN : device' = [device EXCEPT ![j] = dev]
    /\ Goto(j, "claimed")
    /\ UNCHANGED <<cancel, packVars, pack, at, wanted, from, cancelled,
                   result, grabbed, workVars, stickVars>>

Claim(j) ==
    /\ pc[j] = "new" /\ LockFree
    /\ ~busy
    /\ busy' = TRUE /\ done' = FALSE /\ shown' = "none" /\ tasks' = <<>>
    /\ \E dev \in BOOLEAN : device' = [device EXCEPT ![j] = dev]
    /\ Goto(j, "claimed")
    /\ UNCHANGED <<cancel, packVars, pack, at, wanted, from, cancelled,
                   result, grabbed, workVars, stickVars>>

\* The slice of packs is copied, the packs are not.
CopyPacks(j) ==
    /\ pc[j] = "claimed" /\ LockFree
    /\ pack' = [pack EXCEPT ![j] = current]
    /\ Goto(j, "packs")
    /\ UNCHANGED <<sessionVars, packVars, at, wanted, from, device,
                   cancelled, result, grabbed, workVars, stickVars>>

\* BuildShop copies the checksum, without the lock.
BuildShop(j) ==
    /\ pc[j] = "packs" /\ pack[j] # NoPack
    /\ isoPath[pack[j]] # "none" /\ sum[pack[j]] # NoFile
    /\ wanted' = [wanted EXCEPT ![j] = sum[pack[j]]]
    /\ Goto(j, "shop")
    /\ UNCHANGED <<sessionVars, packVars, pack, at, from, device, cancelled,
                   result, grabbed, workVars, stickVars>>

\* fail: before there is anything to cancel.
StartFails(j) ==
    /\ pc[j] \in StartSteps /\ LockFree
    /\ busy' = FALSE /\ done' = TRUE /\ shown' = "stopped"
    /\ tasks' = MarkActiveError(tasks)
    /\ Forget(j)
    /\ UNCHANGED <<cancel, packVars, grabbed, workVars, stickVars>>

Launch(j) ==
    /\ pc[j] = "shop" /\ LockFree
    /\ tasks' = PlanTasks(device[j]) /\ cancel' = j
    /\ Goto(j, "fetch")
    /\ UNCHANGED <<busy, done, shown, packVars, pack, at, wanted, from,
                   device, cancelled, result, grabbed, workVars, stickVars>>

-----------------------------------------------------------------------------
(* cancelJob: s.cancel is read under the lock and called without it.       *)

CancelRead ==
    /\ LockFree /\ cancel # NoJob
    /\ grabbed' = cancel
    /\ UNCHANGED <<sessionVars, packVars, pc, pack, at, wanted, from, device,
                   cancelled, result, workVars, stickVars>>

\* The call is early while the image is not finished.
CancelCall ==
    /\ grabbed # NoJob
    /\ cancelled' = [cancelled EXCEPT ![grabbed] =
                        CASE @ # "no" \/ pc[grabbed] = "over" -> @
                          [] pc[grabbed] \in BuildSteps -> "early"
                          [] OTHER -> "late"]
    /\ grabbed' = NoJob
    /\ UNCHANGED <<sessionVars, packVars, pc, pack, at, wanted, from, device,
                   result, workVars, stickVars>>

-----------------------------------------------------------------------------
(* run: compose.Write ...                                                  *)

Cancelled(j) == cancelled[j] # "no"

\* Mutant: the loop runs once more than there are images.
FetchOneMore(j) ==
    /\ pc[j] = "fetch" /\ at[j] <= Official + 1 /\ LockFree
    /\ tasks' = ApplyProgress(tasks, at[j])
    /\ at' = [at EXCEPT ![j] = @ + 1]
    /\ UNCHANGED <<busy, done, shown, cancel, packVars, pc, pack, wanted,
                   from, device, cancelled, result, grabbed, workVars,
                   stickVars>>

\* One official image, from the cache or from the network.
FetchOfficial(j) ==
    /\ pc[j] = "fetch" /\ at[j] <= Official /\ LockFree
    /\ tasks' = ApplyProgress(tasks, at[j])
    /\ at' = [at EXCEPT ![j] = @ + 1]
    /\ UNCHANGED <<busy, done, shown, cancel, packVars, pc, pack, wanted,
                   from, device, cancelled, result, grabbed, workVars,
                   stickVars>>

\* localISO asks twice for the path of the pack's image: to look at the file
StatIso(j) ==
    /\ pc[j] = "fetch" /\ at[j] = Official + 1 /\ LockFree
    /\ FileAt(isoPath[pack[j]]) # NoFile
    /\ tasks' = ApplyProgress(tasks, at[j])
    /\ Goto(j, "stat")
    /\ UNCHANGED <<busy, done, shown, cancel, packVars, pack, at, wanted,
                   from, device, cancelled, result, grabbed, workVars,
                   stickVars>>

\* ... and to return it.
TakeIsoPath(j) ==
    /\ pc[j] = "stat"
    /\ from' = [from EXCEPT ![j] = isoPath[pack[j]]]
    /\ Goto(j, "plan")
    /\ UNCHANGED <<sessionVars, packVars, pack, at, wanted, device,
                   cancelled, result, grabbed, workVars, stickVars>>

\* A new work directory, after ctx was looked at.
StartTree(j) ==
    /\ pc[j] = "plan" /\ ~Cancelled(j)
    /\ treeIso' = NoFile /\ dataImg' = NoImage
    /\ Goto(j, "link")
    /\ UNCHANGED <<sessionVars, packVars, pack, at, wanted, from, device,
                   cancelled, result, grabbed, image, stickVars>>

\* linkOrCopy
LinkIso(j) ==
    /\ pc[j] = "link" /\ FileAt(from[j]) # NoFile
    /\ treeIso' = IF HardLinks /\ from[j] = "cache" THEN Linked
                  ELSE FileAt(from[j])
    /\ Goto(j, "hash")
    /\ UNCHANGED <<sessionVars, packVars, pack, at, wanted, from, device,
                   cancelled, result, grabbed, dataImg, image,
                   stickVars>>

\* Mutant: an image that is not the catalog's is let through.
HashNothing(j) ==
    /\ pc[j] = "hash"
    /\ Goto(j, "format")
    /\ UNCHANGED <<sessionVars, packVars, pack, at, wanted, from, device,
                   cancelled, result, grabbed, workVars, stickVars>>

\* The image in the tree has the checksum that the catalog has.
HashIso(j) ==
    /\ pc[j] = "hash" /\ TreeContent = wanted[j]
    /\ Goto(j, "format")
    /\ UNCHANGED <<sessionVars, packVars, pack, at, wanted, from, device,
                   cancelled, result, grabbed, workVars, stickVars>>

\* mke2fs reads the tree.
FormatData(j) ==
    /\ pc[j] = "format" /\ LockFree
    /\ tasks' = ApplyProgress(tasks, BuildTask)
    /\ dataImg' = [job |-> j, matches |-> TreeContent = wanted[j]]
    /\ Goto(j, "assemble")
    /\ UNCHANGED <<busy, done, shown, cancel, packVars, pack, at, wanted,
                   from, device, cancelled, result, grabbed, treeIso, image, stickVars>>

\* Mutant: copyAt does not look at ctx any more.
AssembleAnyway(j) ==
    /\ pc[j] = "assemble"
    /\ Goto(j, "rename")
    /\ UNCHANGED <<sessionVars, packVars, pack, at, wanted, from, device,
                   cancelled, result, grabbed, workVars, stickVars>>

\* The partitions are copied, with a look at ctx before every block ...
Assemble(j) ==
    /\ pc[j] = "assemble" /\ ~Cancelled(j)
    /\ Goto(j, "rename")
    /\ UNCHANGED <<sessionVars, packVars, pack, at, wanted, from, device,
                   cancelled, result, grabbed, workVars, stickVars>>

\* ... the finished image is renamed and the work directory removed.
RenameImage(j) ==
    /\ pc[j] = "rename" /\ LockFree
    /\ image' = dataImg /\ treeIso' = NoFile /\ dataImg' = NoImage
    /\ tasks' = ComposeDone(tasks)
    /\ Goto(j, IF device[j] THEN "ask" ELSE "ending")
    /\ result' = [result EXCEPT ![j] = IF device[j] THEN @ ELSE "done"]
    /\ UNCHANGED <<busy, done, shown, cancel, packVars, pack, at, wanted,
                   from, device, cancelled, grabbed, stickVars>>

-----------------------------------------------------------------------------
(* ... then writeStick, and the helper.                                    *)

AskPermission(j) ==
    /\ pc[j] = "ask" /\ LockFree
    /\ tasks' = ApplyProgress(tasks, WriteTask)
    /\ writer' = "asking"
    /\ Goto(j, "writing")
    /\ UNCHANGED <<busy, done, shown, cancel, packVars, pack, at, wanted,
                   from, device, cancelled, result, grabbed, workVars, stick>>

GrantPermission ==
    /\ writer = "asking"
    /\ writer' = "writing" /\ stick' = Torn
    /\ UNCHANGED <<sessionVars, packVars, jobVars, workVars>>

\* Refused by the retailer, or by the checks of writeusb.Write.
WriterRefuses ==
    /\ writer = "asking"
    /\ writer' = "failed"
    /\ UNCHANGED <<sessionVars, packVars, jobVars, workVars, stick>>

WriterEnds ==
    /\ writer = "writing"
    /\ \/ writer' = "ok" /\ stick' = image
       \/ writer' = "failed" /\ UNCHANGED stick
    /\ UNCHANGED <<sessionVars, packVars, jobVars, workVars>>

\* Mutant: the goroutine that waits for ctx starts with the first progress.
KillOnceItWrites ==
    /\ writer = "writing" /\ \E j \in Jobs : pc[j] = "writing" /\ Cancelled(j)
    /\ writer' = "failed"
    /\ UNCHANGED <<sessionVars, packVars, jobVars, workVars, stick>>

\* The goroutine that waits for ctx sends the signals.  They reach pkexec
\* while it asks; a helper that is root by then may be out of reach.
KillAsking ==
    /\ writer = "asking" /\ \E j \in Jobs : pc[j] = "writing" /\ Cancelled(j)
    /\ writer' = "failed"
    /\ UNCHANGED <<sessionVars, packVars, jobVars, workVars, stick>>

KillWriting ==
    /\ writer = "writing" /\ \E j \in Jobs : pc[j] = "writing" /\ Cancelled(j)
    /\ writer' = "failed"
    /\ UNCHANGED <<sessionVars, packVars, jobVars, workVars, stick>>

\* Mutant: writeStick does not wait for a helper it has sent the signals to.
WaitUnlessCancelled(j) ==
    /\ pc[j] = "writing" /\ (writer \in {"ok", "failed"} \/ Cancelled(j))
    /\ result' = [result EXCEPT ![j] =
                     CASE Cancelled(j) -> "cancelled"
                       [] writer = "ok" -> "done"
                       [] OTHER -> "stopped"]
    /\ writer' = IF writer \in {"ok", "failed"} THEN "none" ELSE writer
    /\ Goto(j, "ending")
    /\ UNCHANGED <<sessionVars, packVars, pack, at, wanted, from, device,
                   cancelled, grabbed, workVars, stick>>

\* Mutant: the exit status of the helper is not looked at.
WaitForAnyEnd(j) ==
    /\ pc[j] = "writing" /\ writer \in {"ok", "failed"}
    /\ result' = [result EXCEPT ![j] =
                     IF Cancelled(j) THEN "cancelled" ELSE "done"]
    /\ writer' = "none"
    /\ Goto(j, "ending")
    /\ UNCHANGED <<sessionVars, packVars, pack, at, wanted, from, device,
                   cancelled, grabbed, workVars, stick>>

\* cmd.Wait, whether or not the signals had an effect.
WaitForWriter(j) ==
    /\ pc[j] = "writing" /\ writer \in {"ok", "failed"}
    /\ result' = [result EXCEPT ![j] =
                     CASE Cancelled(j) -> "cancelled"
                       [] writer = "ok" -> "done"
                       [] OTHER -> "stopped"]
    /\ writer' = "none"
    /\ Goto(j, "ending")
    /\ UNCHANGED <<sessionVars, packVars, pack, at, wanted, from, device,
                   cancelled, grabbed, workVars, stick>>

\* Any step of compose.Write may fail, and so may starting the helper; where
\* ctx is looked at a cancelled job ends as such.
JobFails(j) ==
    /\ pc[j] \in BuildSteps \cup {"rename", "ask"}
    /\ \/ result' = [result EXCEPT ![j] = "stopped"]
       \/ /\ Cancelled(j) /\ pc[j] \in {"fetch", "plan", "assemble"}
          /\ result' = [result EXCEPT ![j] = "cancelled"]
    /\ treeIso' = NoFile /\ dataImg' = NoImage
    /\ Goto(j, "ending")
    /\ UNCHANGED <<sessionVars, packVars, pack, at, wanted, from, device,
                   cancelled, grabbed, image, stickVars>>

EndJob(j) ==
    /\ pc[j] = "ending" /\ LockFree
    /\ busy' = FALSE /\ done' = TRUE /\ cancel' = NoJob
    /\ shown' = result[j]
    /\ tasks' = IF result[j] = "done"
                THEN [i \in 1 .. Len(tasks) |-> "done"]
                ELSE MarkActiveError(tasks)
    /\ Forget(j)
    /\ UNCHANGED <<packVars, grabbed, workVars, stickVars>>

StartHandler(j) == CopyPacks(j) \/ BuildShop(j) \/ StartFails(j) \/ Launch(j)

JobStep(j) ==
    \/ FetchOfficial(j) \/ StatIso(j) \/ TakeIsoPath(j) \/ StartTree(j)
    \/ LinkIso(j) \/ HashIso(j) \/ FormatData(j)
    \/ Assemble(j) \/ RenameImage(j) \/ AskPermission(j) \/ WaitForWriter(j) \/ JobFails(j)
    \/ EndJob(j)

Helper == GrantPermission \/ WriterRefuses \/ WriterEnds \/ KillWriting

Next ==
    \/ Requests \/ CancelRead \/ CancelCall \/ KillAsking \/ Helper
    \/ \E j \in Jobs : Claim(j) \/ StartHandler(j) \/ JobStep(j)

\* Goroutines run, also those that wait for session.mu (a Go mutex starves
\* nobody, however often another handler takes it); a download ends or fails,
\* AttachISO finishes hashing, the helper finishes writing.  Nobody has to
\* answer the permission prompt and no request has to come.
Spec ==
    /\ Init /\ [][Next]_vars
    /\ WF_vars(CancelCall) /\ WF_vars(KillAsking) /\ WF_vars(AttachEnd)
    /\ WF_vars(WriterEnds)
    /\ SF_vars(\E j \in Jobs : StartHandler(j) \/ JobStep(j))

-----------------------------------------------------------------------------
(* Properties.                                                             *)

\* However requests to start race, one job runs at a time: it alone uses the
\* work directory and the helper, and a function left in s.cancel is its own.
OneJobAtATime ==
    /\ \A i, j \in Jobs : pc[i] \in Running /\ pc[j] \in Running => i = j
    /\ cancel # NoJob => pc[cancel] \in Running

\* The page is told that a job has ended only when no helper writes to the
\* stick any more, cancelled or not: a helper has its job waiting for it.
DoneMeansStill ==
    /\ done => ~busy /\ \A j \in Jobs : pc[j] \notin Running
    /\ writer # "none" => \E j \in Jobs : pc[j] = "writing"

\* After "You can boot PCs from that stick" the stick holds all of the image
\* that the very job composed.
DoneStickIsWhole ==
    \A j \in Jobs :
        result[j] = "done" /\ device[j] => stick = image /\ image.job = j

\* What is read from the session without its lock never reaches the disk
\* image unchecked: its ISO has the checksum its catalog has.
ImageMatchesCatalog == image.matches

\* A cancel that s.cancel received while the image was not finished stops
\* the job before it asks for permission to write, and it is not shown as
\* done (the two checks of ctx in compose.Write and the one in copyAt).
EarlyCancelStops ==
    \A j \in Jobs : cancelled[j] = "early"
        => /\ pc[j] \notin StickSteps \cup {"rename"}
           /\ image.job # j
           /\ result[j] # "done"

\* The list of tasks agrees with the job: at most one is active while it
\* runs, none when it is over, and what is ticked has been done.
TasksTellTheTruth ==
    /\ \A i, k \in 1 .. Len(tasks) :
           tasks[i] = "active" /\ tasks[k] = "active" => i = k
    /\ done => \A i \in 1 .. Len(tasks) : tasks[i] # "active"
    /\ shown = "done" => \A i \in 1 .. Len(tasks) : tasks[i] = "done"
    /\ \A j \in Jobs : pc[j] \in BuildSteps \cup {"rename"}
           => Len(tasks) >= BuildTask /\ tasks[BuildTask] # "done"

\* A job that was cancelled ends, also while the permission prompt is open.
CancelledJobEnds ==
    \A j \in Jobs : Cancelled(j) ~> pc[j] = "over"
=============================================================================
