--------------------------- MODULE CreatorProofs ----------------------------
(***************************************************************************)
(* For any number of jobs, loads and official editions: one job at a time, *)
(* no helper without the job that waits for it, and what the page is told  *)
(* agrees with the stick, the image and the tasks.                         *)
(***************************************************************************)
EXTENDS CreatorJob, SequenceTheorems, TLAPS

\* Why s.busy is enough.  It is set in the critical section that reads it and
\* cleared only by the job that set it; s.cancel is set after the last step
\* of start that can fail and cleared together with s.busy.
IInv ==
    /\ pc \in [Jobs -> Running \cup {"new", "over"}]
    /\ cancel \in Jobs \cup {NoJob}
    /\ \A i, j \in Jobs : pc[i] \in Running /\ pc[j] \in Running => i = j
    /\ \A j \in Jobs : pc[j] \in Running => busy = TRUE /\ done = FALSE
    /\ cancel # NoJob => pc[cancel] \in Running \ StartSteps
    /\ writer # "none" => \E j \in Jobs : pc[j] = "writing"
    /\ done => ~busy

\* A running job that takes a step inside its run, and does not leave a
\* helper alone, keeps the invariant.
LEMMA Advance ==
    ASSUME IInv, NEW j \in Jobs, NEW step \in Running,
           pc[j] \in Running, pc[j] # "writing",
           step \in StartSteps => pc[j] \in StartSteps,
           Goto(j, step), UNCHANGED <<busy, done, cancel, writer>>
    PROVE  IInv'
<1>1. /\ pc' \in [Jobs -> Running \cup {"new", "over"}]
      /\ cancel' \in Jobs \cup {NoJob}
  BY DEF IInv, Goto
<1>2. \A i \in Jobs : pc'[i] \in Running => pc[i] \in Running
  BY DEF IInv, Goto
<1>3. \A i, k \in Jobs : pc'[i] \in Running /\ pc'[k] \in Running => i = k
  BY <1>2 DEF IInv
<1>4. \A i \in Jobs : pc'[i] \in Running => busy' = TRUE /\ done' = FALSE
  BY <1>2 DEF IInv
<1>5. cancel' # NoJob => pc'[cancel'] \in Running \ StartSteps
  BY DEF IInv, Goto
<1>6. writer' # "none" => \E i \in Jobs : pc'[i] = "writing"
  BY DEF IInv, Goto
<1>. QED  BY <1>1, <1>3, <1>4, <1>5, <1>6 DEF IInv

\* Whoever runs is alone, so a job that is not waiting has no helper.
LEMMA NoHelperElsewhere ==
    ASSUME IInv, NEW j \in Jobs, pc[j] \in Running, pc[j] # "writing"
    PROVE  writer = "none"
  BY DEF IInv, Running, StickSteps

\* The end of a job, whether or not it was launched.
LEMMA Finish ==
    ASSUME IInv, NEW j \in Jobs, pc[j] \in Running, pc[j] # "writing",
           pc' = [pc EXCEPT ![j] = "over"], busy' = FALSE,
           cancel' = NoJob \/ (cancel' = cancel /\ pc[j] \in StartSteps),
           writer' = writer
    PROVE  IInv'
<1>1. "over" \notin Running
  BY DEF Running, StartSteps, BuildSteps, StickSteps
<1>2. \A i \in Jobs : pc'[i] \notin Running
  BY <1>1 DEF IInv
<1>3. cancel' = NoJob
  BY DEF IInv
<1>4. writer' = "none"
  BY NoHelperElsewhere
<1>5. pc' \in [Jobs -> Running \cup {"new", "over"}]
  BY DEF IInv
<1>. QED  BY <1>2, <1>3, <1>4, <1>5 DEF IInv

\* A step that changes neither the session's job nor any job's place.
LEMMA Aside ==
    ASSUME IInv, UNCHANGED <<pc, busy, done, cancel>>,
           writer' # "none" => writer # "none"
    PROVE  IInv'
  BY DEF IInv

\* Nothing runs and nothing is to be cancelled at the start.
LEMMA InitIInv == Init => IInv
<1>1. "new" \notin Running
  BY DEF Running, StartSteps, BuildSteps, StickSteps
<1>. QED  BY <1>1 DEF Init, IInv

\* One step per group of handlers.
LEMMA NextIInv == ASSUME IInv, [Next]_vars PROVE IInv'
<1>. USE DEF Running, StartSteps, BuildSteps, StickSteps
<1>1. CASE Requests
  <2>1. UNCHANGED <<pc, busy, done, cancel, writer>>
    BY <1>1 DEF Requests, LoadStart, LoadIsoStart, LoadIsoEnd, LoadEnd,
                LoadFails, AttachStart, AttachEnd, RemovePack, sessionVars,
                jobVars, stickVars
  <2>. QED  BY <2>1, Aside
<1>2. CASE CancelRead \/ CancelCall
  <2>1. UNCHANGED <<pc, busy, done, cancel, writer>>
    BY <1>2 DEF CancelRead, CancelCall, sessionVars, stickVars
  <2>. QED  BY <2>1, Aside
<1>3. CASE KillAsking \/ Helper
  <2>1. /\ UNCHANGED <<pc, busy, done, cancel>>
        /\ writer # "none"
    BY <1>3 DEF KillAsking, Helper, GrantPermission, WriterRefuses,
                WriterEnds, KillWriting, sessionVars, jobVars
  <2>. QED  BY <2>1, Aside
<1>4. ASSUME NEW j \in Jobs, Claim(j) PROVE IInv'
  <2>1. /\ pc[j] = "new" /\ ~busy /\ busy' = TRUE /\ done' = FALSE
        /\ pc' = [pc EXCEPT ![j] = "claimed"]
        /\ UNCHANGED <<cancel, writer>>
    BY <1>4 DEF Claim, Goto, stickVars
  <2>2. \A i \in Jobs : pc[i] \notin Running
    BY <2>1 DEF IInv
  <2>3. cancel = NoJob /\ writer = "none"
    BY <2>2 DEF IInv
  <2>4. pc' \in [Jobs -> Running \cup {"new", "over"}]
    BY <2>1 DEF IInv
  <2>5. \A i \in Jobs : pc'[i] \in Running => i = j
    BY <2>1, <2>2 DEF IInv
  <2>. QED  BY <2>1, <2>3, <2>4, <2>5 DEF IInv
<1>5. ASSUME NEW j \in Jobs, StartHandler(j) PROVE IInv'
  <2>1. CASE CopyPacks(j)
    BY <2>1, Advance DEF CopyPacks, Goto, sessionVars, stickVars
  <2>2. CASE BuildShop(j)
    BY <2>2, Advance DEF BuildShop, Goto, sessionVars, stickVars
  <2>3. CASE StartFails(j)
    BY <2>3, Finish DEF StartFails, Forget, Goto, stickVars
  <2>4. CASE Launch(j)
    <3>1. /\ pc[j] = "shop" /\ pc' = [pc EXCEPT ![j] = "fetch"]
          /\ cancel' = j /\ UNCHANGED <<busy, done, writer>>
      BY <2>4 DEF Launch, Goto, stickVars
    <3>2. writer = "none"
      BY <3>1, NoHelperElsewhere
    <3>3. pc' \in [Jobs -> Running \cup {"new", "over"}]
      BY <3>1 DEF IInv
    <3>4. \A i \in Jobs : pc'[i] \in Running => i = j
      BY <3>1 DEF IInv
    <3>5. busy = TRUE /\ done = FALSE /\ pc'[cancel'] = "fetch"
      BY <3>1 DEF IInv
    <3>. QED  BY <3>1, <3>2, <3>3, <3>4, <3>5 DEF IInv
  <2>. QED  BY <1>5, <2>1, <2>2, <2>3, <2>4 DEF StartHandler
<1>6. ASSUME NEW j \in Jobs, JobStep(j) PROVE IInv'
  <2>1. CASE FetchOfficial(j)
    BY <2>1, Aside DEF FetchOfficial, stickVars
  <2>2. CASE StatIso(j) \/ TakeIsoPath(j) \/ StartTree(j) \/ LinkIso(j)
    BY <2>2, Advance DEF StatIso, TakeIsoPath, StartTree, LinkIso, Goto,
                         sessionVars, stickVars
  <2>3. CASE HashIso(j) \/ FormatData(j) \/ Assemble(j)
    BY <2>3, Advance DEF HashIso, FormatData, Assemble, Goto, sessionVars,
                         stickVars
  <2>4. CASE RenameImage(j)
    <3>1. \E step \in {"ask", "ending"} : Goto(j, step)
      BY <2>4 DEF RenameImage
    <3>. QED  BY <2>4, <3>1, Advance DEF RenameImage, stickVars
  <2>5. CASE AskPermission(j)
    <3>1. /\ pc[j] = "ask" /\ pc' = [pc EXCEPT ![j] = "writing"]
          /\ UNCHANGED <<busy, done, cancel>>
      BY <2>5 DEF AskPermission, Goto
    <3>2. pc' \in [Jobs -> Running \cup {"new", "over"}] /\ pc'[j] = "writing"
      BY <3>1 DEF IInv
    <3>3. \A i \in Jobs : pc'[i] \in Running => pc[i] \in Running
      BY <3>1 DEF IInv
    <3>4. cancel' # NoJob => pc'[cancel'] \in Running \ StartSteps
      BY <3>1 DEF IInv
    <3>. QED  BY <3>1, <3>2, <3>3, <3>4 DEF IInv
  <2>6. CASE WaitForWriter(j)
    <3>1. /\ pc[j] = "writing" /\ pc' = [pc EXCEPT ![j] = "ending"]
          /\ writer' = "none" /\ UNCHANGED <<busy, done, cancel>>
      BY <2>6 DEF WaitForWriter, Goto, sessionVars
    <3>2. pc' \in [Jobs -> Running \cup {"new", "over"}]
      BY <3>1 DEF IInv
    <3>3. \A i \in Jobs : pc'[i] \in Running => pc[i] \in Running
      BY <3>1 DEF IInv
    <3>4. cancel' # NoJob => pc'[cancel'] \in Running \ StartSteps
      BY <3>1 DEF IInv
    <3>. QED  BY <3>1, <3>2, <3>3, <3>4 DEF IInv
  <2>7. CASE JobFails(j)
    BY <2>7, Advance DEF JobFails, Goto, sessionVars, stickVars
  <2>8. CASE EndJob(j)
    BY <2>8, Finish DEF EndJob, Forget, Goto, stickVars
  <2>. QED  BY <1>6, <2>1, <2>2, <2>3, <2>4, <2>5, <2>6, <2>7, <2>8 DEF JobStep
<1>7. CASE UNCHANGED vars
  BY <1>7, Aside DEF vars, sessionVars, jobVars, stickVars
<1>. QED  BY <1>1, <1>2, <1>3, <1>4, <1>5, <1>6, <1>7 DEF Next

\* The invariant holds in every reachable state.
THEOREM Invariance == Spec => []IInv
  BY InitIInv, NextIInv, PTL DEF Spec

\* However requests race, one job runs at a time (session.busy).
THEOREM OneJob == Spec => []OneJobAtATime
<1>1. IInv => OneJobAtATime
  BY DEF IInv, OneJobAtATime
<1>. QED  BY <1>1, Invariance, PTL

\* When the page hears "done", no helper writes any more (cmd.Wait in
\* writeStick before the last critical section of run).
THEOREM Still == Spec => []DoneMeansStill
<1>1. IInv => DoneMeansStill
  BY DEF IInv, DoneMeansStill
<1>. QED  BY <1>1, Invariance, PTL

-----------------------------------------------------------------------------
(* Types.                                                                  *)

\* TypeOK, a pack being loaded has a number, and a job that has built the
\* shop's catalog has its pack.
Shapes ==
    /\ TypeOK
    /\ loading # "no" => loaded # 0
    /\ \A j \in Jobs : pc[j] \in {"shop"} \cup BuildSteps => pack[j] # NoPack

\* What is done to a list of tasks gives a list of tasks of that length.
LEMMA TaskLists ==
    ASSUME NEW list \in Seq(Status), NEW n \in Nat
    PROVE  /\ ApplyProgress(list, n) \in Seq(Status)
           /\ Len(ApplyProgress(list, n)) = Len(list)
           /\ ComposeDone(list) \in Seq(Status)
           /\ Len(ComposeDone(list)) = Len(list)
           /\ MarkActiveError(list) \in Seq(Status)
           /\ [i \in 1 .. Len(list) |-> "done"] \in Seq(Status)
<1>1. Len(list) \in Nat /\ \A i \in 1 .. Len(list) : list[i] \in Status
  BY LenProperties, ElementOfSeq
<1>2. ApplyProgress(list, n) \in [1 .. Len(list) -> Status]
  BY <1>1 DEF ApplyProgress, Status
<1>3. ComposeDone(list) \in [1 .. Len(list) -> Status]
  BY <1>1 DEF ComposeDone, Status
<1>4. MarkActiveError(list) \in [1 .. Len(list) -> Status]
  BY <1>1 DEF MarkActiveError, Status
<1>5. [i \in 1 .. Len(list) |-> "done"] \in [1 .. Len(list) -> Status]
  BY DEF Status
<1>6. ASSUME NEW f \in [1 .. Len(list) -> Status]
      PROVE  f \in Seq(Status) /\ Len(f) = Len(list)
  BY <1>1, <1>6, SeqDef, LenProperties
<1>. QED  BY <1>2, <1>3, <1>4, <1>5, <1>6

\* The tasks of a new job are a list of tasks.
LEMMA PlannedTasks ==
    ASSUME CreatorConstants, NEW dev \in BOOLEAN
    PROVE  /\ PlanTasks(dev) \in Seq(Status)
           /\ Len(PlanTasks(dev)) = (IF dev THEN WriteTask ELSE BuildTask)
<1>1. BuildTask \in Nat /\ WriteTask \in Nat
  BY DEF CreatorConstants, BuildTask, WriteTask
<1>2. PICK n \in Nat : /\ n = (IF dev THEN WriteTask ELSE BuildTask)
                       /\ PlanTasks(dev) \in [1 .. n -> Status]
  BY <1>1 DEF PlanTasks, Status
<1>. QED  BY <1>2, SeqDef, LenProperties

\* The marks and numbers that the types are made of.
LEMMA Kinds ==
    ASSUME CreatorConstants
    PROVE  /\ NoPack \notin Loads /\ 1 \in 1 .. Official + 1
           /\ {NoFile, Own} \subseteq Contents
           /\ \A p \in Loads : <<p, "torn">> \in Contents
                              /\ <<p, "whole">> \in Contents
           /\ NoImage \in Images
           /\ \A j \in Jobs, b \in BOOLEAN : [job |-> j, matches |-> b] \in Images
  BY DEF CreatorConstants, NoPack, Loads, Contents, NoImage, Images, NoJob

LEMMA InitShapes == Init => Shapes
<1>. SUFFICES ASSUME Init PROVE Shapes
  OBVIOUS
<1>1. TypeOK
  BY CreatorConstants, Kinds, EmptySeq DEF Init, TypeOK, Running
<1>. QED  BY <1>1 DEF Init, Shapes, StartSteps, BuildSteps

\* Requests that change the packs.
LEMMA RequestsKeepShapes ==
    ASSUME Shapes, Requests PROVE Shapes'
<1>. USE CreatorConstants, Kinds DEF Shapes, TypeOK, sessionVars, jobVars, workVars, stickVars
<1>1. CASE LoadStart
  BY <1>1 DEF LoadStart, Loads, CreatorConstants
<1>2. CASE LoadIsoStart
  <2>1. loaded \in Loads
    BY <1>2 DEF LoadIsoStart
  <2>2. cacheIso' \in Contents
    BY <1>2, <2>1 DEF LoadIsoStart
  <2>. QED  BY <1>2, <2>2 DEF LoadIsoStart
<1>3. CASE LoadIsoEnd
  <2>1. loaded \in Loads
    BY <1>3 DEF LoadIsoEnd
  <2>2. cacheIso' \in Contents
    BY <1>3, <2>1 DEF LoadIsoEnd
  <2>. QED  BY <1>3, <2>2 DEF LoadIsoEnd
<1>4. CASE LoadEnd
  BY <1>4 DEF LoadEnd, Loads
<1>5. CASE LoadFails
  BY <1>5 DEF LoadFails
<1>6. CASE AttachStart
  BY <1>6 DEF AttachStart
<1>7. CASE AttachEnd
  <2>1. attaching \in Loads
    BY <1>7 DEF AttachEnd
  <2>2. sum' \in [Loads -> Contents]
    BY <1>7, <2>1 DEF AttachEnd
  <2>3. isoPath' \in [Loads -> {"none", "cache", "own"}]
    BY <1>7, <2>1 DEF AttachEnd
  <2>. QED  BY <1>7, <2>2, <2>3 DEF AttachEnd
<1>8. CASE RemovePack
  BY <1>8 DEF RemovePack
<1>. QED  BY <1>1, <1>2, <1>3, <1>4, <1>5, <1>6, <1>7, <1>8 DEF Requests

\* What a job leaves behind when it is over is well typed.
LEMMA ForgottenJob ==
    ASSUME Shapes, NEW j \in Jobs, Forget(j)
    PROVE  /\ pc' \in [Jobs -> Running \cup {"new", "over"}]
           /\ pack' \in [Jobs -> Loads \cup {NoPack}]
           /\ at' \in [Jobs -> 1 .. Official + 1]
           /\ wanted' \in [Jobs -> Contents]
           /\ from' \in [Jobs -> {"none", "cache", "own"}]
           /\ device' \in [Jobs -> BOOLEAN]
           /\ cancelled' \in [Jobs -> {"no", "early", "late"}]
           /\ result' \in [Jobs -> {"none", "done", "cancelled", "stopped"}]
           /\ \A i \in Jobs : pc'[i] \in {"shop"} \cup BuildSteps
                                  => pack'[i] # NoPack
<1>. USE CreatorConstants, Kinds DEF Shapes, TypeOK, Forget, Goto
<1>1. /\ pc' \in [Jobs -> Running \cup {"new", "over"}]
      /\ pack' \in [Jobs -> Loads \cup {NoPack}]
      /\ at' \in [Jobs -> 1 .. Official + 1]
      /\ wanted' \in [Jobs -> Contents]
  OBVIOUS
<1>2. /\ from' \in [Jobs -> {"none", "cache", "own"}]
      /\ device' \in [Jobs -> BOOLEAN]
      /\ cancelled' \in [Jobs -> {"no", "early", "late"}]
      /\ result' \in [Jobs -> {"none", "done", "cancelled", "stopped"}]
  OBVIOUS
<1>3. \A i \in Jobs : pc'[i] \in {"shop"} \cup BuildSteps => pack'[i] # NoPack
  BY DEF BuildSteps
<1>. QED  BY <1>1, <1>2, <1>3

\* Steps of a job and of the handler that starts it.
LEMMA JobsKeepShapes ==
    ASSUME Shapes, NEW j \in Jobs, Claim(j) \/ StartHandler(j) \/ JobStep(j)
    PROVE  Shapes'
<1>. USE CreatorConstants, Kinds
     DEF Shapes, TypeOK, Running, StartSteps, BuildSteps, StickSteps, Goto,
         sessionVars, packVars, jobVars, workVars, stickVars
<1>1. CASE Claim(j)
  <2>1. tasks' \in Seq(Status)
    BY <1>1, EmptySeq DEF Claim
  <2>2. device' \in [Jobs -> BOOLEAN]
    BY <1>1 DEF Claim
  <2>3. /\ pc' \in [Jobs -> Running \cup {"new", "over"}]
        /\ \A i \in Jobs : pc'[i] \in {"shop"} \cup BuildSteps
                                => pack'[i] # NoPack
    BY <1>1 DEF Claim
  <2>4. busy' \in BOOLEAN /\ done' \in BOOLEAN
    BY <1>1 DEF Claim
  <2>. QED  BY <1>1, <2>1, <2>2, <2>3, <2>4 DEF Claim
<1>2. CASE CopyPacks(j)
  BY <1>2 DEF CopyPacks
<1>3. CASE BuildShop(j)
  BY <1>3 DEF BuildShop
<1>4. CASE StartFails(j)
  <2>1. tasks' \in Seq(Status)
    BY <1>4, TaskLists DEF StartFails
  <2>2. busy' \in BOOLEAN /\ done' \in BOOLEAN
    BY <1>4 DEF StartFails
  <2>. QED  BY <1>4, <2>1, <2>2, ForgottenJob DEF StartFails
<1>5. CASE Launch(j)
  BY <1>5, PlannedTasks DEF Launch
<1>6. CASE FetchOfficial(j)
  BY <1>6, TaskLists DEF FetchOfficial
<1>7. CASE StatIso(j)
  BY <1>7, TaskLists DEF StatIso
<1>8. CASE TakeIsoPath(j)
  BY <1>8 DEF TakeIsoPath
<1>9. CASE StartTree(j)
  BY <1>9 DEF StartTree
<1>10. CASE LinkIso(j)
  BY <1>10 DEF LinkIso, FileAt
<1>11. CASE HashIso(j)
  BY <1>11 DEF HashIso
<1>12. CASE FormatData(j)
  <2>1. tasks' \in Seq(Status)
    <3>1. BuildTask \in Nat
      BY DEF CreatorConstants, BuildTask
    <3>. QED  BY <1>12, <3>1, TaskLists DEF FormatData
  <2>2. dataImg' \in Images
    BY <1>12 DEF FormatData
  <2>. QED  BY <1>12, <2>1, <2>2 DEF FormatData
<1>13. CASE Assemble(j)
  BY <1>13 DEF Assemble
<1>14. CASE RenameImage(j)
  <2>1. tasks' \in Seq(Status)
    BY <1>14, TaskLists DEF RenameImage
  <2>2. result' \in [Jobs -> {"none", "done", "cancelled", "stopped"}]
    BY <1>14 DEF RenameImage
  <2>. QED  BY <1>14, <2>1, <2>2 DEF RenameImage
<1>15. CASE AskPermission(j)
  <2>1. tasks' \in Seq(Status)
    <3>1. WriteTask \in Nat
      BY DEF CreatorConstants, WriteTask
    <3>. QED  BY <1>15, <3>1, TaskLists DEF AskPermission
  <2>. QED  BY <1>15, <2>1 DEF AskPermission
<1>16. CASE WaitForWriter(j)
  BY <1>16 DEF WaitForWriter
<1>17. CASE JobFails(j)
  <2>1. result' \in [Jobs -> {"none", "done", "cancelled", "stopped"}]
    BY <1>17 DEF JobFails
  <2>. QED  BY <1>17, <2>1 DEF JobFails
<1>18. CASE EndJob(j)
  <2>1. tasks' \in Seq(Status)
    BY <1>18, TaskLists DEF EndJob
  <2>2. shown' \in {"none", "done", "cancelled", "stopped"}
    BY <1>18 DEF EndJob
  <2>3. busy' \in BOOLEAN /\ done' \in BOOLEAN
    BY <1>18 DEF EndJob
  <2>. QED  BY <1>18, <2>1, <2>2, <2>3, ForgottenJob DEF EndJob
<1>. QED  BY <1>1, <1>2, <1>3, <1>4, <1>5, <1>6, <1>7, <1>8, <1>9, <1>10, <1>11, <1>12, <1>13, <1>14, <1>15, <1>16, <1>17, <1>18 DEF StartHandler, JobStep

\* What the helper and a cancel change.
LEMMA OthersKeepShapes ==
    ASSUME Shapes, CancelRead \/ CancelCall \/ KillAsking \/ Helper
    PROVE  Shapes'
<1>. USE CreatorConstants, Kinds
     DEF Shapes, TypeOK, sessionVars, packVars, jobVars, workVars
<1>1. CASE CancelRead
  BY <1>1 DEF CancelRead, stickVars
<1>2. CASE CancelCall
  <2>1. cancelled' \in [Jobs -> {"no", "early", "late"}]
    BY <1>2 DEF CancelCall
  <2>. QED  BY <1>2, <2>1 DEF CancelCall, stickVars
<1>3. CASE KillAsking \/ Helper
  BY <1>3 DEF KillAsking, Helper, GrantPermission, WriterRefuses, WriterEnds,
              KillWriting
<1>. QED  BY <1>1, <1>2, <1>3

LEMMA NextShapes == ASSUME Shapes, [Next]_vars PROVE Shapes'
<1>1. CASE UNCHANGED vars
  BY <1>1 DEF Shapes, TypeOK, vars, sessionVars, packVars, jobVars, workVars,
              stickVars
<1>. QED  BY <1>1, RequestsKeepShapes, JobsKeepShapes, OthersKeepShapes DEF Next

\* Every variable keeps its type, for any number of jobs, loads and editions.
THEOREM TypeCorrect == Spec => []TypeOK
<1>1. Shapes => TypeOK
  BY DEF Shapes
<1>. QED  BY <1>1, InitShapes, NextShapes, PTL DEF Spec

-----------------------------------------------------------------------------
(* The stick and the cancel.                                               *)

\* Whose image is where: data.img is that of the job that assembles it, the
\* finished image that of the job that writes it, and a job that ended well
\* has the stick it asked for.
StickInv ==
    /\ \A j \in Jobs : pc[j] \in {"assemble", "rename"} => dataImg.job = j
    /\ \A j \in Jobs : pc[j] \in StickSteps => image.job = j
    /\ \A j \in Jobs : result[j] = "done"
         => pc[j] = "ending" /\ (device[j] => stick = image /\ image.job = j)
    /\ writer = "ok" => stick = image

\* No job that is still building has a finished image, so a cancel that
\* finds it building comes before Assemble looks at ctx for the last time.
CancelInv ==
    \A j \in Jobs :
      /\ pc[j] \in {"new", "rename"} \cup StartSteps \cup BuildSteps
           => image.job # j
      /\ cancelled[j] = "early"
           => /\ pc[j] \in BuildSteps \cup {"ending"}
              /\ image.job # j /\ result[j] # "done"

Inv == Shapes /\ IInv /\ StickInv /\ CancelInv

\* Steps of a job and of the handler that starts it.
LEMMA JobsKeepInv ==
    ASSUME Inv, NEW j \in Jobs, Claim(j) \/ StartHandler(j) \/ JobStep(j)
    PROVE  StickInv' /\ CancelInv'
<1>. USE DEF Inv, Shapes, TypeOK, IInv, StickInv, CancelInv, Cancelled, Running,
             StartSteps, BuildSteps, StickSteps, Goto, sessionVars, packVars,
             jobVars, workVars, stickVars
<1>1. CASE Claim(j)
  BY <1>1 DEF Claim
<1>2. CASE CopyPacks(j)
  BY <1>2 DEF CopyPacks
<1>3. CASE BuildShop(j)
  BY <1>3 DEF BuildShop
<1>4. CASE StartFails(j)
  BY <1>4 DEF StartFails, Forget
<1>5. CASE Launch(j)
  BY <1>5 DEF Launch
<1>6. CASE FetchOfficial(j)
  BY <1>6 DEF FetchOfficial
<1>7. CASE StatIso(j)
  BY <1>7 DEF StatIso
<1>8. CASE TakeIsoPath(j)
  BY <1>8 DEF TakeIsoPath
<1>9. CASE StartTree(j)
  BY <1>9 DEF StartTree
<1>10. CASE LinkIso(j)
  BY <1>10 DEF LinkIso
<1>11. CASE HashIso(j)
  BY <1>11 DEF HashIso
<1>12. CASE FormatData(j)
  BY <1>12 DEF FormatData
<1>13. CASE Assemble(j)
  BY <1>13 DEF Assemble
<1>14. CASE RenameImage(j)
  BY <1>14 DEF RenameImage
<1>15. CASE AskPermission(j)
  BY <1>15 DEF AskPermission
<1>16. CASE WaitForWriter(j)
  BY <1>16 DEF WaitForWriter
<1>17. CASE JobFails(j)
  BY <1>17 DEF JobFails
<1>18. CASE EndJob(j)
  BY <1>18 DEF EndJob, Forget
<1>. QED  BY <1>1, <1>2, <1>3, <1>4, <1>5, <1>6, <1>7, <1>8, <1>9, <1>10, <1>11, <1>12, <1>13, <1>14, <1>15, <1>16, <1>17, <1>18 DEF StartHandler, JobStep

\* Everybody else.
LEMMA OthersKeepInv ==
    ASSUME Inv,
           Requests \/ CancelRead \/ CancelCall \/ KillAsking \/ Helper
    PROVE  StickInv' /\ CancelInv'
<1>. USE DEF Inv, StickInv, CancelInv, sessionVars, packVars, jobVars, workVars
<1>1. CASE Requests
  <2>1. UNCHANGED <<jobVars, workVars, stickVars>>
    BY <1>1 DEF Requests, LoadStart, LoadIsoStart, LoadIsoEnd, LoadEnd,
                LoadFails, AttachStart, AttachEnd, RemovePack
  <2>. QED  BY <2>1 DEF stickVars
<1>2. CASE CancelRead
  BY <1>2 DEF CancelRead, stickVars
<1>3. CASE CancelCall
  <2>1. /\ UNCHANGED <<pc, device, result, workVars, stickVars>>
        /\ \A i \in Jobs : cancelled'[i] = "early"
             => cancelled[i] = "early" \/ pc[i] \in BuildSteps
    BY <1>3 DEF CancelCall, Shapes, TypeOK
  <2>2. \A i \in Jobs : pc[i] \in BuildSteps => result[i] # "done"
    BY DEF BuildSteps
  <2>. QED  BY <2>1, <2>2 DEF stickVars
<1>4. CASE KillAsking \/ Helper
  <2>1. UNCHANGED <<jobVars, workVars>> /\ writer # "none"
    BY <1>4 DEF KillAsking, Helper, GrantPermission, WriterRefuses,
                WriterEnds, KillWriting
  <2>2. \A i \in Jobs : result[i] # "done"
    <3>1. PICK j \in Jobs : pc[j] = "writing"
      BY <2>1 DEF IInv
    <3>2. \A i \in Jobs : pc[i] = "ending" => i = j
      BY <3>1 DEF IInv, Running, StickSteps
    <3>. QED  BY <3>1, <3>2
  <2>3. writer' = "ok" => stick' = image
    BY <1>4 DEF KillAsking, Helper, GrantPermission, WriterRefuses,
                WriterEnds, KillWriting
  <2>. QED  BY <2>1, <2>2, <2>3
<1>. QED  BY <1>1, <1>2, <1>3, <1>4

\* The invariant of stick and cancel holds in every reachable state.
LEMMA InvHolds == Spec => []Inv
<1>1. Init => StickInv /\ CancelInv
  <2>1. NoJob \notin Jobs
    BY CreatorConstants DEF CreatorConstants, NoJob, Jobs
  <2>. QED  BY <2>1 DEF Init, StickInv, CancelInv, NoImage, StickSteps,
                        BuildSteps
<1>2. Inv /\ [Next]_vars => (StickInv /\ CancelInv)'
  <2>. SUFFICES ASSUME Inv, [Next]_vars PROVE (StickInv /\ CancelInv)'
    OBVIOUS
  <2>1. CASE UNCHANGED vars
    BY <2>1 DEF Inv, StickInv, CancelInv, vars, sessionVars, jobVars,
                workVars, stickVars
  <2>. QED  BY <2>1, JobsKeepInv, OthersKeepInv DEF Next
<1>. QED  BY <1>1, <1>2, InitShapes, NextShapes, InitIInv, NextIInv, PTL
          DEF Spec, Inv

\* When the page says that PCs boot from the stick, all of the image that
\* this very job composed is on it (writeStick's wait, run's last section).
THEOREM DoneStickIsWholeHolds == Spec => []DoneStickIsWhole
<1>1. Inv => DoneStickIsWhole
  BY DEF Inv, StickInv, DoneStickIsWhole
<1>. QED  BY <1>1, InvHolds, PTL

\* A cancel that reaches a job while it builds keeps its image from ever being
\* finished, whichever handlers run in between.
THEOREM EarlyCancelStopsHolds == Spec => []EarlyCancelStops
<1>1. Inv => EarlyCancelStops
  BY DEF Inv, CancelInv, EarlyCancelStops, BuildSteps, StickSteps
<1>. QED  BY <1>1, InvHolds, PTL

-----------------------------------------------------------------------------
(* The catalog.                                                            *)

\* A tree with a file of its own keeps the content that was hashed.
CatalogInv ==
    /\ image.matches = TRUE /\ dataImg.matches = TRUE
    /\ treeIso # Linked
    /\ \A j \in Jobs : pc[j] = "format" => treeIso = wanted[j]

\* Steps of a job and of the handler that starts it, in a directory whose
\* ISO is a copy.
LEMMA JobsKeepCatalog ==
    ASSUME ~HardLinks, Inv, CatalogInv, NEW j \in Jobs,
           Claim(j) \/ StartHandler(j) \/ JobStep(j)
    PROVE  CatalogInv'
<1>. USE CreatorConstants, LinkedAssumption, Kinds
     DEF Inv, Shapes, TypeOK, IInv, CatalogInv, TreeContent, Running,
         StartSteps, BuildSteps, StickSteps, Goto, sessionVars, packVars,
         jobVars, workVars, stickVars
<1>1. CASE Claim(j)
  BY <1>1 DEF Claim
<1>2. CASE CopyPacks(j)
  BY <1>2 DEF CopyPacks
<1>3. CASE BuildShop(j)
  BY <1>3 DEF BuildShop
<1>4. CASE StartFails(j)
  BY <1>4 DEF StartFails, Forget
<1>5. CASE Launch(j)
  BY <1>5 DEF Launch
<1>6. CASE FetchOfficial(j)
  BY <1>6 DEF FetchOfficial
<1>7. CASE StatIso(j)
  BY <1>7 DEF StatIso
<1>8. CASE TakeIsoPath(j)
  BY <1>8 DEF TakeIsoPath
<1>9. CASE StartTree(j)
  BY <1>9 DEF StartTree, NoImage
<1>10. CASE LinkIso(j)
  BY <1>10 DEF LinkIso, FileAt
<1>11. CASE HashIso(j)
  BY <1>11 DEF HashIso
<1>12. CASE FormatData(j)
  BY <1>12 DEF FormatData
<1>13. CASE Assemble(j)
  BY <1>13 DEF Assemble
<1>14. CASE RenameImage(j)
  BY <1>14 DEF RenameImage, NoImage
<1>15. CASE AskPermission(j)
  BY <1>15 DEF AskPermission
<1>16. CASE WaitForWriter(j)
  BY <1>16 DEF WaitForWriter
<1>17. CASE JobFails(j)
  BY <1>17 DEF JobFails, NoImage
<1>18. CASE EndJob(j)
  BY <1>18 DEF EndJob, Forget
<1>. QED  BY <1>1, <1>2, <1>3, <1>4, <1>5, <1>6, <1>7, <1>8, <1>9, <1>10, <1>11, <1>12, <1>13, <1>14, <1>15, <1>16, <1>17, <1>18 DEF StartHandler, JobStep

\* Where image cache and work directory share no file system, the ISO in the
\* image has the checksum that the image's catalog has, although packs, paths
\* and checksums are read without the lock (compose.Write's second hash).
THEOREM ImageMatchesCatalogHolds ==
    ASSUME ~HardLinks PROVE Spec => []ImageMatchesCatalog
<1>1. Init => CatalogInv
  BY LinkedAssumption, CreatorConstants, Kinds DEF Init, CatalogInv, NoImage
<1>2. Inv /\ CatalogInv /\ [Next]_vars => CatalogInv'
  <2>. SUFFICES ASSUME Inv, CatalogInv, [Next]_vars PROVE CatalogInv'
    OBVIOUS
  <2>1. CASE \E j \in Jobs : Claim(j) \/ StartHandler(j) \/ JobStep(j)
    BY <2>1, JobsKeepCatalog
  <2>2. CASE Requests \/ CancelRead \/ CancelCall \/ KillAsking \/ Helper
              \/ UNCHANGED vars
    <3>1. UNCHANGED <<pc, wanted, workVars>>
      BY <2>2 DEF Requests, LoadStart, LoadIsoStart, LoadIsoEnd, LoadEnd,
                  LoadFails, AttachStart, AttachEnd, RemovePack, CancelRead,
                  CancelCall, KillAsking, Helper, GrantPermission,
                  WriterRefuses, WriterEnds, KillWriting, vars, jobVars
    <3>. QED  BY <3>1 DEF CatalogInv, workVars
  <2>. QED  BY <2>1, <2>2 DEF Next
<1>3. CatalogInv => ImageMatchesCatalog
  BY DEF CatalogInv, ImageMatchesCatalog
<1>. QED  BY <1>1, <1>2, <1>3, InvHolds, PTL DEF Spec

-----------------------------------------------------------------------------
(* The tasks.                                                              *)

OneActive(list) ==
    \A i, k \in 1 .. Len(list) : list[i] = "active" /\ list[k] = "active" => i = k

NoneActive(list) == \A i \in 1 .. Len(list) : list[i] # "active"

\* The tasks of a job that is still to be launched are not there yet, and the
\* page is shown how the last job ended only while no job runs.
TaskInv ==
    /\ \A j \in Jobs : pc[j] \in StartSteps => tasks = <<>>
    /\ busy = TRUE => shown = "none"
    /\ OneActive(tasks)
    /\ done = TRUE => NoneActive(tasks)
    /\ shown = "done" => \A i \in 1 .. Len(tasks) : tasks[i] = "done"
    /\ \A j \in Jobs : pc[j] \in BuildSteps \cup {"rename"}
         => Len(tasks) >= BuildTask /\ tasks[BuildTask] # "done"

\* applyTaskProgress leaves one task active at most, and reports progress of
\* an earlier task without ticking a later one.
LEMMA ProgressActive ==
    ASSUME NEW list \in Seq(Status), NEW n \in Nat
    PROVE  /\ OneActive(ApplyProgress(list, n))
           /\ \A b \in 1 .. Len(list) : n <= b /\ list[b] # "done"
                => ApplyProgress(list, n)[b] # "done"
<1>1. Len(list) \in Nat /\ Len(ApplyProgress(list, n)) = Len(list)
  BY LenProperties, TaskLists
<1>2. \A i \in 1 .. Len(list) :
        /\ ApplyProgress(list, n)[i] = "active" => i = n
        /\ n <= i /\ list[i] # "done" => ApplyProgress(list, n)[i] # "done"
  BY <1>1 DEF ApplyProgress
<1>. QED  BY <1>1, <1>2 DEF OneActive

\* markActiveError leaves no active task where one was active at most.
LEMMA ErrorActive ==
    ASSUME NEW list \in Seq(Status), OneActive(list)
    PROVE  NoneActive(MarkActiveError(list))
<1>1. Len(list) \in Nat
  BY LenProperties
<1>2. MarkActiveError(list) \in [1 .. Len(list) -> Status]
  BY <1>1, ElementOfSeq DEF MarkActiveError, Status
<1>3. Len(MarkActiveError(list)) = Len(list)
  BY <1>1, <1>2, SeqDef, LenProperties
<1>4. \A i \in 1 .. Len(list) : MarkActiveError(list)[i] # "active"
  BY <1>1 DEF MarkActiveError, OneActive
<1>. QED  BY <1>3, <1>4 DEF NoneActive

\* The end of compose.Write leaves one task active at most.
LEMMA ComposedActive ==
    ASSUME NEW list \in Seq(Status)
    PROVE  OneActive(ComposeDone(list))
<1>1. Len(list) \in Nat /\ Len(ComposeDone(list)) = Len(list)
  BY LenProperties, TaskLists
<1>2. \A i \in 1 .. Len(list) : ComposeDone(list)[i] = "active" => i = WriteTask
  BY <1>1 DEF ComposeDone
<1>. QED  BY <1>1, <1>2 DEF OneActive

\* What a step changes of what TaskInv speaks of, when it leaves the session
\* alone.
LEMMA TasksAside ==
    ASSUME Inv, TaskInv, UNCHANGED sessionVars,
           \A j \in Jobs :
             /\ pc'[j] \in StartSteps
                  => pc[j] \in StartSteps
             /\ pc'[j] \in BuildSteps \cup {"rename"}
                  => pc[j] \in BuildSteps \cup {"rename"}
    PROVE  TaskInv'
  BY DEF TaskInv, sessionVars

\* Steps of a job and of the handler that starts it.
LEMMA JobsKeepTasks ==
    ASSUME Inv, TaskInv, NEW j \in Jobs,
           Claim(j) \/ StartHandler(j) \/ JobStep(j)
    PROVE  TaskInv'
<1>1. /\ tasks \in Seq(Status) /\ Len(tasks) \in Nat
      /\ at[j] \in Nat
      /\ Official \in Nat /\ BuildTask = Official + 2 /\ WriteTask = Official + 3
      /\ pc \in [Jobs -> Running \cup {"new", "over"}]
  BY CreatorConstants, LenProperties
     DEF Inv, Shapes, TypeOK, CreatorConstants, BuildTask, WriteTask
<1>2. \A i \in Jobs : pc[i] \in Running /\ pc[j] \in Running => i = j
  BY DEF Inv, IInv
<1>. USE DEF Running, StartSteps, BuildSteps, StickSteps
<1>3. CASE Claim(j)
  <2>1. /\ tasks' = <<>> /\ Len(tasks') = 0 /\ shown' = "none"
        /\ done' = FALSE
        /\ \A i \in Jobs : pc'[i] \in BuildSteps \cup {"rename"} => FALSE
    BY <1>1, <1>3, EmptySeq DEF Claim, Goto, Inv, IInv
  <2>. QED  BY <2>1 DEF TaskInv, OneActive, NoneActive
<1>4. CASE CopyPacks(j) \/ BuildShop(j) \/ TakeIsoPath(j) \/ StartTree(j)
            \/ LinkIso(j) \/ HashIso(j) \/ Assemble(j) \/ WaitForWriter(j)
            \/ JobFails(j)
  <2>1. UNCHANGED sessionVars
    BY <1>4 DEF CopyPacks, BuildShop, TakeIsoPath, StartTree, LinkIso,
                HashIso, Assemble, WaitForWriter, JobFails
  <2>2. \A i \in Jobs :
          /\ pc'[i] \in StartSteps => pc[i] \in StartSteps
          /\ pc'[i] \in BuildSteps \cup {"rename"}
               => pc[i] \in BuildSteps \cup {"rename"}
    BY <1>1, <1>4 DEF CopyPacks, BuildShop, TakeIsoPath, StartTree, LinkIso,
                      HashIso, Assemble, WaitForWriter, JobFails, Goto
  <2>. QED  BY <2>1, <2>2, TasksAside
<1>5. CASE StartFails(j)
  <2>1. /\ tasks' = MarkActiveError(tasks) /\ shown' = "stopped"
        /\ busy' = FALSE /\ \A i \in Jobs : pc'[i] \notin Running
    BY <1>1, <1>2, <1>5 DEF StartFails, Forget, Goto
  <2>2. NoneActive(tasks')
    BY <1>1, <2>1, ErrorActive DEF TaskInv
  <2>. QED  BY <2>1, <2>2 DEF TaskInv, OneActive, NoneActive
<1>6. CASE Launch(j)
  <2>1. /\ tasks' = PlanTasks(device[j]) /\ pc'[j] = "fetch"
        /\ UNCHANGED <<busy, done, shown>> /\ busy = TRUE /\ done = FALSE
        /\ \A i \in Jobs : pc'[i] \in Running => i = j
    BY <1>1, <1>2, <1>6 DEF Launch, Goto, Inv, IInv
  <2>2. device[j] \in BOOLEAN
    BY DEF Inv, Shapes, TypeOK
  <2>3. Len(tasks') >= BuildTask /\ Len(tasks') \in Nat
    BY <1>1, <2>1, <2>2, CreatorConstants, PlannedTasks
  <2>4. \A i \in 1 .. Len(tasks') : tasks'[i] = "pending"
    BY <1>1, <2>1, <2>2, CreatorConstants, PlannedTasks DEF PlanTasks
  <2>. QED  BY <1>1, <2>1, <2>3, <2>4 DEF TaskInv, OneActive, NoneActive
<1>7. CASE FetchOfficial(j) \/ StatIso(j) \/ FormatData(j)
  <2>1. PICK n \in Nat : n <= BuildTask /\ tasks' = ApplyProgress(tasks, n)
    BY <1>1, <1>7 DEF FetchOfficial, StatIso, FormatData
  <2>2. /\ UNCHANGED <<busy, done, shown>> /\ busy = TRUE /\ done = FALSE
        /\ pc[j] \in BuildSteps /\ pc'[j] \in BuildSteps
        /\ \A i \in Jobs : pc'[i] \in Running => i = j
    BY <1>1, <1>2, <1>7 DEF FetchOfficial, StatIso, FormatData, Goto, Inv, IInv
  <2>3. Len(tasks') = Len(tasks) /\ OneActive(tasks')
    BY <1>1, <2>1, TaskLists, ProgressActive
  <2>4. tasks'[BuildTask] # "done"
    BY <1>1, <2>1, <2>2, ProgressActive DEF TaskInv
  <2>. QED  BY <2>2, <2>3, <2>4 DEF TaskInv
<1>8. CASE RenameImage(j) \/ AskPermission(j)
  <2>1. OneActive(tasks')
    BY <1>1, <1>8, ComposedActive, ProgressActive DEF RenameImage, AskPermission
  <2>2. /\ UNCHANGED <<busy, done, shown>> /\ busy = TRUE /\ done = FALSE
        /\ pc'[j] \notin BuildSteps \cup {"rename"} \cup StartSteps
        /\ \A i \in Jobs : pc'[i] \in Running => i = j
    BY <1>1, <1>2, <1>8 DEF RenameImage, AskPermission, Goto, Inv, IInv
  <2>. QED  BY <2>1, <2>2 DEF TaskInv
<1>9. CASE EndJob(j)
  <2>1. /\ busy' = FALSE /\ shown' = result[j]
        /\ \A i \in Jobs : pc'[i] \notin Running
    BY <1>1, <1>2, <1>9 DEF EndJob, Forget, Goto
  <2>2. CASE result[j] = "done"
    <3>1. tasks' = [i \in 1 .. Len(tasks) |-> "done"]
      BY <1>9, <2>2 DEF EndJob
    <3>2. Len(tasks') = Len(tasks) /\ \A i \in 1 .. Len(tasks) : tasks'[i] = "done"
      <4>1. tasks' \in [1 .. Len(tasks) -> Status]
        BY <3>1 DEF Status
      <4>. QED  BY <1>1, <3>1, <4>1, SeqDef, LenProperties
    <3>. QED  BY <2>1, <3>2 DEF TaskInv, OneActive, NoneActive
  <2>3. CASE result[j] # "done"
    <3>1. NoneActive(tasks')
      BY <1>1, <1>9, <2>3, ErrorActive DEF EndJob, TaskInv
    <3>. QED  BY <2>1, <2>3, <3>1 DEF TaskInv, OneActive, NoneActive
  <2>. QED  BY <2>2, <2>3
<1>. QED  BY <1>3, <1>4, <1>5, <1>6, <1>7, <1>8, <1>9 DEF StartHandler, JobStep

\* The page's list of tasks agrees with the job: one task is active at most,
\* none when the job is over, all are ticked only after a job that was done,
\* and the image is not ticked while it is built (applyTaskProgress,
\* markActiveError, run).
THEOREM TasksTellTheTruthHolds == Spec => []TasksTellTheTruth
<1>1. Init => TaskInv
  BY EmptySeq DEF Init, TaskInv, OneActive, NoneActive, BuildSteps
<1>2. Inv /\ TaskInv /\ [Next]_vars => TaskInv'
  <2>. SUFFICES ASSUME Inv, TaskInv, [Next]_vars PROVE TaskInv'
    OBVIOUS
  <2>1. CASE \E j \in Jobs : Claim(j) \/ StartHandler(j) \/ JobStep(j)
    BY <2>1, JobsKeepTasks
  <2>2. CASE Requests \/ CancelRead \/ CancelCall \/ KillAsking \/ Helper
              \/ UNCHANGED vars
    <3>1. UNCHANGED <<pc, sessionVars>>
      BY <2>2 DEF Requests, LoadStart, LoadIsoStart, LoadIsoEnd, LoadEnd,
                  LoadFails, AttachStart, AttachEnd, RemovePack, CancelRead,
                  CancelCall, KillAsking, Helper, GrantPermission,
                  WriterRefuses, WriterEnds, KillWriting, vars, jobVars
    <3>. QED  BY <3>1, TasksAside
  <2>. QED  BY <2>1, <2>2 DEF Next
<1>3. Inv /\ TaskInv => TasksTellTheTruth
  BY DEF Inv, Shapes, TypeOK, TaskInv, TasksTellTheTruth, OneActive, NoneActive
<1>. QED  BY <1>1, <1>2, <1>3, InvHolds, PTL DEF Spec
=============================================================================
