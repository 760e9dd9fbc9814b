---------------------------- MODULE EditionProofs ----------------------------
(***************************************************************************)
(* For any number of files, versions and blocks: a download, resumed as    *)
(* often as it may be and cut whenever the power goes, stores only the     *)
(* pinned files, and the cached on_disk flag promises nothing that is not  *)
(* there.                                                                  *)
(***************************************************************************)
EXTENDS EditionFetch, FiniteSetTheorems, SequenceTheorems, TLAPS

Stored == Seq(Versions) \cup {NoFile}

\* A response is read into a part that exists, and what a power failure may
\* cut is a part or a file that was renamed.
PartInv ==
    /\ pc \in {"body", "end"} => part[cur] # NoFile
    /\ \A f \in unsynced : part[f] # NoFile \/ dest[f] # NoFile

Inv == TypeOK /\ PartInv /\ ListedIsPresent

-----------------------------------------------------------------------------
(* The files.                                                              *)

LEMMA ContentIsAFile ==
    ASSUME NEW v \in Versions
    PROVE  /\ Content(v) \in Seq(Versions)
           /\ Content(v) # NoFile
<1>1. Length[v] \in Nat
  BY FetchConstants
<1>2. Content(v) \in [1 .. Length[v] -> Versions]
  BY DEF Content
<1>3. Content(v) \in Seq(Versions)
  BY <1>1, <1>2, IsASeq DEF Content
<1>. QED  BY <1>3, FetchConstants

LEMMA PinnedIsAFile ==
    Content(Pinned) \in Seq(Versions) /\ Content(Pinned) # NoFile
  BY ContentIsAFile, FetchConstants

\* The rest of a response is a sequence of blocks.
LEMMA RestIsBlocks ==
    ASSUME NEW v \in Versions, NEW k \in Nat
    PROVE  SubSeq(Content(v), k + 1, Length[v]) \in Seq(Versions)
<1>1. Length[v] \in Nat
  BY FetchConstants
<1>2. \A i \in k + 1 .. Length[v] : Content(v)[i] \in Versions
  BY <1>1 DEF Content
<1>. QED  BY <1>1, <1>2, SubSeqProperties

\* What is cut off a file leaves a file that is not longer.
LEMMA PrefixIsShorter ==
    ASSUME NEW file \in Seq(Versions), NEW p \in Prefixes(file)
    PROVE  /\ p \in Seq(Versions) /\ p # NoFile
           /\ Blocks(p) <= Blocks(file)
<1>1. PICK k \in 0 .. Len(file) : p = SubSeq(file, 1, k)
  BY DEF Prefixes
<1>2. Len(file) \in Nat /\ file # NoFile
  BY FetchConstants
<1>3. \A i \in 1 .. k : file[i] \in Versions
  BY <1>2, ElementOfSeq
<1>4. p \in Seq(Versions) /\ Len(p) = IF 1 <= k THEN k - 1 + 1 ELSE 0
  BY <1>1, <1>2, <1>3, SubSeqProperties
<1>5. p # NoFile
  BY <1>4, FetchConstants
<1>. QED  BY <1>1, <1>2, <1>4, <1>5 DEF Blocks

\* A power failure leaves a file as it is, cut or gone, and no part that was
\* not there as one or the other.
LEMMA SurvivorIsShorter ==
    ASSUME Inv, NEW f \in Files, NEW left \in Survives(f)
    PROVE  /\ left = <<left[1], left[2]>>
           /\ left[1] \in Stored /\ left[2] \in Stored
           /\ Blocks(left[2]) <= Blocks(dest[f])
<1>1. part[f] \in Stored /\ dest[f] \in Stored
  BY DEF Inv, TypeOK, Stored
<1>2. Blocks(dest[f]) \in Nat /\ Blocks(NoFile) = 0
  BY <1>1 DEF Stored, Blocks
<1>3. CASE f \notin unsynced
  BY <1>1, <1>2, <1>3 DEF Survives
<1>4. CASE f \in unsynced /\ part[f] # NoFile
  <2>1. left \in Prefixes(part[f]) \X {dest[f]} /\ part[f] \in Seq(Versions)
    BY <1>1, <1>4 DEF Survives, Stored
  <2>2. /\ left = <<left[1], left[2]>> /\ left[1] \in Prefixes(part[f])
        /\ left[2] = dest[f]
    BY <2>1
  <2>. QED  BY <1>1, <1>2, <2>1, <2>2, PrefixIsShorter DEF Stored
<1>5. CASE f \in unsynced /\ part[f] = NoFile
  <2>1. /\ dest[f] \in Seq(Versions)
        /\ left \in ({NoFile} \X Prefixes(dest[f]))
                        \cup (Prefixes(dest[f]) \X {NoFile})
    BY <1>1, <1>5 DEF Survives, Stored, Inv, PartInv
  <2>2. /\ left = <<left[1], left[2]>>
        /\ \/ left[1] = NoFile /\ left[2] \in Prefixes(dest[f])
           \/ left[1] \in Prefixes(dest[f]) /\ left[2] = NoFile
    BY <2>1
  <2>. QED  BY <1>2, <2>1, <2>2, PrefixIsShorter DEF Stored
<1>. QED  BY <1>3, <1>4, <1>5
-----------------------------------------------------------------------------
(* Every action keeps the invariant.                                       *)

\* The end of a file: the next one, or the payload is read again.
LEMMA FileDoneKeeps ==
    ASSUME NEW d, d \in [Files -> Stored], cur \in Files,
           screen \in {"shop", "downloading", "confirm"}, listed \in BOOLEAN,
           FileDone(d), ListedIsPresent,
           \A f \in Files : dest[f] # NoFile => d[f] # NoFile
    PROVE  /\ pc' \in {"idle", "probe"} /\ cur' \in Files
           /\ screen' \in {"shop", "downloading", "confirm"}
           /\ listed' \in BOOLEAN
           /\ listed' => \A f \in Files : d[f] # NoFile
<1>1. CASE cur < FileCount
  <2>1. pc' = "probe" /\ cur' = cur + 1 /\ UNCHANGED <<screen, listed>>
    BY <1>1 DEF FileDone
  <2>2. cur' \in Files
    BY <1>1, <2>1, FetchConstants DEF Files
  <2>. QED  BY <2>1, <2>2 DEF ListedIsPresent
<1>2. CASE ~(cur < FileCount)
  <2>1. /\ pc' = "idle" /\ cur' = 1
        /\ listed' = EditionIsPresent(d)
        /\ screen' = IF listed' THEN "confirm" ELSE "shop"
    BY <1>2 DEF FileDone
  <2>2. listed' \in BOOLEAN
    BY <2>1 DEF EditionIsPresent
  <2>3. 1 \in Files
    BY FetchConstants DEF Files
  <2>4. listed' => \A f \in Files : d[f] # NoFile
    BY <2>1 DEF EditionIsPresent
  <2>. QED  BY <2>1, <2>2, <2>3, <2>4
<1>. QED  BY <1>1, <1>2

LEMMA InitInv == Init => Inv
<1>. SUFFICES ASSUME Init PROVE Inv
  OBVIOUS
<1>1. /\ part \in [Files -> Stored] /\ dest \in [Files -> Stored]
      /\ unsynced = {} /\ cur \in Files /\ body \in Seq(Versions)
  BY FetchConstants DEF Init, Stored, Files
<1>2. steady \in BOOLEAN /\ listed \in BOOLEAN
  BY DEF Init
<1>3. TypeOK
  BY <1>1, <1>2 DEF Init, TypeOK, Stored
<1>4. PartInv /\ ListedIsPresent
  BY <1>1 DEF Init, PartInv, ListedIsPresent
<1>. QED  BY <1>3, <1>4 DEF Inv

\* The types, as the facts the steps need.
LEMMA Typed ==
    ASSUME Inv
    PROVE  /\ part \in [Files -> Stored] /\ dest \in [Files -> Stored]
           /\ unsynced \subseteq Files /\ room \in Rooms
           /\ served \in Versions /\ cur \in Files /\ body \in Seq(Versions)
           /\ pc \in {"idle", "probe", "open", "body", "end"}
           /\ screen \in {"shop", "downloading", "confirm"}
  BY DEF Inv, TypeOK, Stored

\* What a step of the files may do.
LEMMA FilesKeepInv ==
    ASSUME Inv,
           part' \in [Files -> Stored], dest' \in [Files -> Stored],
           unsynced' \subseteq Files, UNCHANGED room, served' \in Versions,
           steady' \in {steady, TRUE},
           pc' \in {"idle", "probe", "open", "body", "end"},
           cur' \in Files, body' \in Seq(Versions),
           screen' \in {"shop", "downloading", "confirm"},
           listed' \in BOOLEAN, PartInv', ListedIsPresent'
    PROVE  Inv'
<1>1. steady' \in BOOLEAN
  BY DEF Inv, TypeOK
<1>. QED  BY <1>1 DEF Inv, TypeOK, Stored

\* The customer's buttons, the world, and the steps that touch no file.
LEMMA OthersKeepInv ==
    ASSUME Inv, Customer \/ WriteBack \/ ServerChanges \/ Settle
                \/ OpenFails \/ ReadFails \/ EndOfBody \/ UNCHANGED vars
    PROVE  Inv' /\ UNCHANGED dest
<1>1. 1 \in Files /\ <<>> \in Seq(Versions)
  BY FetchConstants DEF Files
<1>2. /\ UNCHANGED <<part, dest, room, listed>>
      /\ unsynced' \in {unsynced, {}} /\ served' \in Versions
      /\ steady' \in {steady, TRUE}
  BY Typed, FetchConstants
     DEF Customer, StartDownload, PressInstall, Dismiss, WriteBack,
         ServerChanges, Settle, OpenFails, ReadFails, EndOfBody, Fail, vars,
         fileVars, worldVars, fetchVars
<1>3. /\ pc' \in {"idle", "probe", "open", "body", "end"}
      /\ pc' \in {"body", "end"} => pc \in {"body", "end"} /\ cur' = cur
      /\ cur' \in Files /\ body' \in Seq(Versions)
      /\ screen' \in {"shop", "downloading", "confirm"}
  BY <1>1, Typed
     DEF Customer, StartDownload, PressInstall, Dismiss, WriteBack,
         ServerChanges, Settle, OpenFails, ReadFails, EndOfBody, Fail, vars,
         fileVars, worldVars, fetchVars
<1>4. PartInv'
  BY <1>2, <1>3 DEF Inv, PartInv
<1>5. ListedIsPresent'
  BY <1>2 DEF Inv, ListedIsPresent
<1>6. listed' \in BOOLEAN
  BY <1>2 DEF Inv, TypeOK
<1>7. unsynced' \subseteq Files
  BY <1>2, Typed
<1>. QED  BY <1>2, <1>3, <1>4, <1>5, <1>6, <1>7, Typed, FilesKeepInv

\* The steps that only write the part.
LEMMA PartStepKeepsInv ==
    ASSUME Inv, OpenWhole \/ OpenRange \/ OpenRefused \/ ReadBlock \/ Reject
    PROVE  Inv' /\ UNCHANGED dest
<1>1. /\ UNCHANGED <<dest, room, served, steady, cur, listed>>
      /\ screen' \in {"shop", "downloading", "confirm"}
      /\ pc' \in {"idle", "probe", "open", "body", "end"}
  BY Typed DEF OpenWhole, OpenRange, OpenRefused, ReadBlock, Reject, RemovePart,
               Fail, worldVars, fetchVars
<1>2. listed' \in BOOLEAN /\ ListedIsPresent'
  BY <1>1 DEF Inv, TypeOK, ListedIsPresent
<1>3. <<>> \in Seq(Versions) /\ <<>> # NoFile /\ NoFile \in Stored
  <2>1. <<>> \in Seq(Versions)
    BY EmptySeq
  <2>2. <<>> # NoFile
    BY <2>1, FetchConstants
  <2>. QED  BY <2>1, <2>2 DEF Stored
<1>4. CASE OpenWhole
  <2>1. /\ part' = [part EXCEPT ![cur] = <<>>]
        /\ unsynced' = unsynced \cup {cur} /\ pc' = "body"
        /\ body' = Content(served)
    BY <1>4 DEF OpenWhole
  <2>2. part' \in [Files -> Stored] /\ body' \in Seq(Versions)
    BY <1>3, <2>1, Typed, ContentIsAFile DEF Stored
  <2>3. PartInv'
    BY <1>1, <1>3, <2>1, Typed DEF Inv, PartInv
  <2>4. unsynced' \subseteq Files
    BY <2>1, Typed
  <2>. QED  BY <1>1, <1>2, <2>2, <2>3, <2>4, Typed, FilesKeepInv
<1>5. CASE OpenRange
  <2>1. /\ UNCHANGED part /\ Blocks(part[cur]) \in 1 .. Length[served] - 1
        /\ unsynced' = unsynced \cup {cur} /\ pc' = "body"
        /\ body' = SubSeq(Content(served), Blocks(part[cur]) + 1,
                          Length[served])
    BY <1>5 DEF OpenRange
  <2>2. body' \in Seq(Versions)
    <3>1. served \in Versions /\ Blocks(part[cur]) \in Nat
      BY Typed DEF Blocks, Stored
    <3>2. SubSeq(Content(served), Blocks(part[cur]) + 1, Length[served])
             \in Seq(Versions)
      BY <3>1, RestIsBlocks
    <3>. QED  BY <2>1, <3>2
  <2>3. part[cur] # NoFile
    BY <2>1 DEF Blocks
  <2>4. PartInv'
    BY <1>1, <2>1, <2>3, Typed DEF Inv, PartInv
  <2>5. unsynced' \subseteq Files
    BY <2>1, Typed
  <2>. QED  BY <1>1, <1>2, <2>1, <2>2, <2>4, <2>5, Typed, FilesKeepInv
<1>6. CASE OpenRefused \/ Reject
  <2>1. /\ part' = [part EXCEPT ![cur] = NoFile]
        /\ unsynced' = unsynced \ {cur} /\ body' \in {body, <<>>}
        /\ pc' \in {"open", "idle"}
    BY <1>6 DEF OpenRefused, Reject, RemovePart, Fail, fetchVars
  <2>2. part' \in [Files -> Stored] /\ body' \in Seq(Versions)
    BY <1>3, <2>1, Typed
  <2>3. PartInv'
    BY <1>1, <2>1, Typed DEF Inv, PartInv
  <2>4. unsynced' \subseteq Files
    BY <2>1, Typed
  <2>. QED  BY <1>1, <1>2, <2>2, <2>3, <2>4, Typed, FilesKeepInv
<1>7. CASE ReadBlock
  <2>1. /\ part' = [part EXCEPT ![cur] = Append(part[cur], Head(body))]
        /\ unsynced' = unsynced \cup {cur} /\ pc = "body" /\ body # <<>>
        /\ body' = Tail(body) /\ UNCHANGED pc
    BY <1>7 DEF ReadBlock
  <2>2. part[cur] \in Seq(Versions)
    BY <2>1, Typed DEF Inv, PartInv, Stored
  <2>3. Head(body) \in Versions /\ body' \in Seq(Versions)
    BY <2>1, Typed, HeadTailProperties
  <2>4. Append(part[cur], Head(body)) \in Seq(Versions)
    BY <2>2, <2>3
  <2>5. part' \in [Files -> Stored] /\ part'[cur] # NoFile
    BY <2>1, <2>4, Typed, FetchConstants DEF Stored
  <2>6. PartInv'
    BY <1>1, <2>1, <2>5, Typed DEF Inv, PartInv
  <2>7. unsynced' \subseteq Files
    BY <2>1, Typed
  <2>. QED  BY <1>1, <1>2, <2>3, <2>5, <2>6, <2>7, Typed, FilesKeepInv
<1>. QED  BY <1>1, <1>4, <1>5, <1>6, <1>7

LEMMA ProbeKeepsInv ==
    ASSUME Inv, Probe
    PROVE  Inv' /\ UNCHANGED dest
<1>1. UNCHANGED <<dest, room, served, steady, body>>
  BY DEF Probe, worldVars
<1>2. /\ cur' \in Files /\ pc' \in {"idle", "probe", "open"}
      /\ screen' \in {"shop", "downloading", "confirm"}
      /\ listed' \in BOOLEAN /\ ListedIsPresent'
  <2>1. CASE AlreadyGood(dest[cur])
    <3>1. FileDone(dest)
      BY <2>1 DEF Probe
    <3>2. listed \in BOOLEAN /\ ListedIsPresent
      BY DEF Inv, TypeOK
    <3>. QED  BY <1>1, <3>1, <3>2, Typed, FileDoneKeeps DEF ListedIsPresent
  <2>2. CASE ~AlreadyGood(dest[cur])
    <3>1. /\ pc' \in {"idle", "open"} /\ UNCHANGED <<cur, listed>>
          /\ screen' \in {"shop", screen}
      BY <2>2 DEF Probe
    <3>2. listed' \in BOOLEAN /\ ListedIsPresent'
      BY <1>1, <3>1 DEF Inv, TypeOK, ListedIsPresent
    <3>. QED  BY <3>1, <3>2, Typed
  <2>. QED  BY <2>1, <2>2
<1>3. \/ UNCHANGED <<part, unsynced>>
      \/ part' = [part EXCEPT ![cur] = NoFile] /\ unsynced' = unsynced \ {cur}
  BY DEF Probe, RemovePart
<1>4. part' \in [Files -> Stored] /\ unsynced' \subseteq Files
  BY <1>3, Typed DEF Stored
<1>5. PartInv'
  BY <1>1, <1>2, <1>3, Typed DEF Inv, PartInv
<1>. QED  BY <1>1, <1>2, <1>4, <1>5, Typed, FilesKeepInv

LEMMA AcceptKeepsInv ==
    ASSUME Inv, Accept
    PROVE  /\ Inv'
           /\ \A f \in Files : \/ dest'[f] = dest[f]
                               \/ dest'[f] = Content(Pinned)
<1>1. /\ part[cur] = Content(Pinned)
      /\ dest' = [dest EXCEPT ![cur] = Content(Pinned)]
      /\ part' = [part EXCEPT ![cur] = NoFile]
      /\ UNCHANGED <<unsynced, room, served, steady, body>>
      /\ FileDone(dest')
  BY DEF Accept, worldVars
<1>2. dest' \in [Files -> Stored] /\ part' \in [Files -> Stored]
  BY <1>1, Typed, PinnedIsAFile DEF Stored
<1>3. /\ \A f \in Files : \/ dest'[f] = dest[f]
                          \/ dest'[f] = Content(Pinned)
      /\ \A f \in Files : dest[f] # NoFile => dest'[f] # NoFile
  BY <1>1, Typed, PinnedIsAFile
<1>4. /\ pc' \in {"idle", "probe"} /\ cur' \in Files
      /\ screen' \in {"shop", "downloading", "confirm"}
      /\ listed' \in BOOLEAN /\ ListedIsPresent'
  <2>1. listed \in BOOLEAN /\ ListedIsPresent
    BY DEF Inv, TypeOK
  <2>. DEFINE d == dest'
  <2>2. d \in [Files -> Stored] /\ FileDone(d)
        /\ \A f \in Files : dest[f] # NoFile => d[f] # NoFile
    BY <1>1, <1>2, <1>3
  <2>3. /\ pc' \in {"idle", "probe"} /\ cur' \in Files
        /\ screen' \in {"shop", "downloading", "confirm"}
        /\ listed' \in BOOLEAN
        /\ listed' => \A f \in Files : d[f] # NoFile
    <3>. HIDE DEF d
    <3>. QED  BY <2>1, <2>2, Typed, FileDoneKeeps
  <2>. QED  BY <2>3 DEF ListedIsPresent
<1>5. PartInv'
  <2>1. dest'[cur] # NoFile
    BY <1>1, Typed, PinnedIsAFile
  <2>2. \A f \in unsynced' : part'[f] # NoFile \/ dest'[f] # NoFile
    BY <1>1, <2>1, Typed DEF Inv, PartInv
  <2>. QED  BY <1>4, <2>2 DEF PartInv
<1>. QED  BY <1>1, <1>2, <1>3, <1>4, <1>5, Typed, FilesKeepInv

LEMMA PowerLossKeepsInv ==
    ASSUME Inv, PowerLoss
    PROVE  Inv' /\ \A f \in Files : Blocks(dest'[f]) <= Blocks(dest[f])
<1>1. PICK left \in [Files -> UNION {Survives(f) : f \in Files}] :
         /\ \A f \in Files : left[f] \in Survives(f)
         /\ part' = [f \in Files |-> left[f][1]]
         /\ dest' = [f \in Files |-> left[f][2]]
  BY DEF PowerLoss
<1>2. \A f \in Files : /\ left[f][1] \in Stored /\ left[f][2] \in Stored
                       /\ Blocks(left[f][2]) <= Blocks(dest[f])
  BY <1>1, SurvivorIsShorter
<1>3. part' \in [Files -> Stored] /\ dest' \in [Files -> Stored]
  BY <1>1, <1>2
<1>4. /\ unsynced' = {} /\ pc' = "idle" /\ cur' = 1 /\ body' = <<>>
      /\ screen' = "shop" /\ listed' = EditionIsPresent(dest')
      /\ UNCHANGED <<room, served, steady>>
  BY DEF PowerLoss, worldVars
<1>5. listed' \in BOOLEAN
  BY <1>4 DEF EditionIsPresent
<1>6. ListedIsPresent' /\ PartInv'
  BY <1>4 DEF ListedIsPresent, EditionIsPresent, PartInv
<1>7. 1 \in Files /\ <<>> \in Seq(Versions)
  BY FetchConstants DEF Files
<1>8. Inv'
  BY <1>3, <1>4, <1>5, <1>6, <1>7, Typed, FilesKeepInv
<1>. QED  BY <1>1, <1>2, <1>8

LEMMA InvHolds == Spec => []Inv
<1>1. Inv /\ [Next]_vars => Inv'
  BY OthersKeepInv, PartStepKeepsInv, ProbeKeepsInv, AcceptKeepsInv,
     PowerLossKeepsInv DEF Next, Download
<1>. QED  BY <1>1, InitInv, PTL DEF Spec
-----------------------------------------------------------------------------
(* The properties.                                                         *)

\* The cached on_disk flag never promises an edition of which a file is
\* missing, although it is read long after load_payload set it.
THEOREM ListedIsPresentHolds == Spec => []ListedIsPresent
<1>1. Inv => ListedIsPresent
  BY DEF Inv
<1>. QED  BY <1>1, InvHolds, PTL

\* A finished file appears, or a cut one is replaced, only by the whole
\* pinned image: of all the steps, the power failure among them, only the
\* rename that follows the checksum makes a file longer (download_iso).
THEOREM StoresOnlyThePinnedHolds == Spec => StoresOnlyThePinned
<1>1. Inv /\ [Next]_vars =>
         [\A f \in Files : Blocks(dest'[f]) > Blocks(dest[f])
                              => dest'[f] = Content(Pinned)]_vars
  <2>. SUFFICES ASSUME Inv, Next, NEW f \in Files,
                       Blocks(dest'[f]) > Blocks(dest[f])
                PROVE  dest'[f] = Content(Pinned)
    OBVIOUS
  <2>1. Blocks(dest[f]) \in Nat /\ Blocks(dest'[f]) \in Nat
    <3>1. Inv'
      BY OthersKeepInv, PartStepKeepsInv, ProbeKeepsInv, AcceptKeepsInv,
         PowerLossKeepsInv DEF Next, Download
    <3>2. dest[f] \in Stored /\ dest'[f] \in Stored
      BY <3>1 DEF Inv, TypeOK, Stored
    <3>. QED  BY <3>2 DEF Blocks, Stored
  <2>2. dest'[f] # dest[f] /\ ~(Blocks(dest'[f]) <= Blocks(dest[f]))
    BY <2>1
  <2>. QED  BY <2>2, OthersKeepInv, PartStepKeepsInv, ProbeKeepsInv,
               AcceptKeepsInv, PowerLossKeepsInv DEF Next, Download
<1>. QED  BY <1>1, InvHolds, PTL DEF Spec, StoresOnlyThePinned
-----------------------------------------------------------------------------
(* The disk does not fill.                                                 *)

\* What Probe found stays true while the request is made, whatever is thrown
\* away meanwhile; and what arrives is of one version.
RoomInv ==
    /\ Used <= room
    /\ pc = "open" => Used + Size <= room + Blocks(part[cur])
    /\ pc = "body" => \A i, j \in 1 .. Len(body) : body[i] = body[j]
    /\ RoomForThePinned

LEMMA FilesAreFinite == IsFiniteSet(Files)
<1>1. FileCount \in Int /\ 1 \in Int
  BY FetchConstants
<1>. QED  BY <1>1, FS_Interval DEF Files

LEMMA OccupiedTypes ==
    ASSUME Inv
    PROVE  /\ DOMAIN Occupied = Files /\ Used \in Nat
           /\ \A f \in Files : /\ Blocks(part[f]) \in Nat /\ Blocks(dest[f]) \in Nat
                               /\ Occupied[f] = Blocks(part[f]) + Blocks(dest[f])
                               /\ Occupied[f] \in Nat
<1>1. \A f \in Files : Blocks(part[f]) \in Nat /\ Blocks(dest[f]) \in Nat
  <2>. SUFFICES ASSUME NEW f \in Files
                PROVE  Blocks(part[f]) \in Nat /\ Blocks(dest[f]) \in Nat
    OBVIOUS
  <2>1. part[f] \in Stored /\ dest[f] \in Stored
    BY Typed
  <2>. QED  BY <2>1 DEF Blocks, Stored
<1>2. /\ DOMAIN Occupied = Files
      /\ \A f \in Files : Occupied[f] = Blocks(part[f]) + Blocks(dest[f])
  BY DEF Occupied
<1>3. \A f \in Files : Occupied[f] \in Nat
  BY <1>1, <1>2
<1>4. Used \in Nat
  BY <1>2, <1>3, FilesAreFinite, UnitsAreFinite DEF Used
<1>. QED  BY <1>1, <1>2, <1>3, <1>4

\* A step that writes only the file being fetched.
LEMMA UsedChanges ==
    ASSUME Inv, Inv',
           \A f \in Files \ {cur} : part'[f] = part[f] /\ dest'[f] = dest[f]
    PROVE  Used' = Used - Blocks(part[cur]) - Blocks(dest[cur])
                        + Blocks(part'[cur]) + Blocks(dest'[cur])
<1>1. cur \in Files
  BY Typed
<1>2. /\ DOMAIN Occupied = Files /\ DOMAIN Occupied' = Files
      /\ \A f \in Files : Occupied[f] \in Nat /\ Occupied'[f] \in Nat
      /\ \A f \in Files : f # cur => Occupied'[f] = Occupied[f]
  <2>1. Files' = Files
    BY DEF Files
  <2>2. DOMAIN Occupied' = Files
        /\ \A f \in Files : Occupied'[f] = Blocks(part'[f]) + Blocks(dest'[f])
    BY DEF Occupied, Files, Blocks
  <2>3. \A f \in Files : Blocks(part'[f]) \in Nat /\ Blocks(dest'[f]) \in Nat
    <3>. SUFFICES ASSUME NEW f \in Files
                  PROVE  Blocks(part'[f]) \in Nat /\ Blocks(dest'[f]) \in Nat
      OBVIOUS
    <3>1. part'[f] \in Stored /\ dest'[f] \in Stored
      BY <2>1 DEF Inv, TypeOK, Stored
    <3>. QED  BY <3>1 DEF Blocks, Stored
  <2>. QED  BY <2>2, <2>3, OccupiedTypes
<1>3. Total(Occupied') = Total(Occupied) - Occupied[cur] + Occupied'[cur]
  <2>. DEFINE m == Occupied'
  <2>1. Total(m) = Total(Occupied) - Occupied[cur] + m[cur]
    <3>1. /\ DOMAIN m = DOMAIN Occupied /\ cur \in DOMAIN Occupied
          /\ \A x \in DOMAIN Occupied : Occupied[x] \in Nat /\ m[x] \in Nat
          /\ \A x \in DOMAIN Occupied : x # cur => m[x] = Occupied[x]
          /\ IsFiniteSet(DOMAIN Occupied)
      BY <1>1, <1>2, FilesAreFinite
    <3>. HIDE DEF m
    <3>. QED  BY <3>1, TotalChanges
  <2>. QED  BY <2>1
<1>4. /\ Occupied[cur] = Blocks(part[cur]) + Blocks(dest[cur])
      /\ Occupied'[cur] = Blocks(part'[cur]) + Blocks(dest'[cur])
  BY <1>1 DEF Occupied, Files, Blocks
<1>5. /\ Blocks(part[cur]) \in Nat /\ Blocks(dest[cur]) \in Nat
      /\ Occupied'[cur] \in Nat /\ Total(Occupied) \in Nat
  BY <1>1, <1>2, OccupiedTypes DEF Used
<1>6. Blocks(part'[cur]) \in Nat /\ Blocks(dest'[cur]) \in Nat
  <2>1. part'[cur] \in Stored /\ dest'[cur] \in Stored
    BY <1>1 DEF Inv, TypeOK, Stored, Files
  <2>. QED  BY <2>1 DEF Blocks, Stored
<1>. QED  BY <1>3, <1>4, <1>5, <1>6 DEF Used
-----------------------------------------------------------------------------
LEMMA SizeIsNat ==
    /\ Size \in Nat \ {0} /\ \A v \in Versions : Length[v] \in Nat \ {0}
    /\ Slack \in Nat /\ Rooms \subseteq Nat
  BY FetchConstants DEF Size

\* One lemma for the steps that leave the disk, the room and the file alone.
LEMMA IdleKeepsRoom ==
    ASSUME Inv, Inv', RoomInv, UNCHANGED <<part, dest, room>>,
           pc' = "open" => pc = "open" /\ UNCHANGED cur,
           pc' = "body" => pc = "body" /\ UNCHANGED body
    PROVE  RoomInv'
<1>1. Used' = Used /\ Size' = Size
  BY DEF Used, Occupied, Files, Blocks, Total, Units, Size
<1>2. pc' = "open" => Used' + Size' <= room' + Blocks(part'[cur'])
  BY <1>1 DEF RoomInv
<1>3. pc' = "body" => /\ \A i, j \in 1 .. Len(body') : body'[i] = body'[j]
                      /\ RoomForThePinned'
  BY <1>1 DEF RoomInv, RoomForThePinned
<1>. QED  BY <1>1, <1>2, <1>3 DEF RoomInv, RoomForThePinned

LEMMA OthersKeepRoom ==
    ASSUME Inv, RoomInv,
           Customer \/ WriteBack \/ ServerChanges \/ Settle
              \/ OpenFails \/ ReadFails \/ EndOfBody \/ UNCHANGED vars
    PROVE  RoomInv'
<1>1. Inv'
  BY OthersKeepInv
<1>2. /\ UNCHANGED <<part, dest, room>>
      /\ pc' = "open" => pc = "open" /\ UNCHANGED cur
      /\ pc' = "body" => pc = "body" /\ UNCHANGED body
  BY DEF Customer, StartDownload, PressInstall, Dismiss, WriteBack,
         ServerChanges, Settle, OpenFails, ReadFails, EndOfBody, Fail, vars,
         fileVars, worldVars, fetchVars
<1>. QED  BY <1>1, <1>2, IdleKeepsRoom

\* Probe finds the room for what is still missing, whether the part stays or,
\* longer than the image can be, goes.
LEMMA ProbeKeepsRoom ==
    ASSUME Inv, RoomInv, Probe
    PROVE  RoomInv'
<1>1. Inv' /\ UNCHANGED <<dest, room, body>>
  BY ProbeKeepsInv DEF Probe, worldVars
<1>2. CASE AlreadyGood(dest[cur])
  <2>1. UNCHANGED part /\ pc' \in {"probe", "idle"}
    BY <1>2 DEF Probe, FileDone
  <2>. QED  BY <1>1, <2>1, IdleKeepsRoom
<1>3. CASE ~AlreadyGood(dest[cur])
  <2>. DEFINE B == Blocks(part[cur])
              have == IF B > Size THEN 0 ELSE B
  <2>1. /\ IF have < B THEN part' = [part EXCEPT ![cur] = NoFile] ELSE UNCHANGED part
        /\ pc' \in {"idle", "open"}
        /\ pc' = "open" => UNCHANGED cur /\ ~(Free + B - have < Size - have + Slack)
    BY <1>3 DEF Probe, RemovePart
  <2>2. /\ B \in Nat /\ Used \in Nat /\ room \in Nat /\ Size \in Nat \ {0}
        /\ Slack \in Nat /\ Used <= room /\ cur \in Files
        /\ Blocks(dest[cur]) \in Nat
    BY Typed, OccupiedTypes, SizeIsNat DEF RoomInv
  <2>3. Free = room - Used
    BY <2>2 DEF Free
  <2>4. CASE have < B
    <3>1. part'[cur] = NoFile /\ \A f \in Files \ {cur} : part'[f] = part[f]
      BY <2>1, <2>2, <2>4, Typed
    <3>2. Blocks(part'[cur]) = 0 /\ dest'[cur] = dest[cur]
      BY <1>1, <3>1 DEF Blocks
    <3>3. Used' = Used - B
      <4>1. Used' = Used - B - Blocks(dest[cur]) + Blocks(part'[cur]) + Blocks(dest'[cur])
        BY <1>1, <3>1, UsedChanges
      <4>. QED  BY <2>2, <3>2, <4>1
    <3>4. have = 0
      BY <2>2, <2>4
    <3>5. pc' = "open" => Used' + Size <= room' + Blocks(part'[cur'])
      <4>. SUFFICES ASSUME pc' = "open"
                    PROVE  Used' + Size <= room' + Blocks(part'[cur'])
        OBVIOUS
      <4>1. cur' = cur /\ room' = room /\ ~(Free + B - 0 < Size - 0 + Slack)
        BY <1>1, <2>1, <3>4
      <4>2. Used - B + Size <= room
        BY <2>2, <2>3, <4>1
      <4>3. Blocks(part'[cur']) = 0
        BY <3>2, <4>1
      <4>. QED  BY <2>2, <3>3, <4>1, <4>2, <4>3
    <3>6. Used' <= room'
      BY <1>1, <2>2, <3>3
    <3>. QED  BY <2>1, <3>5, <3>6 DEF RoomInv, RoomForThePinned, Size
  <2>5. CASE ~(have < B)
    <3>1. UNCHANGED part
      BY <2>1, <2>5
    <3>2. have = B
      BY <2>2, <2>5
    <3>3. Used' = Used
      BY <1>1, <3>1 DEF Used, Occupied, Files, Blocks, Total, Units
    <3>4. pc' = "open" => Used' + Size <= room' + Blocks(part'[cur'])
      <4>. SUFFICES ASSUME pc' = "open"
                    PROVE  Used' + Size <= room' + Blocks(part'[cur'])
        OBVIOUS
      <4>1. cur' = cur /\ room' = room /\ ~(Free + B - B < Size - B + Slack)
        BY <1>1, <2>1, <3>2
      <4>2. Used + Size <= room + B
        BY <2>2, <2>3, <4>1
      <4>3. Blocks(part'[cur']) = B
        BY <3>1, <4>1
      <4>. QED  BY <3>3, <4>1, <4>2, <4>3
    <3>5. Used' <= room'
      BY <1>1, <2>2, <3>3
    <3>. QED  BY <2>1, <3>4, <3>5 DEF RoomInv, RoomForThePinned, Size
  <2>. QED  BY <2>4, <2>5
<1>. QED  BY <1>2, <1>3
-----------------------------------------------------------------------------
\* The part is written anew: what was there goes, and the image fits.
LEMMA OpenWholeKeepsRoom ==
    ASSUME Inv, RoomInv, OpenWhole
    PROVE  RoomInv'
<1>1. Inv' /\ UNCHANGED dest
  BY PartStepKeepsInv
<1>2. /\ pc = "open" /\ pc' = "body" /\ UNCHANGED <<room, cur>>
      /\ part' = [part EXCEPT ![cur] = <<>>] /\ body' = Content(served)
  BY DEF OpenWhole, worldVars
<1>. DEFINE B == Blocks(part[cur])
<1>3. /\ B \in Nat /\ Used \in Nat /\ room \in Nat /\ Size \in Nat
      /\ cur \in Files /\ Blocks(dest[cur]) \in Nat
      /\ Used + Size <= room + B /\ Used <= room /\ served \in Versions
      /\ Length[served] \in Nat \ {0}
  BY <1>2, Typed, OccupiedTypes, SizeIsNat DEF RoomInv
<1>4. part'[cur] = <<>> /\ \A f \in Files \ {cur} : part'[f] = part[f]
  BY <1>2, <1>3, Typed
<1>5. <<>> # NoFile
  <2>1. <<>> \in Seq(Versions)
    BY EmptySeq
  <2>. QED  BY <2>1, FetchConstants
<1>6. Blocks(part'[cur]) = 0 /\ Blocks(dest'[cur]) = Blocks(dest[cur])
  BY <1>1, <1>4, <1>5 DEF Blocks
<1>7. Used' = Used - B
  <2>1. Used' = Used - B - Blocks(dest[cur]) + Blocks(part'[cur]) + Blocks(dest'[cur])
    BY <1>1, <1>4, UsedChanges
  <2>. QED  BY <1>3, <1>6, <2>1
<1>8. /\ DOMAIN body' = 1 .. Length[served] /\ Len(body') = Length[served]
      /\ \A i \in 1 .. Len(body') : body'[i] = served
  BY <1>2, <1>3 DEF Content
<1>9. RoomForThePinned'
  <2>. SUFFICES ASSUME \A i \in 1 .. Len(body') : body'[i] = Pinned
                PROVE  Used' + Len(body') <= room'
    BY DEF RoomForThePinned
  <2>1. served = Pinned
    BY <1>3, <1>8
  <2>. QED  BY <1>2, <1>3, <1>7, <1>8, <2>1 DEF Size
<1>10. Used' <= room'
  BY <1>2, <1>3, <1>7
<1>. QED  BY <1>2, <1>8, <1>9, <1>10 DEF RoomInv

\* The part stays: what follows it is the rest of the image.
LEMMA OpenRangeKeepsRoom ==
    ASSUME Inv, RoomInv, OpenRange
    PROVE  RoomInv'
<1>1. Inv' /\ UNCHANGED dest
  BY PartStepKeepsInv
<1>. DEFINE B == Blocks(part[cur])
<1>2. /\ pc = "open" /\ pc' = "body" /\ UNCHANGED <<room, cur, part>>
      /\ B \in 1 .. Length[served] - 1
      /\ body' = SubSeq(Content(served), B + 1, Length[served])
  BY DEF OpenRange, worldVars
<1>3. /\ Used \in Nat /\ room \in Nat /\ Size \in Nat
      /\ Used + Size <= room + B /\ Used <= room /\ served \in Versions
      /\ Length[served] \in Nat \ {0}
  BY <1>2, Typed, OccupiedTypes, SizeIsNat DEF RoomInv
<1>4. Used' = Used
  BY <1>1, <1>2 DEF Used, Occupied, Files, Blocks, Total, Units
<1>5. /\ Len(body') = Length[served] - B
      /\ \A i \in 1 .. Len(body') : body'[i] = served
  <2>. DEFINE s == Content(served)
              b == SubSeq(s, B + 1, Length[served])
  <2>1. \A i \in B + 1 .. Length[served] : s[i] \in Versions /\ s[i] = served
    BY <1>2, <1>3 DEF Content
  <2>2. /\ Len(b) = IF B + 1 <= Length[served] THEN Length[served] - (B + 1) + 1 ELSE 0
        /\ \A i \in 1 .. Length[served] - (B + 1) + 1 : b[i] = s[(B + 1) + i - 1]
    <3>1. B + 1 \in Nat /\ Length[served] \in Nat
      BY <1>2, <1>3
    <3>. HIDE DEF s, B
    <3>. QED  BY <2>1, <3>1, SubSeqProperties
  <2>3. Len(b) = Length[served] - B
    <3>1. B \in 1 .. Length[served] - 1 /\ Length[served] \in Nat
      BY <1>2, <1>3
    <3>. HIDE DEF B, b
    <3>. QED  BY <2>2, <3>1
  <2>4. \A i \in 1 .. Len(b) : b[i] = served
    <3>. SUFFICES ASSUME NEW i \in 1 .. Len(b) PROVE b[i] = served
      OBVIOUS
    <3>1. /\ i \in 1 .. Length[served] - (B + 1) + 1
          /\ (B + 1) + i - 1 \in B + 1 .. Length[served]
      <4>1. B \in 1 .. Length[served] - 1 /\ Length[served] \in Nat
        BY <1>2, <1>3
      <4>. HIDE DEF B, b
      <4>. QED  BY <2>3, <4>1
    <3>. QED  BY <2>1, <2>2, <3>1
  <2>. QED  BY <1>2, <2>3, <2>4
<1>6. RoomForThePinned'
  <2>. SUFFICES ASSUME \A i \in 1 .. Len(body') : body'[i] = Pinned
                PROVE  Used' + Len(body') <= room'
    BY DEF RoomForThePinned
  <2>1. served = Pinned
    <3>1. 1 \in 1 .. Len(body')
      BY <1>2, <1>3, <1>5
    <3>. QED  BY <1>5, <3>1
  <2>. QED  BY <1>2, <1>3, <1>4, <1>5, <2>1 DEF Size
<1>7. Used' <= room'
  BY <1>2, <1>3, <1>4
<1>. QED  BY <1>2, <1>5, <1>6, <1>7 DEF RoomInv

\* The part is thrown away.
LEMMA RemoveKeepsRoom ==
    ASSUME Inv, RoomInv, OpenRefused \/ Reject
    PROVE  RoomInv'
<1>1. Inv' /\ UNCHANGED dest
  BY PartStepKeepsInv
<1>2. /\ pc' = "open" => pc = "open"
      /\ UNCHANGED <<room, cur>> /\ pc' \in {"open", "idle"}
      /\ part' = [part EXCEPT ![cur] = NoFile]
  BY DEF OpenRefused, Reject, RemovePart, Fail, worldVars, fetchVars
<1>. DEFINE B == Blocks(part[cur])
<1>3. /\ B \in Nat /\ Used \in Nat /\ room \in Nat /\ Size \in Nat
      /\ cur \in Files /\ Blocks(dest[cur]) \in Nat
      /\ pc = "open" => Used + Size <= room + B
      /\ Used <= room
  BY <1>2, Typed, OccupiedTypes, SizeIsNat DEF RoomInv
<1>4. part'[cur] = NoFile /\ \A f \in Files \ {cur} : part'[f] = part[f]
  BY <1>2, <1>3, Typed
<1>5. Blocks(part'[cur]) = 0 /\ Blocks(dest'[cur]) = Blocks(dest[cur])
  BY <1>1, <1>4 DEF Blocks
<1>6. Used' = Used - B
  <2>1. Used' = Used - B - Blocks(dest[cur]) + Blocks(part'[cur]) + Blocks(dest'[cur])
    BY <1>1, <1>4, UsedChanges
  <2>. QED  BY <1>3, <1>5, <2>1
<1>7. Used' <= room' /\ (pc' = "open" => Used' + Size <= room' + Blocks(part'[cur']))
  BY <1>2, <1>3, <1>5, <1>6
<1>. QED  BY <1>2, <1>7 DEF RoomInv, RoomForThePinned, Size

\* A block is written where there is room for one.
LEMMA ReadBlockKeepsRoom ==
    ASSUME Inv, RoomInv, ReadBlock
    PROVE  RoomInv'
<1>1. Inv' /\ UNCHANGED dest
  BY PartStepKeepsInv
<1>2. /\ pc = "body" /\ pc' = "body" /\ UNCHANGED <<room, cur>>
      /\ part' = [part EXCEPT ![cur] = Append(part[cur], Head(body))]
      /\ body # <<>> /\ body' = Tail(body) /\ Free > 0
  BY DEF ReadBlock, worldVars
<1>. DEFINE B == Blocks(part[cur])
<1>3. /\ B \in Nat /\ Used \in Nat /\ room \in Nat
      /\ cur \in Files /\ Blocks(dest[cur]) \in Nat
      /\ body \in Seq(Versions) /\ Used < room
  <2>1. room \in Nat /\ Used \in Nat
    BY Typed, OccupiedTypes, SizeIsNat
  <2>2. Used < room
    BY <1>2, <2>1 DEF Free
  <2>. QED  BY <2>1, <2>2, Typed, OccupiedTypes
<1>4. part[cur] \in Seq(Versions) /\ part[cur] # NoFile
  BY <1>2, <1>3, Typed, FetchConstants DEF Inv, PartInv, Stored
<1>5. /\ Head(body) \in Versions /\ Len(body) \in Nat \ {0}
      /\ Len(body') = Len(body) - 1
      /\ \A i \in 1 .. Len(body') : body'[i] = body[i + 1]
  BY <1>2, <1>3, HeadTailProperties
<1>6. Blocks(part'[cur]) = B + 1
  <2>1. part'[cur] = Append(part[cur], Head(body))
    BY <1>2, <1>3, Typed
  <2>2. /\ Append(part[cur], Head(body)) \in Seq(Versions)
        /\ Len(Append(part[cur], Head(body))) = Len(part[cur]) + 1
    BY <1>4, <1>5, AppendProperties
  <2>3. part'[cur] # NoFile
    BY <2>1, <2>2, FetchConstants
  <2>. QED  BY <1>4, <2>1, <2>2, <2>3 DEF Blocks
<1>7. \A f \in Files \ {cur} : part'[f] = part[f]
  BY <1>2, Typed
<1>8. Used' = Used + 1
  <2>1. Used' = Used - B - Blocks(dest[cur]) + Blocks(part'[cur]) + Blocks(dest'[cur])
    BY <1>1, <1>7, UsedChanges
  <2>2. Blocks(dest'[cur]) = Blocks(dest[cur])
    BY <1>1 DEF Blocks
  <2>. QED  BY <1>3, <1>6, <2>1, <2>2
<1>9. \A i, j \in 1 .. Len(body') : body'[i] = body'[j]
  <2>1. \A i, j \in 1 .. Len(body) : body[i] = body[j]
    BY <1>2 DEF RoomInv
  <2>2. \A i \in 1 .. Len(body') : i + 1 \in 1 .. Len(body)
    BY <1>5
  <2>. QED  BY <1>5, <2>1, <2>2
<1>10. RoomForThePinned'
  <2>. SUFFICES ASSUME \A i \in 1 .. Len(body') : body'[i] = Pinned
                PROVE  Used' + Len(body') <= room'
    BY DEF RoomForThePinned
  <2>1. CASE Len(body) = 1
    BY <1>2, <1>3, <1>5, <1>8, <2>1
  <2>2. CASE Len(body) # 1
    <3>1. 1 \in 1 .. Len(body') /\ 2 \in 1 .. Len(body)
      BY <1>5, <2>2
    <3>2. body[2] = Pinned
      BY <1>5, <3>1
    <3>3. \A i \in 1 .. Len(body) : body[i] = Pinned
      BY <1>2, <3>1, <3>2 DEF RoomInv
    <3>4. Used + Len(body) <= room
      BY <1>2, <3>3 DEF RoomInv, RoomForThePinned
    <3>. QED  BY <1>2, <1>3, <1>5, <1>8, <3>4
  <2>. QED  BY <2>1, <2>2
<1>11. Used' <= room'
  BY <1>2, <1>3, <1>8
<1>. QED  BY <1>2, <1>9, <1>10, <1>11 DEF RoomInv

\* The rename moves what the part took, over what was there.
LEMMA AcceptKeepsRoom ==
    ASSUME Inv, RoomInv, Accept
    PROVE  RoomInv'
<1>1. Inv'
  BY AcceptKeepsInv
<1>2. /\ dest' = [dest EXCEPT ![cur] = part[cur]]
      /\ part' = [part EXCEPT ![cur] = NoFile]
      /\ UNCHANGED room /\ pc' \in {"idle", "probe"}
  BY DEF Accept, worldVars, FileDone
<1>3. /\ Used \in Nat /\ room \in Nat /\ Used <= room
      /\ cur \in Files /\ Blocks(dest[cur]) \in Nat /\ Blocks(part[cur]) \in Nat
  BY Typed, OccupiedTypes, SizeIsNat DEF RoomInv
<1>4. /\ \A f \in Files \ {cur} : part'[f] = part[f] /\ dest'[f] = dest[f]
      /\ part'[cur] = NoFile /\ dest'[cur] = part[cur]
  BY <1>2, <1>3, Typed
<1>5. Blocks(part'[cur]) = 0 /\ Blocks(dest'[cur]) = Blocks(part[cur])
  BY <1>4 DEF Blocks
<1>6. Used' = Used - Blocks(dest[cur])
  <2>1. Used' = Used - Blocks(part[cur]) - Blocks(dest[cur])
                     + Blocks(part'[cur]) + Blocks(dest'[cur])
    BY <1>1, <1>4, UsedChanges
  <2>. QED  BY <1>3, <1>5, <2>1
<1>7. Used' <= room'
  BY <1>2, <1>3, <1>6
<1>. QED  BY <1>2, <1>7 DEF RoomInv, RoomForThePinned

\* A power failure leaves of a file at most what was there.
LEMMA SurvivorTakesLess ==
    ASSUME Inv, NEW f \in Files, NEW left \in Survives(f)
    PROVE  Blocks(left[1]) + Blocks(left[2]) <= Blocks(part[f]) + Blocks(dest[f])
<1>1. part[f] \in Stored /\ dest[f] \in Stored
  BY DEF Inv, TypeOK, Stored
<1>2. /\ Blocks(part[f]) \in Nat /\ Blocks(dest[f]) \in Nat /\ Blocks(NoFile) = 0
  BY <1>1 DEF Stored, Blocks
<1>3. \A p \in Seq(Versions) : Blocks(p) \in Nat
  BY DEF Blocks
<1>4. CASE f \notin unsynced
  BY <1>1, <1>2, <1>4 DEF Survives
<1>5. CASE f \in unsynced /\ part[f] # NoFile
  <2>1. left \in Prefixes(part[f]) \X {dest[f]} /\ part[f] \in Seq(Versions)
    BY <1>1, <1>5 DEF Survives, Stored
  <2>2. left[1] \in Prefixes(part[f]) /\ left[2] = dest[f]
    BY <2>1
  <2>3. Blocks(left[1]) <= Blocks(part[f]) /\ Blocks(left[1]) \in Nat
    BY <1>3, <2>1, <2>2, PrefixIsShorter
  <2>. QED  BY <1>2, <2>2, <2>3
<1>6. CASE f \in unsynced /\ part[f] = NoFile
  <2>1. /\ dest[f] \in Seq(Versions)
        /\ left \in ({NoFile} \X Prefixes(dest[f])) \cup (Prefixes(dest[f]) \X {NoFile})
    BY <1>1, <1>6 DEF Survives, Stored, Inv, PartInv
  <2>2. \/ left[1] = NoFile /\ left[2] \in Prefixes(dest[f])
        \/ left[1] \in Prefixes(dest[f]) /\ left[2] = NoFile
    BY <2>1
  <2>3. \A p \in Prefixes(dest[f]) : Blocks(p) <= Blocks(dest[f]) /\ Blocks(p) \in Nat
    BY <1>3, <2>1, PrefixIsShorter
  <2>. QED  BY <1>2, <1>6, <2>2, <2>3
<1>. QED  BY <1>4, <1>5, <1>6

LEMMA PowerLossKeepsRoom ==
    ASSUME Inv, RoomInv, PowerLoss
    PROVE  RoomInv'
<1>1. PICK left \in [Files -> UNION {Survives(f) : f \in Files}] :
         /\ \A f \in Files : left[f] \in Survives(f)
         /\ part' = [f \in Files |-> left[f][1]]
         /\ dest' = [f \in Files |-> left[f][2]]
  BY DEF PowerLoss
<1>2. \A f \in Files : Blocks(left[f][1]) + Blocks(left[f][2])
                          <= Blocks(part[f]) + Blocks(dest[f])
  BY <1>1, SurvivorTakesLess
<1>3. \A f \in Files : Blocks(left[f][1]) \in Nat /\ Blocks(left[f][2]) \in Nat
  <2>. SUFFICES ASSUME NEW f \in Files
                PROVE  Blocks(left[f][1]) \in Nat /\ Blocks(left[f][2]) \in Nat
    OBVIOUS
  <2>1. left[f][1] \in Stored /\ left[f][2] \in Stored
    BY <1>1, SurvivorIsShorter
  <2>. QED  BY <2>1 DEF Blocks, Stored
<1>. DEFINE m == [f \in Files |-> Blocks(left[f][1]) + Blocks(left[f][2])]
<1>4. Used' = Total(m)
  <2>1. Occupied' = m
    BY <1>1 DEF Occupied, Files, Blocks
  <2>. QED  BY <2>1 DEF Used, Total, Units
<1>5. Total(m) <= Used /\ Total(m) \in Nat
  <2>1. /\ DOMAIN m = Files /\ DOMAIN Occupied = Files /\ IsFiniteSet(Files)
        /\ \A f \in Files : m[f] \in Nat /\ Occupied[f] \in Nat /\ m[f] <= Occupied[f]
    BY <1>2, <1>3, OccupiedTypes, FilesAreFinite
  <2>. HIDE DEF m
  <2>2. Total(m) <= Total(Occupied)
    BY <2>1, TotalGrows
  <2>3. Total(m) \in Nat
    BY <2>1, UnitsAreFinite
  <2>. QED  BY <2>2, <2>3 DEF Used
<1>6. /\ pc' = "idle" /\ UNCHANGED room /\ room \in Nat
      /\ Used <= room /\ Used \in Nat
  BY Typed, OccupiedTypes, SizeIsNat DEF PowerLoss, worldVars, RoomInv
<1>7. Used' <= room'
  BY <1>4, <1>5, <1>6
<1>. QED  BY <1>6, <1>7 DEF RoomInv, RoomForThePinned
-----------------------------------------------------------------------------
\* The space check made before the connection is opened still holds when
\* the pinned image arrives, resumed or restarted: the disk does not fill
\* (download_iso: free_bytes once, then the request, 200, 206 or 416).
THEOREM RoomForThePinnedHolds == Spec => []RoomForThePinned
<1>1. Init => RoomInv
  <2>. SUFFICES ASSUME Init PROVE RoomInv
    OBVIOUS
  <2>1. \A f \in Files : Occupied[f] = 0
    BY DEF Init, Occupied, Blocks
  <2>2. Units(Occupied) = {}
    BY <2>1 DEF Units, Occupied
  <2>3. Used = 0
    BY <2>2, FS_EmptySet DEF Used, Total
  <2>4. room \in Nat
    BY SizeIsNat DEF Init
  <2>. QED  BY <2>3, <2>4 DEF Init, RoomInv, RoomForThePinned
<1>2. Inv /\ RoomInv /\ [Next]_vars => RoomInv'
  BY OthersKeepRoom, ProbeKeepsRoom, OpenWholeKeepsRoom, OpenRangeKeepsRoom,
     RemoveKeepsRoom, ReadBlockKeepsRoom, AcceptKeepsRoom, PowerLossKeepsRoom
     DEF Next, Download
<1>3. RoomInv => RoomForThePinned
  BY DEF RoomInv
<1>. QED  BY <1>1, <1>2, <1>3, InvHolds, PTL DEF Spec
=============================================================================
