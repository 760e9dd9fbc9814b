--------------------------- MODULE EditionFetch ---------------------------
(***************************************************************************)
(* Downloading an edition onto FBL-DATA: its image and then its extra      *)
(* packages, one file after the other (osinstall/__init__.py               *)
(* run_edition_fetch, isodownload.py download_iso), started from the       *)
(* chooser (app.py) and resumed from a .part file after an error or a      *)
(* power failure.                                                          *)
(*                                                                         *)
(* A file is a sequence of blocks and a block is the version of the file   *)
(* it came from, so that a file put together from two versions shows.      *)
(* Writing is not followed by fsync: a power failure may cut what was      *)
(* written, or undo the rename, until the kernel has written it back.      *)
(***************************************************************************)
EXTENDS Naturals, Sequences, Totals

CONSTANTS
    FileCount,   \* the image and its extras
    Versions,    \* versions of a file a mirror may serve
    Pinned,      \* the one whose size and checksum the catalog pins
    Length,      \* blocks of each version
    Rooms,       \* how many blocks may fit on FBL-DATA
    Slack,       \* SLACK
    NoFile

ASSUME FetchConstants ==
    /\ FileCount \in Nat \ {0}
    /\ Pinned \in Versions
    /\ Length \in [Versions -> Nat \ {0}]
    /\ Rooms \subseteq Nat /\ Slack \in Nat
    /\ NoFile \notin Seq(Versions)

VARIABLES
    part,      \* <file>.part of each file
    dest,      \* the finished file
    unsynced,  \* files written since the kernel last wrote back
    room,      \* blocks that fit on FBL-DATA
    served,    \* the version the server has now
    steady,    \* network, server and power have become reliable
    pc,        \* next step of download_iso
    cur,       \* the file being fetched
    body,      \* what is left of the response
    screen,    \* what the chooser shows
    listed     \* edition.on_disk, as of the last load_payload

fileVars == <<part, dest, unsynced>>
worldVars == <<room, served, steady>>
fetchVars == <<pc, cur, body>>
vars == <<fileVars, worldVars, fetchVars, screen, listed>>

Files == 1 .. FileCount
Size == Length[Pinned]
Content(v) == [i \in 1 .. Length[v] |-> v]

TypeOK ==
    /\ part \in [Files -> Seq(Versions) \cup {NoFile}]
    /\ dest \in [Files -> Seq(Versions) \cup {NoFile}]
    /\ unsynced \subseteq Files
    /\ room \in Rooms /\ served \in Versions
    /\ steady \in BOOLEAN /\ listed \in BOOLEAN
    /\ pc \in {"idle", "probe", "open", "body", "end"}
    /\ cur \in Files
    /\ body \in Seq(Versions)
    /\ screen \in {"shop", "downloading", "confirm"}

Init ==
    /\ part = [f \in Files |-> NoFile] /\ dest = [f \in Files |-> NoFile]
    /\ unsynced = {}
    /\ room \in Rooms
    /\ served \in Versions /\ steady = FALSE
    /\ pc = "idle" /\ cur = 1 /\ body = <<>>
    /\ screen = "shop" /\ listed = FALSE

-----------------------------------------------------------------------------

Blocks(file) == IF file = NoFile THEN 0 ELSE Len(file)
Occupied == [f \in Files |-> Blocks(part[f]) + Blocks(dest[f])]
Used == Total(Occupied)
Free == IF Used < room THEN room - Used ELSE 0

\* Mutant: only the image is looked for.
ImageIsPresent(d) == d[1] # NoFile

\* edition_is_present: the files are there, their content is not looked at.
EditionIsPresent(d) == \A f \in Files : d[f] # NoFile

\* _already_good
AlreadyGood(file) == file = Content(Pinned)

RemovePart ==
    /\ part' = [part EXCEPT ![cur] = NoFile]
    /\ unsynced' = unsynced \ {cur}

\* Any error: _download_finished shows the shop again.
Fail ==
    /\ pc' = "idle" /\ body' = <<>> /\ screen' = "shop"
    /\ UNCHANGED <<cur, listed>>

\* The file is there: fetch the next one, or read the payload again and go
\* on to the install.
FileDone(d) ==
    IF cur < FileCount
    THEN /\ cur' = cur + 1 /\ pc' = "probe"
         /\ UNCHANGED <<screen, listed>>
    ELSE /\ pc' = "idle" /\ cur' = 1
         /\ listed' = EditionIsPresent(d)
         /\ screen' = IF listed' THEN "confirm" ELSE "shop"

-----------------------------------------------------------------------------
(* The chooser: Download or Install, by on_disk.                           *)

StartDownload ==
    /\ screen = "shop" /\ ~listed
    /\ screen' = "downloading" /\ pc' = "probe" /\ cur' = 1
    /\ UNCHANGED <<fileVars, worldVars, body, listed>>

PressInstall ==
    /\ screen = "shop" /\ listed
    /\ screen' = "confirm"
    /\ UNCHANGED <<fileVars, worldVars, fetchVars, listed>>

Dismiss ==
    /\ screen = "confirm"
    /\ screen' = "shop"
    /\ UNCHANGED <<fileVars, worldVars, fetchVars, listed>>

-----------------------------------------------------------------------------
(* download_iso, for the file cur.                                         *)

\* Mutant: the download starts whether or not there is room for it.
ProbeWithoutRoom ==
    /\ pc = "probe"
    /\ UNCHANGED <<dest, worldVars, body, part, unsynced>>
    /\ IF AlreadyGood(dest[cur])
       THEN FileDone(dest)
       ELSE pc' = "open" /\ UNCHANGED <<cur, screen, listed>>

\* What is there already, and is there room for the rest?
Probe ==
    /\ pc = "probe"
    /\ UNCHANGED <<dest, worldVars, body>>
    /\ IF AlreadyGood(dest[cur])
       THEN FileDone(dest) /\ UNCHANGED <<part, unsynced>>
       ELSE LET have == IF Blocks(part[cur]) > Size THEN 0
                        ELSE Blocks(part[cur])
                free == Free + Blocks(part[cur]) - have
            IN  /\ IF have < Blocks(part[cur]) THEN RemovePart
                   ELSE UNCHANGED <<part, unsynced>>
                /\ IF free < Size - have + Slack
                   THEN pc' = "idle" /\ screen' = "shop" /\ UNCHANGED cur
                   ELSE pc' = "open" /\ UNCHANGED <<cur, screen>>
                /\ UNCHANGED listed

\* The connection or the request fails.
OpenFails ==
    /\ pc = "open" /\ ~steady
    /\ Fail
    /\ UNCHANGED <<fileVars, worldVars>>

\* 200: the whole file, whether or not a range was asked for.
OpenWhole ==
    /\ pc = "open"
    /\ part' = [part EXCEPT ![cur] = <<>>]
    /\ unsynced' = unsynced \cup {cur}
    /\ body' = Content(served) /\ pc' = "body"
    /\ UNCHANGED <<dest, worldVars, cur, screen, listed>>

\* 206: the rest of what the server has now.
OpenRange ==
    /\ pc = "open"
    /\ Blocks(part[cur]) \in 1 .. Length[served] - 1
    /\ body' = SubSeq(Content(served), Blocks(part[cur]) + 1, Length[served])
    /\ unsynced' = unsynced \cup {cur}
    /\ pc' = "body"
    /\ UNCHANGED <<part, dest, worldVars, cur, screen, listed>>

\* Mutant: a refused range is an error like any other.
OpenRefusedFails ==
    /\ pc = "open"
    /\ Blocks(part[cur]) > 0 /\ Blocks(part[cur]) >= Length[served]
    /\ Fail
    /\ UNCHANGED <<fileVars, worldVars>>

\* 416: nothing follows what is there; start again without a range.
OpenRefused ==
    /\ pc = "open"
    /\ Blocks(part[cur]) > 0 /\ Blocks(part[cur]) >= Length[served]
    /\ RemovePart
    /\ UNCHANGED <<dest, worldVars, fetchVars, screen, listed>>

ReadBlock ==
    /\ pc = "body" /\ body # <<>> /\ Free > 0
    /\ part' = [part EXCEPT ![cur] = Append(@, Head(body))]
    /\ unsynced' = unsynced \cup {cur}
    /\ body' = Tail(body)
    /\ UNCHANGED <<dest, worldVars, pc, cur, screen, listed>>

\* The connection breaks, or the disk is full: the part stays.
ReadFails ==
    /\ pc = "body" /\ body # <<>>
    /\ ~steady \/ Free = 0
    /\ Fail
    /\ UNCHANGED <<fileVars, worldVars>>

\* The server closes the connection, early or not.
EndOfBody ==
    /\ pc = "body"
    /\ body = <<>> \/ ~steady
    /\ body' = <<>> /\ pc' = "end"
    /\ UNCHANGED <<fileVars, worldVars, cur, screen, listed>>

\* Wrong size or wrong checksum: the part is thrown away.
Reject ==
    /\ pc = "end" /\ part[cur] # Content(Pinned)
    /\ RemovePart
    /\ Fail
    /\ UNCHANGED <<dest, worldVars>>

\* Mutant: the size is enough.
AcceptTheSize ==
    /\ pc = "end" /\ Blocks(part[cur]) = Size
    /\ dest' = [dest EXCEPT ![cur] = part[cur]]
    /\ part' = [part EXCEPT ![cur] = NoFile]
    /\ FileDone(dest')
    /\ UNCHANGED <<unsynced, worldVars, body>>

Accept ==
    /\ pc = "end" /\ part[cur] = Content(Pinned)
    /\ dest' = [dest EXCEPT ![cur] = part[cur]]
    /\ part' = [part EXCEPT ![cur] = NoFile]
    /\ FileDone(dest')
    /\ UNCHANGED <<unsynced, worldVars, body>>

-----------------------------------------------------------------------------
(* The world.                                                              *)

WriteBack ==
    /\ unsynced # {}
    /\ unsynced' = {}
    /\ UNCHANGED <<part, dest, worldVars, fetchVars, screen, listed>>

ServerChanges ==
    /\ ~steady
    /\ served' \in Versions \ {served}
    /\ UNCHANGED <<fileVars, room, steady, fetchVars, screen, listed>>

Settle ==
    /\ ~steady
    /\ steady' = TRUE /\ served' = Pinned
    /\ UNCHANGED <<fileVars, room, fetchVars, screen, listed>>

Prefixes(file) == {SubSeq(file, 1, k) : k \in 0 .. Len(file)}

\* <<part, dest>> of f after a power failure.
Survives(f) ==
    IF f \notin unsynced THEN {<<part[f], dest[f]>>}
    ELSE IF part[f] # NoFile THEN Prefixes(part[f]) \X {dest[f]}
    ELSE ({NoFile} \X Prefixes(dest[f])) \cup (Prefixes(dest[f]) \X {NoFile})

PowerLoss ==
    /\ ~steady
    /\ \E left \in [Files -> UNION {Survives(f) : f \in Files}] :
         /\ \A f \in Files : left[f] \in Survives(f)
         /\ part' = [f \in Files |-> left[f][1]]
         /\ dest' = [f \in Files |-> left[f][2]]
    /\ unsynced' = {}
    /\ pc' = "idle" /\ cur' = 1 /\ body' = <<>>
    /\ screen' = "shop" /\ listed' = EditionIsPresent(dest')
    /\ UNCHANGED worldVars

Download ==
    \/ Probe \/ OpenFails \/ OpenWhole \/ OpenRange \/ OpenRefused
    \/ ReadBlock \/ ReadFails \/ EndOfBody \/ Reject \/ Accept

Customer == StartDownload \/ PressInstall \/ Dismiss

Next == \/ Customer \/ Download
        \/ WriteBack \/ ServerChanges \/ Settle \/ PowerLoss

\* The helper process runs; customers, servers and power do as they please.
Spec == Init /\ [][Next]_vars /\ WF_vars(Download)

-----------------------------------------------------------------------------
(* Properties.                                                             *)

\* A finished file appears, or a cut one is replaced, only by the whole
\* pinned image, however often the download was resumed, with whichever
\* versions the server had meanwhile (download_iso hashes what it resumes).
StoresOnlyThePinned ==
    [][\A f \in Files :
         Blocks(dest'[f]) > Blocks(dest[f]) => dest'[f] = Content(Pinned)]_vars

\* The cached on_disk flag never promises an edition of which a file is
\* missing, although it is read long after load_payload set it.
ListedIsPresent == listed => \A f \in Files : dest[f] # NoFile

\* The space check made before the connection is opened still holds when
\* the pinned image arrives, resumed or restarted: the disk does not fill.
RoomForThePinned ==
    pc = "body" /\ (\A i \in 1 .. Len(body) : body[i] = Pinned)
        => Used + Len(body) <= room

\* Once the network is steady no left-over .part, of whatever length and
\* content, makes the download fail for ever: customers who keep trying
\* stop having to.  A disk that does not hold every file twice may stay too full.
FetchSettles ==
    room >= 2 * FileCount * Size + Slack
        => (<>steady => <>[](screen # "downloading"))
=============================================================================
