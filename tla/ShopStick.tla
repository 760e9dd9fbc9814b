----------------------------- MODULE ShopStick ------------------------------
(***************************************************************************)
(* From the page of the creator to the cards of the chooser: packs come    *)
(* and go, a job takes the ticked desktops and the packs of that moment,   *)
(* fetches the images, stages them, copies the packs' files and formats    *)
(* FBL-DATA; a computer then boots the stick and the chooser reads it.     *)
(*                                                                         *)
(* A job may fail at any step and leaves no stick.  The work tree has its  *)
(* own copy of each image (CreatorJob treats the links).  External: mke2fs *)
(* and the space it needs.  Bounds: MaxTicks desktops; one job at a time,  *)
(* as the server allows.                                                   *)
(***************************************************************************)
EXTENDS RetailerPacks

CONSTANT MaxTicks

VARIABLES
    step,     \* of the running job
    request,  \* its ticks, its shop and its packs
    isos,     \* where the image of each file to stage lies
    tree,     \* data tree: images, extras, custom
    stick     \* what the last job made, or None

jobVars == <<step, request, isos, tree>>
vars == <<packVars, cache, jobVars, stick>>

NoRequest == [ticks |-> << >>, shop |-> None, packs |-> << >>]
EmptyTree == [images |-> << >>, extras |-> << >>, custom |-> << >>]

Ticks ==
    OfficialTicks \cup
        UNION {{<<z.id, e.id>> : e \in Elems(z.editions)} :
                   z \in {y \in Zips : ~ReservedPackID(y.id)}}

TickLists == UNION {[1 .. n -> Ticks] : n \in 1 .. MaxTicks}

RequestPacks == Mapped(request.packs, LAMBDA n : object[n])
Locals == {l[2] : l \in LocalEditions(request.shop)}

Init ==
    /\ PacksInit
    /\ step = "idle" /\ request = NoRequest
    /\ isos = << >> /\ tree = EmptyTree /\ stick = None

NoJob ==
    /\ step' = "idle" /\ request' = NoRequest
    /\ isos' = << >> /\ tree' = EmptyTree

----------------------------------------------------------------------------
(* /api/start *)

Start(ticks) ==
    /\ step = "idle"
    /\ CanBuildShop(ticks, SessionPacks)
    /\ step' = "fetch"
    /\ request' = [ticks |-> ticks, shop |-> BuildShop(ticks, SessionPacks),
                   packs |-> loaded]
    /\ stick' = None
    /\ UNCHANGED <<packVars, cache, isos, tree>>

(* localISO: a name of the official catalog is the official image, whoever  *)
(* ticked it; any other is that of the first pack with such a name.         *)

OfficialFiles ==
    UNION {{e.filename : e \in Elems(d.editions)} : d \in Elems(Official)}

FirstFile(editions, f) ==
    FirstOf(editions, {i \in DOMAIN editions : editions[i].filename = f})

WithFile(s, f) ==
    FirstOf(s, {i \in DOMAIN s : \E e \in Elems(s[i].editions) : e.filename = f})

OfficialEdition(f) ==
    FirstFile(WithFile(Official, f).editions, f)

PackFiles == UNION {{e.filename : e \in Elems(p.editions)} : p \in Elems(RequestPacks)}

PackEdition(f) ==
    FirstFile(WithFile(RequestPacks, f).editions, f)

CanFetch(e) ==
    IF e.file \in OfficialFiles THEN Pinned(OfficialEdition(e.file))
    ELSE /\ e.file \in PackFiles
         /\ ContentAt(PackEdition(e.file).path) # None
         /\ Size[ContentAt(PackEdition(e.file).path)] = Size[e.image]

FetchImages ==
    LET wanted == {e.file : e \in Locals}
    IN  /\ step = "fetch"
        /\ \A e \in Locals : CanFetch(e)
        /\ cache' = [f \in FileNames |-> IF f \in wanted \cap OfficialFiles
                                         THEN OfficialEdition(f).image ELSE cache[f]]
        /\ isos' = [f \in wanted |-> IF f \in OfficialFiles THEN <<"cache", f>>
                                     ELSE PackEdition(f).path]
        /\ step' = "stage"
        /\ UNCHANGED <<packVars, request, tree, stick>>

----------------------------------------------------------------------------
(* buildDATA *)

StagedExtras ==
    UNION {{<<e.file, x.name>> : x \in Elems(e.extras)} : e \in Locals}

ExtraImage(at) ==
    (CHOOSE x \in UNION {Elems(e.extras) : e \in {l \in Locals : l.file = at[1]}} :
         x.name = at[2]).image

\* Every staged image is hashed again in the tree.
StageImages ==
    /\ step = "stage"
    /\ \A e \in Locals : ContentAt(isos[e.file]) = e.image
    /\ tree' = [tree EXCEPT !.images = [f \in DOMAIN isos |-> ContentAt(isos[f])],
                            !.extras = [at \in StagedExtras |-> ExtraImage(at)]]
    /\ step' = "packs"
    /\ UNCHANGED <<packVars, cache, request, isos, stick>>

PacksOnStickOfSession ==
    {p.id : p \in Elems(SessionPacks)} \cap {r.id : r \in Elems(request.shop.recommended)}

PacksOnStick ==
    {p.id : p \in Elems(RequestPacks)} \cap {r.id : r \in Elems(request.shop.recommended)}

CopyPacks ==
    /\ step = "packs"
    /\ \A id \in PacksOnStick : files[id] # None
    /\ tree' = [tree EXCEPT !.custom = [id \in PacksOnStick |-> files[id]]]
    /\ step' = "format"
    /\ UNCHANGED <<packVars, cache, request, isos, stick>>

\* makeExt4 and the rest of the image.
Format ==
    /\ step = "format"
    /\ stick' = [ticks |-> request.ticks, recommended |-> request.shop.recommended,
                 catalog |-> request.shop.catalog, images |-> tree.images,
                 extras |-> tree.extras, custom |-> tree.custom]
    /\ NoJob
    /\ UNCHANGED <<packVars, cache>>

JobFails ==
    /\ step # "idle"
    /\ NoJob
    /\ UNCHANGED <<packVars, cache, stick>>

Job == FetchImages \/ StageImages \/ CopyPacks \/ Format \/ JobFails

Next ==
    \/ PackRequest /\ UNCHANGED <<jobVars, stick>>
    \/ \E ticks \in TickLists : Start(ticks)
    \/ Job

Spec == Init /\ [][Next]_vars

----------------------------------------------------------------------------
(* Properties *)

\* The shape of the state: every pack points at files that may exist, every
\* pack of the session or of a job was loaded, and a job has a shop.
TypeOK ==
    /\ \A p \in Elems(object) : \A e \in Elems(p.editions) :
          e.path \in {None} \cup Places /\ (e.path = None <=> e.image = None)
    /\ Elems(loaded) \cup Elems(request.packs) \subseteq DOMAIN object
    /\ Distinct(Names(SessionPacks))
    /\ cache \in [FileNames -> {None} \cup DOMAIN Size]
    /\ step \in {"idle", "fetch", "stage", "packs", "format"}
    /\ (step = "idle") <=> (request = NoRequest)
    /\ step \in {"packs", "format"} => DOMAIN tree.images = {e.file : e \in Locals}

TickedCards == {<<c[1].id, c[2].id>> : c \in Cards(stick)}

\* A finished stick serves what was ticked: the chooser takes its catalog,
\* shows one card for each ticked desktop and no other, and behind each card
\* lies the image, with its extras, that the catalog names (BuildShop and
\* buildDATA against payload.py).
ServesTheTicks ==
    stick # None =>
        /\ CatalogLoads(stick)
        /\ TickedCards = Elems(stick.ticks)
        /\ \A c \in Cards(stick) :
              /\ EditionIsPresent(stick, c[2])
              /\ stick.images[c[2].file] = c[2].image

OwnDriver(tick) ==
    IF Has(Official, tick[1])
    THEN <<"live", Row(Row(Official, tick[1]).editions, tick[2]).install>>
    ELSE <<"pack", tick[1]>>

\* A card runs the driver made for its desktop: an official edition its own
\* driver of the live system, a pack's the driver of that pack.
RunsItsOwnDriver ==
    stick # None =>
        \A c \in Cards(stick) :
            DriverFor(stick, InstallFor(c[1], c[2])) = OwnDriver(<<c[1].id, c[2].id>>)

\* Whatever the chooser lists can be had: each edition of each row is
\* installed or downloaded, except a recommended one that Secure Boot rules
\* out.
OffersLeadSomewhere ==
    stick # None =>
        \A secureBootOn \in BOOLEAN : \A row \in OtherOptions(stick, secureBootOn) :
            \A e \in Elems(row.editions) :
                \/ Choose(stick, row, e, secureBootOn) \in {"install", "download"}
                \/ /\ Choose(stick, row, e, secureBootOn) = "warning"
                   /\ row \in Elems(stick.recommended)

\* MiB that ext4 takes for itself: inode tables and a journal.
Ext4Overhead(n) == n \div 50 + (IF n < 1024 THEN 16 ELSE IF n < 16384 THEN 64 ELSE 256)

\* Wallpapers, texts and the files of the packs are within what Plan allows.
TreeBytes ==
    Total([f \in DOMAIN tree.images |-> Size[tree.images[f]]])
        + Total([at \in DOMAIN tree.extras |-> Size[tree.extras[at]]]) + 16 + 8

\* The planned partition takes the staged tree and the file system's own
\* blocks (Plan against buildDATA and makeExt4).
RoomForTheTree ==
    step = "format" =>
        LET planned == DataBytes(request.shop)
        IN  TreeBytes + Ext4Overhead(planned) <= planned

\* schemas/README.md:150: the folder of a pack holds the driver of that id.
\* The code breaks this: a zip that is refused has already put its driver
\* into packs/<id>, from where the pack that stays loaded is copied.
DriverIsTheIds ==
    stick # None =>
        \A id \in DOMAIN stick.custom : stick.custom[id].exports = id
=============================================================================
