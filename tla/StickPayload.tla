---------------------------- MODULE StickPayload ----------------------------
(***************************************************************************)
(* What the chooser makes of FBL-DATA: payload.py reads catalog.json,      *)
(* app.py shows cards and rows, and osinstall.get_driver finds the driver  *)
(* behind a card.  A payload is a record of the catalog, the files under   *)
(* images/ and images/<iso>.pkgs/, and the driver.py of each custom/<id>.  *)
(***************************************************************************)
EXTENDS ShopCatalog

CONSTANTS
    KebabIds,      \* names that ID_RE matches
    PlainImages,   \* file names that FILE_RE matches: .iso or .img in lower case
    KnownInstalls, \* INSTALL_DRIVERS
    Drivers        \* install ids with a Python driver in the live system

ASSUME DriversAssumption == Drivers \subseteq KnownInstalls /\ None \notin KnownInstalls

\* The official catalog names what the chooser understands and has drivers for.
ASSUME OfficialNames ==
    \A d \in Elems(Official) :
        /\ d.id \in KebabIds /\ d.install \in {None} \cup KebabIds
        /\ \A e \in Elems(d.editions) :
              /\ e.id \in KebabIds /\ e.filename \in PlainImages
              /\ e.install \in {None} \cup (Drivers \cap KebabIds)

\* A payload error empties the whole list.
EditionLoads(e) ==
    /\ e.id \in KebabIds
    /\ IF e.local THEN e.file \in PlainImages
       ELSE e.url # None /\ (e.file # None => e.file \in PlainImages)
    /\ e.install # None => e.install \in KebabIds
    /\ Distinct(Mapped(e.extras, LAMBDA x : x.name))

RowLoads(row) ==
    /\ {row.id, row.install} \subseteq KebabIds
    /\ row.editions # << >>
    /\ Distinct(Names(row.editions))
    /\ Cardinality({e \in Elems(row.editions) : e.default}) = 1
    /\ \A e \in Elems(row.editions) : EditionLoads(e)

AllRows(payload) == payload.recommended \o payload.catalog

CatalogLoads(payload) ==
    /\ \A row \in Elems(AllRows(payload)) : RowLoads(row)
    /\ Distinct(Names(AllRows(payload)))

\* The name an edition's image has under images/.
ImageRel(e) == IF e.file \in PlainImages THEN e.file
               ELSE IF e.url \in PlainImages THEN e.url ELSE None

\* edition_is_present: the file is there, and every extra beside it.
EditionIsPresent(payload, e) ==
    /\ ImageRel(e) \in DOMAIN payload.images
    /\ \A x \in Elems(e.extras) : <<ImageRel(e), x.name>> \in DOMAIN payload.extras

InstallFor(row, e) == IF e.install # None THEN e.install ELSE row.install

\* get_driver: the live system's own driver first, then the pack's, if it
\* says it is for this id.
DriverFor(payload, install) ==
    IF install \in Drivers THEN <<"live", install>>
    ELSE IF install \in KebabIds \cap DOMAIN payload.custom
            /\ payload.custom[install].exports = install
         THEN <<"pack", install>>
    ELSE <<"none", None>>

\* Cards: one for each local edition, or the default edition of a row that
\* has none.
CardsOf(row) ==
    IF \E e \in Elems(row.editions) : e.local
    THEN Those(row.editions, {i \in DOMAIN row.editions : row.editions[i].local})
    ELSE << DefaultEdition(row) >>

Cards(payload) ==
    UNION {{<<row, e>> : e \in Elems(CardsOf(row))} :
               row \in Elems(payload.recommended)}

\* Rows of "Other options".
OtherOptions(payload, secureBootOn) ==
    Elems(payload.recommended)
        \cup {row \in Elems(payload.catalog) : row.secureBoot \/ ~secureBootOn}

\* _act: what choosing an edition does.
Choose(payload, row, e, secureBootOn) ==
    LET present == EditionIsPresent(payload, e)
    IN  IF secureBootOn /\ ~row.secureBoot /\ present THEN "warning"
        ELSE IF DriverFor(payload, InstallFor(row, e))[1] = "none" THEN "not available"
        ELSE IF present THEN "install"
        ELSE IF e.url = None THEN "no download"
        ELSE "download"
=============================================================================
