--------------------------- MODULE RetailerPacks ----------------------------
(***************************************************************************)
(* Retailer packs in the creator (catalog/pack.go and the handlers of the  *)
(* page): a zip is loaded, one of its desktops gets an ISO, a pack is      *)
(* removed.  A loaded pack is an object that the session and running jobs  *)
(* share; its driver lies in packs/<id>, where the next load of the same   *)
(* id puts another one.                                                    *)
(*                                                                         *)
(* External: what is in the zips, and the files next to them.  A load is   *)
(* one step here; its inner steps are interleaved with a job's in          *)
(* CreatorJob.  Bound: MaxLoads loads and choices of an ISO.               *)
(***************************************************************************)
EXTENDS StickPayload

CONSTANTS
    Zips,       \* the packs a shop may load
    OwnImages,  \* contents of ISOs a shop may choose
    PackIds,    \* names that ValidPackID takes
    IsoNames,   \* file names that packFilenameOK takes
    MaxLoads

ASSUME PacksAssumption ==
    /\ KebabIds \subseteq PackIds /\ PlainImages \subseteq IsoNames
    /\ MaxLoads \in Nat

VARIABLES
    object,  \* every Pack ever loaded
    loaded,  \* s.packs: which of them the session has, in order
    files,   \* driver.py in packs/<id>
    cache,   \* images/<filename>
    loads

packVars == <<object, loaded, files, loads>>

Ids == {z.id : z \in Zips}
FileNames ==
    UNION {{e.filename : e \in Elems(z.editions)} : z \in Zips}
        \cup UNION {{e.filename : e \in Elems(d.editions)} : d \in Elems(Official)}

\* Where an ISO may lie: in the cache, or where the shop has it.
Places == ({"cache"} \X FileNames) \cup ({"own"} \X DOMAIN Size)

ASSUME ZipsAssumption ==
    /\ \A z \in Zips :
          /\ z.secureBoot \in BOOLEAN /\ IsList(z.editions)
          /\ \A e \in Elems(z.editions) :
                e.default \in BOOLEAN /\ e.pin \in {None} \cup DOMAIN Size
          /\ \A f \in DOMAIN z.inside : z.inside[f] \in DOMAIN Size
          /\ \A f \in DOMAIN z.beside : z.beside[f] \in DOMAIN Size
    /\ OwnImages \subseteq DOMAIN Size
    /\ None \notin Places

SessionPacks == Mapped(loaded, LAMBDA n : object[n])

\* Where PackEdition.ISOPath points: into the cache, or at a file of the shop.
ContentAt(path) ==
    IF path = None THEN None
    ELSE IF path[1] = "cache" THEN cache[path[2]] ELSE path[2]

PacksInit ==
    /\ object = << >> /\ loaded = << >> /\ loads = 0
    /\ files = [id \in Ids |-> None]
    /\ cache = [f \in FileNames |-> None]

----------------------------------------------------------------------------
(* LoadZip *)

ReservedOfficialOnly(id) == Has(Official, id)

ReservedPackID(id) == id \in KnownInstalls \/ Has(Official, id)

ParsePackManifest(zip) ==
    /\ zip.id \in PackIds
    /\ zip.editions # << >>
    /\ \A e \in Elems(zip.editions) : e.id \in PackIds /\ e.filename \in IsoNames
    /\ Distinct(Names(zip.editions))
    /\ Distinct(Mapped(zip.editions, LAMBDA e : e.filename))
    /\ Cardinality({e \in Elems(zip.editions) : e.default}) = 1

PackDriverLooksOK(zip) == zip.driver # None /\ zip.id \in zip.driver.mentions

\* The ISO of an edition: from the zip, then next to it, then in the cache.
FoundPath(zip, e) ==
    IF e.filename \in DOMAIN zip.inside THEN <<"cache", e.filename>>
    ELSE IF e.filename \in DOMAIN zip.beside
         THEN <<"own", zip.beside[e.filename]>>
    ELSE IF cache[e.filename] # None THEN <<"cache", e.filename>>
    ELSE None

FoundImage(zip, e) ==
    IF e.filename \in DOMAIN zip.inside THEN zip.inside[e.filename]
    ELSE ContentAt(FoundPath(zip, e))

\* HashISO refuses an image that is not the pinned one.
HashFits(pin, image) == pin = None \/ pin = image

HashesFit(zip) ==
    \A e \in Elems(zip.editions) :
        FoundPath(zip, e) = None \/ HashFits(e.pin, FoundImage(zip, e))

\* Editions are extracted and hashed in turn, up to the first that fails.
Reached(zip, i) ==
    \A j \in 1 .. i - 1 :
        LET e == zip.editions[j]
        IN  FoundPath(zip, e) = None \/ HashFits(e.pin, FoundImage(zip, e))

Extracted(zip) ==
    {zip.editions[i].filename : i \in {j \in DOMAIN zip.editions : Reached(zip, j)}}
        \cap DOMAIN zip.inside

NewPack(zip) ==
    [id |-> zip.id, secureBoot |-> zip.secureBoot,
     editions |-> Mapped(zip.editions, LAMBDA e :
         [id |-> e.id, default |-> e.default, filename |-> e.filename,
          pin |-> e.pin, path |-> FoundPath(zip, e), image |-> FoundImage(zip, e)])]

LoadedWithout(id) ==
    Those(loaded, {i \in DOMAIN loaded : object[loaded[i]].id # id})

\* packs/<id> is emptied and filled before the driver is looked at, so a
\* refused zip leaves its driver there.
LoadZip(zip) ==
    /\ loads < MaxLoads
    /\ ParsePackManifest(zip) /\ ~ReservedPackID(zip.id)
    /\ loads' = loads + 1
    /\ files' = [files EXCEPT ![zip.id] = zip.driver]
    /\ cache' = IF PackDriverLooksOK(zip)
                THEN [f \in FileNames |-> IF f \in Extracted(zip)
                                          THEN zip.inside[f] ELSE cache[f]]
                ELSE cache
    /\ IF PackDriverLooksOK(zip) /\ HashesFit(zip)
       THEN /\ object' = Append(object, NewPack(zip))
            /\ loaded' = Append(LoadedWithout(zip.id), Len(object) + 1)
       ELSE UNCHANGED <<object, loaded>>

AttachISOKeepsPath(n, i, image) ==
    /\ loads < MaxLoads
    /\ loads' = loads + 1
    /\ object' = [object EXCEPT
           ![n].editions[i].path = <<"own", image>>,
           ![n].editions[i].image =
               IF HashFits(object[n].editions[i].pin, image) THEN image ELSE None]
    /\ UNCHANGED <<loaded, files, cache>>

\* A file that does not match the pin takes the edition's ISO away.
AttachISO(n, i, image) ==
    LET fits == HashFits(object[n].editions[i].pin, image)
    IN  /\ loads < MaxLoads
        /\ loads' = loads + 1
        /\ object' = [object EXCEPT
               ![n].editions[i].path = IF fits THEN <<"own", image>> ELSE None,
               ![n].editions[i].image = IF fits THEN image ELSE None]
        /\ UNCHANGED <<loaded, files, cache>>

RemovePack(id) ==
    /\ \E n \in Elems(loaded) : object[n].id = id
    /\ loaded' = LoadedWithout(id)
    /\ UNCHANGED <<object, files, cache, loads>>

PackRequest ==
    \/ \E zip \in Zips : LoadZip(zip)
    \/ \E n \in Elems(loaded) : \E i \in DOMAIN object[n].editions :
           \E image \in OwnImages : AttachISO(n, i, image)
    \/ \E id \in Ids : RemovePack(id)
=============================================================================
