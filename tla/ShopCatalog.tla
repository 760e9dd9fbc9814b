----------------------------- MODULE ShopCatalog ----------------------------
(***************************************************************************)
(* How the creator turns the desktops a shop ticked into the catalog.json  *)
(* of its stick (src/creator/internal/catalog), and how large an image it  *)
(* plans for them (compose.Plan).  The official catalog and the packs are   *)
(* values; nothing here has a state.                                       *)
(*                                                                         *)
(* Content: a sha256 stands for the content it is the sum of, and Size     *)
(* gives a content its length in MiB.  A url stands for the name at its    *)
(* end.  Names, versions and texts of the rows are left out.               *)
(***************************************************************************)
EXTENDS Integers, Sequences, Totals

CONSTANTS
    None,      \* null: no install driver, url, file, sum or edition
    Official,  \* the rows of official-catalog.json, in order
    Size       \* MiB of each content

Elems(s) == {s[i] : i \in DOMAIN s}
Distinct(s) == \A i, j \in DOMAIN s : s[i] = s[j] => i = j
Mapped(s, Op(_)) == [i \in DOMAIN s |-> Op(s[i])]
IsList(s) == s \in Seq(Elems(s))
Names(s) == Mapped(s, LAMBDA x : x.id)
Has(s, id) == \E x \in Elems(s) : x.id = id

\* What s has at the positions P, in order, and at the first of them.
Those(s, P) ==
    [k \in 1 .. Cardinality(P) |->
        s[CHOOSE i \in P : Cardinality({j \in P : j <= i}) = k]]
FirstOf(s, P) == s[CHOOSE i \in P : \A j \in P : i <= j]
Row(s, id) == FirstOf(s, {i \in DOMAIN s : s[i].id = id})

\* official-catalog.json, as LoadOfficial and catalog_test.go check it: distros
\* and their editions have distinct ids, every distro has a default edition.
ASSUME OfficialAssumption ==
    /\ IsList(Official) /\ Distinct(Names(Official))
    /\ \A d \in Elems(Official) :
          /\ {d.redistributable, d.canStage, d.secureBoot} \subseteq BOOLEAN
          /\ IsList(d.editions) /\ Distinct(Names(d.editions))
          /\ \E e \in Elems(d.editions) : e.default
          /\ \A e \in Elems(d.editions) :
                /\ e.default \in BOOLEAN
                /\ d.install # None => e.install # None
                /\ IsList(e.extras)
                /\ Distinct(Mapped(e.extras, LAMBDA x : x.name))

ASSUME SizeAssumption ==
    /\ Size \in [DOMAIN Size -> Nat] /\ None \notin DOMAIN Size
    /\ \A d \in Elems(Official) : \A e \in Elems(d.editions) :
          {e.image} \cup {x.image : x \in Elems(e.extras)} \subseteq {None} \cup DOMAIN Size

----------------------------------------------------------------------------
(* Official rows *)

DefaultEdition(d) ==
    IF \E e \in Elems(d.editions) : e.default
    THEN FirstOf(d.editions, {i \in DOMAIN d.editions : d.editions[i].default})
    ELSE d.editions[1]

Pinned(e) ==
    /\ None \notin {e.url, e.image}
    /\ \A x \in Elems(e.extras) : None \notin {x.url, x.image}

CanStageEdition(d, e) ==
    d.redistributable /\ d.canStage /\ d.install # None /\ Pinned(e)

Stageable(d) == \E e \in Elems(d.editions) : CanStageEdition(d, e)

Offerable(d) ==
    /\ d.install # None
    /\ Pinned(DefaultEdition(d))
    /\ Stageable(d) \/ ~d.redistributable

\* What the page lets a shop tick.
OfficialTicks ==
    UNION {{<<d.id, e.id>> : e \in {x \in Elems(d.editions) :
                                       CanStageEdition(d, x)}} :
               d \in {r \in Elems(Official) : Offerable(r)}}

\* A pack's edition has its image and sum once an ISO was found and hashed.
PackCanStage(e) == e.image # None

----------------------------------------------------------------------------
(* BuildShop: ticks is a sequence of <<distro, edition>> *)

TickedOf(ticks, id) ==
    Mapped(Those(ticks, {i \in DOMAIN ticks : ticks[i][1] = id}), LAMBDA t : t[2])

TickOrder(ticks) ==
    Mapped(Those(ticks, {i \in DOMAIN ticks :
                            \A j \in 1 .. i - 1 : ticks[j][1] # ticks[i][1]}),
           LAMBDA t : t[1])

FeaturedAlways(d, selected) == DefaultEdition(d).id

FeaturedEdition(d, selected) ==
    IF selected = << >> \/ DefaultEdition(d).id \in Elems(selected)
    THEN DefaultEdition(d).id
    ELSE selected[1]

OrderedEditions(d, selected) ==
    Mapped(selected, LAMBDA id : Row(d.editions, id))
        \o Those(d.editions, {i \in DOMAIN d.editions :
                                d.editions[i].id \notin Elems(selected)})

ShopExtras(e) ==
    Those(e.extras, {i \in DOMAIN e.extras :
                        None \notin {e.extras[i].url, e.extras[i].image}})

\* The driver of an edition, when it is not the distro's; an official edition
\* that names none has the distro's here.
InstallOverride(d, e) == IF e.install = d.install THEN None ELSE e.install

OfficialEditionRow(d, e, selected) ==
    LET local == e.id \in Elems(selected) /\ CanStageEdition(d, e)
    IN  [id |-> e.id, default |-> e.id = FeaturedEdition(d, selected),
         local |-> local, install |-> InstallOverride(d, e),
         file |-> IF local THEN e.filename ELSE None,
         url |-> IF local THEN None ELSE e.url,
         image |-> e.image, extras |-> ShopExtras(e)]

PinnedEditions(editions) ==
    Those(editions, {i \in DOMAIN editions : Pinned(editions[i])})

ShopDistro(d, selected) ==
    [id |-> d.id, install |-> d.install, secureBoot |-> d.secureBoot,
     editions |-> Mapped(PinnedEditions(OrderedEditions(d, selected)),
                         LAMBDA e : OfficialEditionRow(d, e, selected))]

PackEditionRow(p, e, selected) ==
    [id |-> e.id, default |-> e.id = FeaturedEdition(p, selected),
     local |-> TRUE, install |-> None, file |-> e.filename, url |-> None,
     image |-> e.image, extras |-> << >>]

ShopDistroFromPack(p, selected) ==
    [id |-> p.id, install |-> p.id, secureBoot |-> p.secureBoot,
     editions |-> Mapped(Mapped(selected, LAMBDA id : Row(p.editions, id)),
                         LAMBDA e : PackEditionRow(p, e, selected))]

\* Why a selection is refused, for each tick.
TickStands(t, packs) ==
    IF Has(Official, t[1])
    THEN /\ ~Has(packs, t[1])
         /\ Offerable(Row(Official, t[1]))
         /\ Has(Row(Official, t[1]).editions, t[2])
    ELSE /\ Has(packs, t[1])
         /\ Has(Row(packs, t[1]).editions, t[2])
         /\ PackCanStage(Row(Row(packs, t[1]).editions, t[2]))

\* shopDistro fails for an official row without its pinned featured edition,
\* or with a default edition that is not pinned.
FeaturedIsPinned(d, selected) ==
    /\ Pinned(Row(d.editions, FeaturedEdition(d, selected)))
    /\ \A e \in Elems(d.editions) : e.default => Pinned(e)

CanBuildShop(ticks, packs) ==
    /\ ticks # << >>
    /\ Distinct(ticks)
    /\ \A t \in Elems(ticks) : TickStands(t, packs)
    /\ \A d \in Elems(Official) :
          Offerable(d) => FeaturedIsPinned(d, TickedOf(ticks, d.id))

OtherRows(ticks) ==
    Those(Official, {i \in DOMAIN Official :
                        /\ Offerable(Official[i])
                        /\ \A t \in Elems(ticks) : t[1] # Official[i].id})

RecommendedRow(id, selected, packs) ==
    IF Has(Official, id) THEN ShopDistro(Row(Official, id), selected)
    ELSE ShopDistroFromPack(Row(packs, id), selected)

BuildShop(ticks, packs) ==
    [recommended |-> Mapped(TickOrder(ticks), LAMBDA id :
                        RecommendedRow(id, TickedOf(ticks, id), packs)),
     catalog |-> Mapped(OtherRows(ticks), LAMBDA d : ShopDistro(d, << >>))]

----------------------------------------------------------------------------
(* The size of the image *)

LocalEditions(shop) ==
    UNION {{<<r.id, e>> : e \in {x \in Elems(r.editions) : x.local}} :
               r \in Elems(shop.recommended)}

LocalIsoBytes(e) == Size[e.image]

LocalPayloadBytes(e) ==
    Size[e.image] + Total([x \in Elems(e.extras) |-> Size[x.image]])

LocalBytes(shop) == Total([l \in LocalEditions(shop) |-> LocalPayloadBytes(l[2])])

\* MiB of FBL-DATA: images, wallpapers and small files, a tenth more and 64.
DataBytes(shop) ==
    LET data == LocalBytes(shop) + 16 + 8
        withSlack == data + (data + 9) \div 10 + 64
    IN  IF withSlack < 256 THEN 256 ELSE withSlack
=============================================================================
