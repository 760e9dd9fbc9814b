---------------------------- MODULE MCShopStick -----------------------------
(***************************************************************************)
(* A small official catalog and a few packs: a distro with two desktops,   *)
(* one with extras and without Secure Boot, one that is only downloaded;   *)
(* a pack with two desktops in two versions, and packs that must not pass. *)
(***************************************************************************)
EXTENDS ShopStick, TLC

Edition(id, default, install, filename, image, extras) ==
    [id |-> id, default |-> default, install |-> install, filename |-> filename,
     url |-> filename, image |-> image, extras |-> extras]

Mint == [id |-> "mint", install |-> "mint-223", redistributable |-> TRUE,
         canStage |-> TRUE, secureBoot |-> TRUE,
         editions |-> << Edition("cinnamon", TRUE, "mint-223", "c.iso", "C", << >>),
                         Edition("mate", FALSE, "mint-mate", "m.iso", "M", << >>) >>]
Cachy == [id |-> "cachyos", install |-> "cachyos-p", redistributable |-> TRUE,
          canStage |-> TRUE, secureBoot |-> FALSE,
          editions |-> << Edition("plasma", TRUE, "cachyos-p", "p.iso", "P",
                                  << [name |-> "x.pkg", url |-> "x.pkg", image |-> "X"] >>) >>]
Kept == [id |-> "kept", install |-> "kept-1", redistributable |-> FALSE,
         canStage |-> FALSE, secureBoot |-> TRUE,
         editions |-> << Edition("pro", TRUE, "kept-1", "k.iso", "K", << >>) >>]
MCOfficial == << Mint, Cachy, Kept >>

Driver(id) == [exports |-> id, mentions |-> {id}]
PackOf(id, driver, editions, inside, beside) ==
    [id |-> id, secureBoot |-> FALSE, driver |-> driver, editions |-> editions,
     inside |-> inside, beside |-> beside]
Desktop(id, default, filename, pin) ==
    [id |-> id, default |-> default, filename |-> filename, pin |-> pin]

\* Two desktops; one image in the zip, one to be chosen.
Pop1 == PackOf("pop", Driver("pop"),
               << Desktop("gnome", TRUE, "pop.iso", None),
                  Desktop("cosmic", FALSE, "cosmic.iso", None) >>,
               "pop.iso" :> "A", << >>)
\* Its next version, with another image, pinned.
Pop2 == PackOf("pop", Driver("pop"), << Desktop("gnome", TRUE, "pop.iso", "B") >>,
               << >>, "pop.iso" :> "B")
\* An image that is not the pinned one.
Pop3 == PackOf("pop", Driver("pop"), << Desktop("gnome", TRUE, "pop.iso", "B") >>,
               "pop.iso" :> "A", << >>)
\* A pack with the name of a driver of the live system.
Fake == PackOf("mint-mate", Driver("mint-mate"),
               << Desktop("mate", TRUE, "fake.iso", None) >>, "fake.iso" :> "A", << >>)
\* A pack with the file name of an official image, and one without a driver.
Same == PackOf("remix", Driver("remix"), << Desktop("main", TRUE, "m.iso", None) >>,
               "m.iso" :> "A", << >>)
NoDriver == PackOf("remix", None, << Desktop("main", TRUE, "r.iso", None) >>,
                   "r.iso" :> "A", << >>)
\* The pack again, with a driver for another id.
Wrong == PackOf("pop", Driver("popos"), << Desktop("gnome", TRUE, "pop.iso", None) >>,
                "pop.iso" :> "A", << >>)

MCZips == {Pop1, Pop2, Pop3, Fake, Same, NoDriver}
MCZipsWrong == {Pop1, Wrong}
MCSize == [c \in {"C", "M", "P", "X", "K", "A", "B"} |->
              CASE c = "C" -> 500 [] c = "M" -> 400 [] c = "P" -> 200 [] OTHER -> 100]
MCKebab == {"mint", "cinnamon", "mate", "mint-223", "mint-mate", "cachyos", "plasma",
            "cachyos-p", "kept", "kept-1", "pro", "pop", "gnome", "cosmic", "remix", "main"}
MCKnown == {"mint-223", "mint-mate", "cachyos-p", "kept-1"}
MCPlain == {"c.iso", "m.iso", "p.iso", "k.iso", "pop.iso", "cosmic.iso", "fake.iso", "r.iso"}
=============================================================================
