--------------------------- MODULE MCShopMachine ----------------------------
(***************************************************************************)
(* A stick, the disk of the computer and a second, smaller disk, both of   *)
(* which may be too small for the payload.                                 *)
(***************************************************************************)
EXTENDS ShopMachine

CONSTANTS stick, hdd, ssd

MCDisks == {stick, hdd, ssd}
MCUsb == {stick}
MCOrder == <<hdd, ssd, stick>>
MCSize == [d \in {hdd, ssd} |-> IF d = hdd THEN 4 ELSE 3]
\* More than Slack: a payload of 2 is accepted and does not fit.
MCOverhead == [d \in {hdd, ssd} |-> 2]

Nothing == [os |-> FALSE, files |-> 0, room |-> 0]
Windows == [os |-> TRUE, files |-> 0, room |-> 0]
FirstBoot(n, m) == [os |-> FALSE, files |-> n, room |-> m]

Bench(onStick, onHdd, onSsd) ==
    [d \in MCDisks |-> CASE d = stick -> onStick
                         [] d = hdd   -> onHdd
                         [] OTHER     -> onSsd]

\* A stick with little on it, before an old First Boot or another system; with
\* as much as a plan accepts; with more than the disks hold, where the session
\* may run from a second disk that holds little.
MCShelf == {Bench(FirstBoot(1, 2), FirstBoot(1, 3), Windows),
            Bench(FirstBoot(1, 2), Windows, FirstBoot(1, 2)),
            Bench(FirstBoot(2, 3), Nothing, Windows),
            Bench(FirstBoot(3, 4), Nothing, FirstBoot(1, 2))}
=============================================================================
