----------------------------- MODULE ShopProofs ------------------------------
(***************************************************************************)
(* For any number of disks, whatever they hold at first and whenever the   *)
(* stick is pulled or the power goes: what ShopMachine says of the disk    *)
(* that the shop copies First Boot to, and of the pack's installer.        *)
(*                                                                         *)
(* The argument: the plan always names the same internal disk, the largest *)
(* one, so that no other disk is ever written by a copy.  A disk that a    *)
(* copy is read from is therefore not a copy cut short, its menu does not  *)
(* name the target, and the target's own menu names the target only once   *)
(* all of the payload is there.                                            *)
(***************************************************************************)
EXTENDS ShopMachine, WellFoundedInduction, TLAPS

Internal == Disks \ Usb

\* The disk that a plan names, if it names one.
Largest == FirstOf({d \in Internal : \A e \in Internal : Size[e] <= Size[d]})

JobRecords == [pack : Packs, target : Internal, image : Disks,
               toram : BOOLEAN, starts : Nat]

DiskStates ==
    [labels : BOOLEAN, esp : Parts, sys : Parts, data : Parts,
     stub : Disks \cup {None}, menu : {"none", "live", "installer", "torn"},
     root : Disks \cup {None}, files : Nat, room : Nat,
     kernel : Packs \cup {None, "torn"},
     initrd : [pack : Packs, seeded : BOOLEAN] \cup {None},
     job : JobRecords \cup {None}, os : BOOLEAN, done : BOOLEAN]

StepNumbers == 1 .. 9

\* Which record the helper is, and which session it belongs to.
HelperInv ==
    /\ helper.run \in {"none", "ask", "shop", "legacy", "installer"}
    /\ helper.run = "none" => helper = Idle
    /\ helper.run = "ask" =>
          helper \in [run : {"ask"}, target : Internal \cap {Largest}]
    /\ helper.run = "shop" =>
          helper \in [run : {"shop"}, step : StepNumbers,
                      target : Internal \cap {Largest}, source : Disks]
    /\ helper.run = "legacy" =>
          helper \in [run : {"legacy"}, step : 1 .. 8, on : Disks,
                      job : JobRecords]
    /\ helper.run = "installer" =>
          helper \in [run : {"installer"}, on : Disks]
    /\ session \in {"off", "chooser", "installer"}
    /\ session = "off" => helper.run = "none"
    /\ session = "installer" <=> helper.run = "installer"

\* Only sticks are pulled, and not the one the session runs from; a session
\* from a stick has the stick's own payload.
PlugInv ==
    /\ plugged \subseteq Disks /\ Internal \subseteq plugged
    /\ live \in plugged \cup {None}
    /\ payload \in plugged \cup {None}
    /\ (live # None) = (session = "chooser")
    /\ live \in Usb => payload = live

\* What x, the contents of the disk d, is at every step.
Sound(x, d) ==
    /\ x \in DiskStates
    /\ x.files <= x.room
    /\ Readable(x.esp) /\ Readable(x.sys) /\ x.menu = "live" /\ x.root = d
          => x.data \in {"whole", "lost"}
    /\ x.done => /\ x.labels /\ {x.esp, x.sys, x.data} = {"whole"}
                 /\ x.stub = d /\ x.root = d /\ x.files > 0
    /\ x.job # None => x.job.image # x.job.target \/ x.job.toram
    /\ d # Largest => x.root \in {d, None} /\ (x.labels => x.files > 0)
    /\ d \in Usb => (Readable(x.sys) => Readable(x.data))

SoundInv ==
    /\ disk \in [Disks -> DiskStates]
    /\ \A d \in Disks : Sound(disk[d], d)

\* What the target x, the disk t, holds when a copy of y is at step n.
Copied(n, x, t, y) ==
    /\ n > 1 => ~x.done
    /\ n > 2 => x.labels /\ x.room = Size[t] - SysSize
    /\ n = 4 => ~Readable(x.esp)
    /\ n \in 4 .. 5 => x.sys = "empty"
    /\ n >= 5 => x.esp = "whole"
    /\ n >= 6 => x.sys = "whole"
    /\ n = 6 => x.root # t
    /\ n >= 7 => x.data = "whole" /\ x.files = y.files
    /\ n >= 8 => x.stub = t /\ x.root = t

\* A copy that runs was planned for two disks, neither of them the session's
\* own as a target, has room, and is as far as its step says.
CopyInv ==
    helper.run = "shop" =>
       /\ helper.source # helper.target
       /\ helper.target # live
       /\ disk[helper.source].labels
       /\ SysSize + disk[helper.source].files + Slack <= Size[helper.target]
       /\ Copied(helper.step, disk[helper.target], helper.target,
                 disk[helper.source])

\* The installer's job, from the plan on: from a stick the image is on the
\* stick; otherwise the target is the disk that it is prepared on.
JobInv ==
    helper.run = "legacy" =>
       /\ helper.on \in Usb => helper.job.image = helper.on
       /\ helper.on \notin Usb => helper.job.target = helper.on
       /\ helper.step > 2 /\ helper.job.target = helper.on => helper.job.toram

Inv == HelperInv /\ PlugInv /\ SoundInv /\ CopyInv /\ JobInv
-----------------------------------------------------------------------------
(* What a plan names.                                                      *)

\* FirstOf names a member of every set of disks that has one (disk.py takes
\* the first of a list).
LEMMA FirstOfMember ==
    ASSUME NEW S, S \subseteq Disks, S # {}
    PROVE  FirstOf(S) \in S
<1>. DEFINE places == {i \in DOMAIN LsblkOrder : LsblkOrder[i] \in S}
<1>1. places # {} /\ places \subseteq Nat
  <2>1. DOMAIN LsblkOrder \subseteq Nat
    BY OrderAssumption
  <2>. QED  BY <2>1, OrderAssumption
<1>2. PICK i \in places : \A j \in places : i <= j
  <2>1. PICK i \in places :
           \A j \in Nat : <<j, i>> \in OpToRel(<, Nat) => j \notin places
    <3>. HIDE DEF places
    <3>. QED  BY <1>1, NatLessThanWellFounded, WFMin
  <2>2. \A j \in places : ~(j < i)
    BY <1>1, <2>1 DEF OpToRel
  <2>3. i \in Nat /\ \A j \in places : j \in Nat
    BY <1>1
  <2>4. \A j \in places : i <= j
    <3>. HIDE DEF places
    <3>. QED  BY <2>2, <2>3
  <2>. QED  BY <2>4
<1>3. Min(places) \in places
  <2>. HIDE DEF places
  <2>. QED  BY <1>2 DEF Min
<1>. QED  BY <1>3 DEF FirstOf

LEMMA FirstOfNames ==
    ASSUME NEW S, S \subseteq Disks
    PROVE  FirstOf(S) \in S \cup {None}
  BY FirstOfMember DEF FirstOf

\* The source is plugged in, or there is none.
LEMMA SourceNamed ==
    ASSUME PlugInv
    PROVE  FindSourceDisk \in plugged \cup {None}
<1>1. FindUsbFbl \in plugged \cup {None}
  BY FirstOfNames DEF FindUsbFbl, PlugInv
<1>2. FirstOf(plugged \cap {payload}) \in plugged \cup {None}
  BY FirstOfNames DEF PlugInv
<1>. QED  BY <1>1, <1>2 DEF FindSourceDisk

\* With a stick as the source the plan names the largest internal disk, or
\* none when that one is too small (find_target_disk).
LEMMA TargetNamed ==
    ASSUME PlugInv, NEW source \in Usb, NEW need \in Nat,
           FindTargetDisk(source, need) # None
    PROVE  /\ FindTargetDisk(source, need) = Largest
           /\ Largest \in Internal
<1>. DEFINE fit == {d \in plugged \ (Usb \cup {source}) : Size[d] >= need}
            best == {d \in fit : \A e \in fit : Size[e] <= Size[d]}
            most == {d \in Internal : \A e \in Internal : Size[e] <= Size[d]}
<1>1. FindTargetDisk(source, need) = FirstOf(best)
  BY DEF FindTargetDisk
<1>2. PICK m \in best : TRUE
  BY <1>1 DEF FirstOf
<1>3. fit = {d \in Internal : Size[d] >= need}
  BY DEF PlugInv, Internal
<1>4. \A d \in Internal : Size[d] \in Nat
  BY DisksAssumption DEF Internal
<1>5. m \in Internal /\ Size[m] >= need
  BY <1>2, <1>3
<1>6. \A e \in Internal : Size[e] <= Size[m]
  BY <1>2, <1>3, <1>4, <1>5
<1>7. best = most
  <2>1. \A d \in best : d \in most
    BY <1>3, <1>4, <1>5, <1>6
  <2>2. \A d \in most : d \in best
    BY <1>3, <1>4, <1>5, <1>6
  <2>. QED  BY <2>1, <2>2
<1>8. FirstOf(most) \in most
  BY <1>5, <1>6, DisksAssumption, FirstOfMember DEF Internal
<1>. QED  BY <1>1, <1>7, <1>8 DEF Largest

LEMMA TargetInternal ==
    ASSUME PlugInv, NEW source, NEW need
    PROVE  FindTargetDisk(source, need) \in Internal \cup {None}
<1>. DEFINE fit == {d \in plugged \ (Usb \cup {source}) : Size[d] >= need}
            best == {d \in fit : \A e \in fit : Size[e] <= Size[d]}
<1>1. FirstOf(best) \in best \cup {None}
  <2>1. best \subseteq Disks
    BY DEF PlugInv
  <2>. QED  BY <2>1, FirstOfNames
<1>2. best \subseteq Internal
  BY DEF PlugInv, Internal
<1>. QED  BY <1>1, <1>2 DEF FindTargetDisk
-----------------------------------------------------------------------------
(* One disk at a time.                                                     *)

LEMMA BlankSound ==
    ASSUME NEW d \in Disks
    PROVE  Sound(Blank, d) /\ Sound([Blank EXCEPT !.os = TRUE], d)
<1>1. Blank \in DiskStates /\ [Blank EXCEPT !.os = TRUE] \in DiskStates
  BY DEF Blank, DiskStates, Parts
<1>2. ASSUME NEW x \in DiskStates,
             x.files = 0, x.room = 0, x.sys = "none", x.job = None,
             x.root = None, ~x.labels, ~x.done
      PROVE  Sound(x, d)
  BY <1>2 DEF Sound, Readable
<1>3. Sound(Blank, d)
  BY <1>1, <1>2 DEF Blank
<1>4. Sound([Blank EXCEPT !.os = TRUE], d)
  BY <1>1, <1>2 DEF Blank
<1>. QED  BY <1>3, <1>4

\* What the disks hold at first.
LEMMA MadeSound ==
    ASSUME NEW shelf \in Shelf, NEW d \in Disks
    PROVE  Sound(Made(d, shelf[d]), d)
<1>. DEFINE h == shelf[d]
<1>1. h \in [os : BOOLEAN, files : Nat, room : Nat] /\ h.files <= h.room
  BY ShelfAssumption
<1>2. CASE h.files = 0
  <2>1. Made(d, h) = [Blank EXCEPT !.os = h.os]
    BY <1>2 DEF Made
  <2>2. [Blank EXCEPT !.os = h.os] \in DiskStates
    BY <1>1 DEF Blank, DiskStates, Parts
  <2>3. /\ Made(d, h).files = 0 /\ Made(d, h).room = 0
        /\ Made(d, h).sys = "none" /\ Made(d, h).job = None
        /\ Made(d, h).root = None /\ ~Made(d, h).labels /\ ~Made(d, h).done
    BY <2>1 DEF Blank
  <2>. QED  BY <2>1, <2>2, <2>3 DEF Sound, Readable
<1>3. CASE h.files # 0
  <2>1. Made(d, h) \in DiskStates
    BY <1>1, <1>3 DEF Made, Blank, DiskStates, Parts
  <2>2. /\ Made(d, h).files = h.files /\ Made(d, h).room = h.room
        /\ Made(d, h).data = "whole" /\ Made(d, h).job = None
        /\ Made(d, h).root = d /\ ~Made(d, h).done
    BY <1>1, <1>3 DEF Made, Blank
  <2>. QED  BY <1>1, <1>3, <2>1, <2>2 DEF Sound, Readable
<1>. QED  BY <1>2, <1>3

\* The steps by their numbers.
LEMMA StepNames ==
    /\ Len(Steps) = 9
    /\ Steps[1] = "wipe" /\ Steps[2] = "table" /\ Steps[3] = "format"
    /\ Steps[4] = "esp" /\ Steps[5] = "sys" /\ Steps[6] = "data"
    /\ Steps[7] = "grub" /\ Steps[8] = "sync" /\ Steps[9] = "efi"
  BY DEF Steps

\* While a copy runs: the two disks, and what is known of them.
LEMMA CopyFacts ==
    ASSUME Inv, helper.run = "shop"
    PROVE  /\ helper.step \in StepNumbers
           /\ helper.target \in Internal /\ helper.target = Largest
           /\ helper.source \in Disks /\ helper.source # helper.target
           /\ helper.target \in Disks \ Usb
           /\ Sound(disk[helper.target], helper.target)
           /\ Sound(disk[helper.source], helper.source)
           /\ disk[helper.source].root # helper.target
           /\ disk[helper.source].files \in Nat \ {0}
           /\ Size[helper.target] \in Nat
<1>1. /\ helper.step \in StepNumbers
      /\ helper.target \in Internal /\ helper.target = Largest
      /\ helper.source \in Disks /\ helper.source # helper.target
  BY DEF Inv, HelperInv, CopyInv
<1>2. /\ Sound(disk[helper.target], helper.target)
      /\ Sound(disk[helper.source], helper.source)
      /\ disk[helper.source].labels
  BY <1>1 DEF Inv, SoundInv, CopyInv, Internal
<1>3. disk[helper.source].root # helper.target
  BY <1>1, <1>2, DisksAssumption DEF Sound, Internal
<1>4. disk[helper.source].files \in Nat \ {0}
  BY <1>1, <1>2 DEF Sound, DiskStates
<1>5. Size[helper.target] \in Nat
  BY <1>1, DisksAssumption DEF Internal
<1>. QED  BY <1>1, <1>2, <1>3, <1>4, <1>5 DEF Internal
-----------------------------------------------------------------------------
(* The steps of a copy.                                                    *)

Menus == {"none", "live", "installer", "torn"}

\* What the copy reads, and where to.
CopyOf(x, t, y) ==
    /\ x \in DiskStates /\ y \in DiskStates
    /\ y.root # t /\ y.files \in Nat \ {0}
    /\ t \in Disks \ Usb /\ t = Largest
    /\ Size[t] - SysSize \in Nat /\ y.files <= Size[t] - SysSize
    /\ Sound(x, t)

\* What each step makes of the target, one lemma for each.
LEMMA WipeAdvances ==
    ASSUME NEW x, NEW t, NEW y, CopyOf(x, t, y),
           NEW d, d = [x EXCEPT !.labels = FALSE, !.os = FALSE, !.done = FALSE]
    PROVE  Sound(d, t) /\ Copied(2, d, t, y)
<1>1. d \in DiskStates
  BY DEF DiskStates, CopyOf
<1>2. /\ d.esp = x.esp /\ d.sys = x.sys /\ d.data = x.data
      /\ d.stub = x.stub /\ d.menu = x.menu /\ d.root = x.root
      /\ d.files = x.files /\ d.room = x.room /\ d.job = x.job
      /\ ~d.labels /\ ~d.done
  BY DEF DiskStates, CopyOf
<1>3. Sound(d, t)
  BY <1>1, <1>2 DEF Sound, CopyOf, Readable
<1>4. Copied(2, d, t, y)
  BY <1>2 DEF Copied
<1>. QED  BY <1>3, <1>4

LEMMA TableAdvances ==
    ASSUME NEW x, NEW t, NEW y, CopyOf(x, t, y), Copied(2, x, t, y),
           NEW d, d = NewTable(x, Size[t] - SysSize)
    PROVE  Sound(d, t) /\ Copied(3, d, t, y) /\ ~d.done
<1>. DEFINE room == Size[t] - SysSize
<1>1. CASE x.room = room
  <2>1. d = [x EXCEPT !.labels = TRUE]
    BY <1>1 DEF NewTable
  <2>2. d \in DiskStates
    BY <2>1 DEF DiskStates, CopyOf
  <2>3. /\ d.esp = x.esp /\ d.sys = x.sys /\ d.data = x.data
        /\ d.stub = x.stub /\ d.menu = x.menu /\ d.root = x.root
        /\ d.files = x.files /\ d.room = x.room /\ d.job = x.job
        /\ d.labels /\ d.done = x.done
    BY <2>1 DEF DiskStates, CopyOf
  <2>4. Sound(d, t) /\ ~d.done
    BY <2>2, <2>3 DEF Sound, Copied, CopyOf, Readable
  <2>5. Copied(3, d, t, y)
    BY <1>1, <2>3, <2>4 DEF Copied
  <2>. QED  BY <2>4, <2>5
<1>2. CASE x.room # room
  <2>1. d = [Blank EXCEPT !.labels = TRUE, !.room = room]
    BY <1>2 DEF NewTable
  <2>2. d \in DiskStates
    <3>1. room \in Nat
      BY DEF CopyOf
    <3>2. Blank \in DiskStates
      BY DEF Blank, DiskStates, Parts
    <3>. HIDE DEF room
    <3>. QED  BY <2>1, <3>1, <3>2 DEF DiskStates
  <2>3. /\ d.esp = "none" /\ d.sys = "none" /\ d.data = "none"
        /\ d.stub = None /\ d.menu = "none" /\ d.root = None
        /\ d.files = 0 /\ d.room = room /\ d.job = None
        /\ d.labels /\ ~d.done
    BY <2>1 DEF Blank
  <2>4. Sound(d, t)
    BY <2>2, <2>3 DEF Sound, CopyOf, Readable
  <2>5. Copied(3, d, t, y)
    BY <2>3 DEF Copied
  <2>. QED  BY <2>3, <2>4, <2>5
<1>. QED  BY <1>1, <1>2

\* mkfs of FBL-ESP, of FBL-SYS too, and of all three.
LEMMA FormatAdvances ==
    ASSUME NEW x, NEW t, NEW y, CopyOf(x, t, y), Copied(3, x, t, y),
           NEW d \in {MkfsEsp(x), MkfsSys(MkfsEsp(x)),
                      MkfsData(MkfsSys(MkfsEsp(x)))}
    PROVE  /\ Sound(d, t) /\ ~d.done
           /\ d = MkfsData(MkfsSys(MkfsEsp(x))) => Copied(4, d, t, y)
<1>1. x \in DiskStates /\ ~x.done
  BY DEF CopyOf, Copied
<1>. DEFINE a == MkfsEsp(x)
            b == MkfsSys(a)
            c == MkfsData(b)
<1>2. /\ a \in DiskStates /\ a.esp = "empty" /\ a.data = x.data /\ a.sys = x.sys
      /\ a.files = x.files /\ a.room = x.room /\ a.job = x.job /\ a.root = x.root
      /\ a.labels = x.labels /\ ~a.done
  BY <1>1 DEF MkfsEsp, DiskStates, Parts
<1>. HIDE DEF a
<1>3. /\ b \in DiskStates /\ b.esp = "empty" /\ b.data = a.data /\ b.sys = "empty"
      /\ b.files = a.files /\ b.room = a.room /\ b.job = None /\ b.root = None
      /\ b.labels = a.labels /\ ~b.done
  BY <1>2 DEF MkfsSys, DiskStates, Parts
<1>. HIDE DEF b
<1>4. /\ c \in DiskStates /\ c.esp = "empty" /\ c.data = "empty" /\ c.sys = "empty"
      /\ c.files = 0 /\ c.room = b.room /\ c.job = None /\ c.root = None
      /\ c.labels = b.labels /\ ~c.done
  BY <1>3 DEF MkfsData, DiskStates, Parts
<1>. HIDE DEF c
<1>5. Sound(a, t)
  BY <1>2 DEF Sound, CopyOf, Readable
<1>6. Sound(b, t)
  BY <1>2, <1>3, <1>5 DEF Sound, CopyOf, Readable
<1>7. Sound(c, t)
  BY <1>3, <1>4, <1>6 DEF Sound, CopyOf, DiskStates, Readable
<1>8. Copied(4, c, t, y)
  BY <1>2, <1>3, <1>4 DEF Copied, Readable
<1>9. d \in {a, b, c} /\ (d = MkfsData(MkfsSys(MkfsEsp(x))) => d = c)
  BY DEF a, b, c
<1>. QED  BY <1>2, <1>3, <1>4, <1>5, <1>6, <1>7, <1>8, <1>9

LEMMA EspAdvances ==
    ASSUME NEW x, NEW t, NEW y, CopyOf(x, t, y), Copied(4, x, t, y),
           NEW d, d = [x EXCEPT !.esp = "whole", !.stub = y.stub, !.done = FALSE]
    PROVE  Sound(d, t) /\ Copied(5, d, t, y)
<1>1. d \in DiskStates
  BY DEF DiskStates, CopyOf, Parts
<1>2. /\ d.esp = "whole" /\ d.sys = x.sys /\ d.data = x.data
      /\ d.stub = y.stub /\ d.menu = x.menu /\ d.root = x.root
      /\ d.files = x.files /\ d.room = x.room /\ d.job = x.job
      /\ d.labels = x.labels /\ ~d.done
  BY DEF DiskStates, CopyOf
<1>3. Sound(d, t)
  BY <1>1, <1>2 DEF Sound, Copied, CopyOf, Readable
<1>4. Copied(5, d, t, y)
  BY <1>2 DEF Copied, CopyOf, Readable
<1>. QED  BY <1>3, <1>4

LEMMA SysAdvances ==
    ASSUME NEW x, NEW t, NEW y, CopyOf(x, t, y), Copied(5, x, t, y),
           NEW d, d = [x EXCEPT !.sys = "whole", !.menu = y.menu, !.root = y.root,
                       !.done = FALSE]
    PROVE  Sound(d, t) /\ Copied(6, d, t, y)
<1>1. d \in DiskStates
  <2>1. x \in DiskStates
    BY DEF CopyOf
  <2>2. /\ y.root \in Disks \cup {None}
        /\ y.menu \in {"none", "live", "installer", "torn"}
    BY DEF CopyOf, DiskStates
  <2>. QED  BY <2>1, <2>2 DEF DiskStates, Parts
<1>2. /\ d.esp = x.esp /\ d.sys = "whole" /\ d.data = x.data
      /\ d.stub = x.stub /\ d.menu = y.menu /\ d.root = y.root
      /\ d.files = x.files /\ d.room = x.room /\ d.job = x.job
      /\ d.labels = x.labels /\ ~d.done
  BY DEF DiskStates, CopyOf
<1>3. Sound(d, t)
  BY <1>1, <1>2 DEF Sound, Copied, CopyOf, Readable
<1>4. Copied(6, d, t, y)
  BY <1>2 DEF Copied, CopyOf, Readable
<1>. QED  BY <1>3, <1>4

LEMMA DataAdvances ==
    ASSUME NEW x, NEW t, NEW y, CopyOf(x, t, y), Copied(6, x, t, y),
           NEW d, d = [x EXCEPT !.data = "whole", !.files = y.files,
                       !.done = FALSE]
    PROVE  Sound(d, t) /\ Copied(7, d, t, y)
<1>1. d \in DiskStates
  <2>1. x \in DiskStates /\ y.files \in Nat
    BY DEF CopyOf
  <2>. QED  BY <2>1 DEF DiskStates, Parts
<1>2. /\ d.esp = x.esp /\ d.sys = x.sys /\ d.data = "whole"
      /\ d.stub = x.stub /\ d.menu = x.menu /\ d.root = x.root
      /\ d.files = y.files /\ d.room = x.room /\ d.job = x.job
      /\ d.labels = x.labels /\ ~d.done
  BY DEF DiskStates, CopyOf
<1>3. Sound(d, t)
  BY <1>1, <1>2 DEF Sound, Copied, CopyOf, Readable
<1>4. Copied(7, d, t, y)
  BY <1>2 DEF Copied, CopyOf, Readable
<1>. QED  BY <1>3, <1>4

LEMMA GrubAdvances ==
    ASSUME NEW x, NEW t, NEW y, CopyOf(x, t, y), Copied(7, x, t, y),
           NEW d, d = [x EXCEPT !.stub = t, !.menu = "live", !.root = t,
                       !.done = FALSE]
    PROVE  Sound(d, t) /\ Copied(8, d, t, y)
<1>1. d \in DiskStates
  <2>1. x \in DiskStates /\ t \in Disks
    BY DEF CopyOf
  <2>. QED  BY <2>1 DEF DiskStates, Parts
<1>2. /\ d.esp = x.esp /\ d.sys = x.sys /\ d.data = x.data
      /\ d.stub = t /\ d.menu = "live" /\ d.root = t
      /\ d.files = x.files /\ d.room = x.room /\ d.job = x.job
      /\ d.labels = x.labels /\ ~d.done
  BY DEF DiskStates, CopyOf
<1>3. Sound(d, t)
  BY <1>1, <1>2 DEF Sound, Copied, CopyOf, Readable
<1>4. Copied(8, d, t, y)
  BY <1>2 DEF Copied, CopyOf, Readable
<1>. QED  BY <1>3, <1>4

LEMMA SyncAdvances ==
    ASSUME NEW x, NEW t, NEW y, CopyOf(x, t, y), Copied(8, x, t, y),
           NEW d, d = [x EXCEPT !.done = FALSE]
    PROVE  Sound(d, t) /\ Copied(9, d, t, y)
<1>1. d \in DiskStates
  BY DEF DiskStates, CopyOf, Parts
<1>2. /\ d.esp = x.esp /\ d.sys = x.sys /\ d.data = x.data
      /\ d.stub = x.stub /\ d.menu = x.menu /\ d.root = x.root
      /\ d.files = x.files /\ d.room = x.room /\ d.job = x.job
      /\ d.labels = x.labels /\ ~d.done
  BY DEF DiskStates, CopyOf
<1>3. Sound(d, t)
  BY <1>1, <1>2 DEF Sound, Copied, CopyOf, Readable
<1>4. Copied(9, d, t, y)
  BY <1>2 DEF Copied, CopyOf, Readable
<1>. QED  BY <1>3, <1>4

LEMMA EfiAdvances ==
    ASSUME NEW x, NEW t, NEW y, CopyOf(x, t, y), Copied(9, x, t, y),
           NEW d, d = [x EXCEPT !.done = TRUE]
    PROVE  Sound(d, t)
<1>1. d \in DiskStates
  BY DEF DiskStates, CopyOf, Parts
<1>2. /\ d.esp = x.esp /\ d.sys = x.sys /\ d.data = x.data
      /\ d.stub = x.stub /\ d.menu = x.menu /\ d.root = x.root
      /\ d.files = x.files /\ d.room = x.room /\ d.job = x.job
      /\ d.labels = x.labels /\ d.done
  BY DEF DiskStates, CopyOf
<1>3. Sound(d, t)
  BY <1>1, <1>2 DEF Sound, Copied, CopyOf, Readable
<1>. QED  BY <1>3
-----------------------------------------------------------------------------
(* What a step that stops half-way leaves.                                 *)

LEMMA EspPart ==
    ASSUME NEW x, NEW t, NEW y, CopyOf(x, t, y), Copied(4, x, t, y), NEW stub \in {None, y.stub},
           NEW d, d = [x EXCEPT !.esp = "part", !.stub = stub]
    PROVE  Sound(d, t) /\ ~d.done
<1>1. d \in DiskStates
  <2>1. x \in DiskStates /\ stub \in Disks \cup {None}
    BY DEF CopyOf, DiskStates
  <2>. QED  BY <2>1 DEF DiskStates, Parts
<1>2. /\ d.esp = "part" /\ d.sys = x.sys /\ d.data = x.data
      /\ d.stub = stub /\ d.menu = x.menu /\ d.root = x.root
      /\ d.files = x.files /\ d.room = x.room /\ d.job = x.job
      /\ d.done = x.done
  BY DEF DiskStates, CopyOf
<1>. QED  BY <1>1, <1>2 DEF Sound, Copied, CopyOf, Readable

LEMMA SysPart ==
    ASSUME NEW x, NEW t, NEW y, CopyOf(x, t, y), Copied(5, x, t, y),
           NEW d, d = [x EXCEPT !.sys = "part", !.menu = y.menu, !.root = y.root]
    PROVE  Sound(d, t) /\ ~d.done
<1>1. d \in DiskStates
  <2>1. x \in DiskStates
    BY DEF CopyOf
  <2>2. /\ y.root \in Disks \cup {None}
        /\ y.menu \in {"none", "live", "installer", "torn"}
    BY DEF CopyOf, DiskStates
  <2>. QED  BY <2>1, <2>2 DEF DiskStates, Parts
<1>2. /\ d.esp = x.esp /\ d.sys = "part" /\ d.data = x.data
      /\ d.stub = x.stub /\ d.menu = y.menu /\ d.root = y.root
      /\ d.files = x.files /\ d.room = x.room /\ d.job = x.job
      /\ d.done = x.done
  BY DEF DiskStates, CopyOf
<1>. QED  BY <1>1, <1>2 DEF Sound, Copied, CopyOf, Readable

LEMMA DataPart ==
    ASSUME NEW x, NEW t, NEW y, CopyOf(x, t, y), Copied(6, x, t, y), NEW files \in {0, y.files},
           NEW d, d = [x EXCEPT !.data = "part", !.files = files]
    PROVE  Sound(d, t) /\ ~d.done
<1>1. d \in DiskStates
  <2>1. x \in DiskStates /\ files \in Nat
    BY DEF CopyOf, DiskStates
  <2>. QED  BY <2>1 DEF DiskStates, Parts
<1>2. /\ d.esp = x.esp /\ d.sys = x.sys /\ d.data = "part"
      /\ d.stub = x.stub /\ d.menu = x.menu /\ d.root = x.root
      /\ d.files = files /\ d.room = x.room /\ d.job = x.job
      /\ d.done = x.done
  BY DEF DiskStates, CopyOf
<1>. QED  BY <1>1, <1>2 DEF Sound, Copied, CopyOf, Readable

LEMMA StubWritten ==
    ASSUME NEW x, NEW t, NEW y, CopyOf(x, t, y), Copied(7, x, t, y),
           NEW d, d = [x EXCEPT !.stub = t]
    PROVE  Sound(d, t) /\ ~d.done
<1>1. d \in DiskStates
  <2>1. x \in DiskStates /\ t \in Disks
    BY DEF CopyOf, DiskStates
  <2>. QED  BY <2>1 DEF DiskStates, Parts
<1>2. /\ d.esp = x.esp /\ d.sys = x.sys /\ d.data = x.data
      /\ d.stub = t /\ d.menu = x.menu /\ d.root = x.root
      /\ d.files = x.files /\ d.room = x.room /\ d.job = x.job
      /\ d.done = x.done
  BY DEF DiskStates, CopyOf
<1>. QED  BY <1>1, <1>2 DEF Sound, Copied, CopyOf, Readable

LEMMA MenuTorn ==
    ASSUME NEW x, NEW t, NEW y, CopyOf(x, t, y), Copied(7, x, t, y),
           NEW d, d = [x EXCEPT !.stub = t, !.menu = "torn"]
    PROVE  Sound(d, t) /\ ~d.done
<1>1. d \in DiskStates
  <2>1. x \in DiskStates /\ t \in Disks
    BY DEF CopyOf, DiskStates
  <2>. QED  BY <2>1 DEF DiskStates, Parts
<1>2. /\ d.esp = x.esp /\ d.sys = x.sys /\ d.data = x.data
      /\ d.stub = t /\ d.menu = "torn" /\ d.root = x.root
      /\ d.files = x.files /\ d.room = x.room /\ d.job = x.job
      /\ d.done = x.done
  BY DEF DiskStates, CopyOf
<1>. QED  BY <1>1, <1>2 DEF Sound, Copied, CopyOf, Readable

\* Lost in a power cut: a copy that was not finished is still sound.
LEMMA LostSound ==
    ASSUME NEW d, NEW t \in Disks \ Usb, Sound(d, t), ~d.done,
           NEW esp \in {d.esp, "part"}, NEW sys \in {d.sys, "part"},
           NEW data \in {d.data} \cup (IF d.data = "whole" THEN {"lost"} ELSE {}),
           esp = "part" => Readable(d.esp),
           sys = "part" => Readable(d.sys),
           NEW e, e = [d EXCEPT !.esp = esp, !.sys = sys, !.data = data]
    PROVE  Sound(e, t)
<1>1. d \in DiskStates
  BY DEF Sound
<1>2. esp \in Parts /\ sys \in Parts /\ data \in Parts
  BY <1>1 DEF DiskStates, Parts
<1>3. e \in DiskStates
  BY <1>1, <1>2 DEF DiskStates
<1>4. /\ e.esp = esp /\ e.sys = sys /\ e.data = data
      /\ e.menu = d.menu /\ e.root = d.root /\ e.labels = d.labels
      /\ e.files = d.files /\ e.room = d.room /\ e.job = d.job
      /\ e.done = d.done
  BY <1>1 DEF DiskStates
<1>5. e.esp # d.esp => Readable(d.esp)
  BY <1>4
<1>6. e.sys # d.sys => Readable(d.sys)
  BY <1>4
<1>7. e.data # d.data => e.data = "lost" /\ d.data = "whole"
  BY <1>4
<1>. QED  BY <1>3, <1>4, <1>5, <1>6, <1>7 DEF Sound, Readable
-----------------------------------------------------------------------------
(* The copy's actions.                                                     *)

LEMMA CopyRuns ==
    ASSUME Inv, helper.run = "shop"
    PROVE  /\ CopyOf(disk[helper.target], helper.target, disk[helper.source])
           /\ Copied(helper.step, disk[helper.target], helper.target,
                     disk[helper.source])
           /\ helper.step \in StepNumbers
<1>1. /\ Copied(helper.step, disk[helper.target], helper.target,
                disk[helper.source])
      /\ SysSize + disk[helper.source].files + Slack <= Size[helper.target]
  BY DEF Inv, CopyInv
<1>2. /\ disk[helper.target] \in DiskStates
      /\ disk[helper.source] \in DiskStates
  BY CopyFacts DEF Sound
<1>3. disk[helper.source].files \in Nat /\ Size[helper.target] \in Nat
      /\ Slack \in Nat /\ SysSize \in Nat
  BY CopyFacts, DisksAssumption
<1>. QED  BY <1>1, <1>2, <1>3, CopyFacts DEF CopyOf

LEMMA NotDone ==
    ASSUME NEW d, NEW t, Sound(d, t), ~d.done
    PROVE  [d EXCEPT !.done = FALSE] = d
  BY DEF Sound, DiskStates

\* Every step leaves a sound target, as far on as the next step expects.
LEMMA StepAdvances ==
    ASSUME Inv, helper.run = "shop",
           NEW w, w = After(StepOf, helper.target, helper.source)
    PROVE  /\ helper.step = 9 =>
                 Sound([w EXCEPT !.done = TRUE], helper.target)
           /\ helper.step < 9 =>
                 LET d == [w EXCEPT !.done = FALSE]
                 IN  /\ Sound(d, helper.target)
                     /\ Copied(helper.step + 1, d, helper.target,
                               disk[helper.source])
<1>. DEFINE t == helper.target
            x == disk[t]
            y == disk[helper.source]
<1>1. CopyOf(x, t, y) /\ Copied(helper.step, x, t, y)
  BY CopyRuns
<1>2. CASE helper.step = 1
  <2>1. [w EXCEPT !.done = FALSE]
          = [x EXCEPT !.labels = FALSE, !.os = FALSE, !.done = FALSE]
    BY <1>2, StepNames DEF After, StepOf
  <2>2. CopyOf(x, t, y)
    BY <1>1
  <2>. HIDE DEF x, y, t
  <2>3. Sound([w EXCEPT !.done = FALSE], t)
        /\ Copied(2, [w EXCEPT !.done = FALSE], t, y)
    BY <2>1, <2>2, WipeAdvances
  <2>. QED  BY <1>2, <2>3 DEF t, y
<1>3. CASE helper.step = 2
  <2>1. w = NewTable(x, Size[t] - SysSize)
    BY <1>3, StepNames DEF After, StepOf
  <2>2. CopyOf(x, t, y) /\ Copied(2, x, t, y)
    BY <1>1, <1>3
  <2>. HIDE DEF x, y, t
  <2>3. Sound(w, t) /\ Copied(3, w, t, y) /\ ~w.done
    BY <2>1, <2>2, TableAdvances
  <2>4. [w EXCEPT !.done = FALSE] = w
    BY <2>3, NotDone
  <2>. QED  BY <1>3, <2>3, <2>4 DEF t, y
<1>4. CASE helper.step = 3
  <2>1. w = MkfsData(MkfsSys(MkfsEsp(x)))
    BY <1>4, StepNames DEF After, StepOf
  <2>2. CopyOf(x, t, y) /\ Copied(3, x, t, y)
    BY <1>1, <1>4
  <2>. HIDE DEF x, y, t
  <2>3. Sound(w, t) /\ Copied(4, w, t, y) /\ ~w.done
    BY <2>1, <2>2, FormatAdvances
  <2>4. [w EXCEPT !.done = FALSE] = w
    BY <2>3, NotDone
  <2>. QED  BY <1>4, <2>3, <2>4 DEF t, y
<1>5. CASE helper.step = 4
  <2>1. [w EXCEPT !.done = FALSE]
          = [x EXCEPT !.esp = "whole", !.stub = y.stub, !.done = FALSE]
    BY <1>5, StepNames DEF After, StepOf
  <2>2. CopyOf(x, t, y) /\ Copied(4, x, t, y)
    BY <1>1, <1>5
  <2>. HIDE DEF x, y, t
  <2>3. Sound([w EXCEPT !.done = FALSE], t)
        /\ Copied(5, [w EXCEPT !.done = FALSE], t, y)
    BY <2>1, <2>2, EspAdvances
  <2>. QED  BY <1>5, <2>3 DEF t, y
<1>6. CASE helper.step = 5
  <2>1. [w EXCEPT !.done = FALSE]
          = [x EXCEPT !.sys = "whole", !.menu = y.menu, !.root = y.root,
               !.done = FALSE]
    BY <1>6, StepNames DEF After, StepOf
  <2>2. CopyOf(x, t, y) /\ Copied(5, x, t, y)
    BY <1>1, <1>6
  <2>. HIDE DEF x, y, t
  <2>3. Sound([w EXCEPT !.done = FALSE], t)
        /\ Copied(6, [w EXCEPT !.done = FALSE], t, y)
    BY <2>1, <2>2, SysAdvances
  <2>. QED  BY <1>6, <2>3 DEF t, y
<1>7. CASE helper.step = 6
  <2>1. [w EXCEPT !.done = FALSE]
          = [x EXCEPT !.data = "whole", !.files = y.files,
               !.done = FALSE]
    BY <1>7, StepNames DEF After, StepOf
  <2>2. CopyOf(x, t, y) /\ Copied(6, x, t, y)
    BY <1>1, <1>7
  <2>. HIDE DEF x, y, t
  <2>3. Sound([w EXCEPT !.done = FALSE], t)
        /\ Copied(7, [w EXCEPT !.done = FALSE], t, y)
    BY <2>1, <2>2, DataAdvances
  <2>. QED  BY <1>7, <2>3 DEF t, y
<1>8. CASE helper.step = 7
  <2>1. [w EXCEPT !.done = FALSE]
          = [x EXCEPT !.stub = t, !.menu = "live", !.root = t,
               !.done = FALSE]
    BY <1>8, StepNames DEF After, StepOf, RewriteGrub
  <2>2. CopyOf(x, t, y) /\ Copied(7, x, t, y)
    BY <1>1, <1>8
  <2>. HIDE DEF x, y, t
  <2>3. Sound([w EXCEPT !.done = FALSE], t)
        /\ Copied(8, [w EXCEPT !.done = FALSE], t, y)
    BY <2>1, <2>2, GrubAdvances
  <2>. QED  BY <1>8, <2>3 DEF t, y
<1>9. CASE helper.step = 8
  <2>1. [w EXCEPT !.done = FALSE]
          = [x EXCEPT !.done = FALSE]
    BY <1>9, StepNames DEF After, StepOf
  <2>2. CopyOf(x, t, y) /\ Copied(8, x, t, y)
    BY <1>1, <1>9
  <2>. HIDE DEF x, y, t
  <2>3. Sound([w EXCEPT !.done = FALSE], t)
        /\ Copied(9, [w EXCEPT !.done = FALSE], t, y)
    BY <2>1, <2>2, SyncAdvances
  <2>. QED  BY <1>9, <2>3 DEF t, y
<1>10. CASE helper.step = 9
  <2>1. [w EXCEPT !.done = TRUE]
          = [x EXCEPT !.done = TRUE]
    BY <1>10, StepNames DEF After, StepOf
  <2>2. CopyOf(x, t, y) /\ Copied(9, x, t, y)
    BY <1>1, <1>10
  <2>. HIDE DEF x, y, t
  <2>3. Sound([w EXCEPT !.done = TRUE], t)
    BY <2>1, <2>2, EfiAdvances
  <2>. QED  BY <1>10, <2>3 DEF t, y
<1>. QED  BY CopyRuns, <1>2, <1>3, <1>4, <1>5, <1>6, <1>7, <1>8, <1>9, <1>10 DEF StepNumbers

\* A step that fails, or that the power stops, leaves a sound target.
LEMMA HalfSound ==
    ASSUME Inv, helper.run = "shop",
           NEW d \in Half(StepOf, helper.target, helper.source)
    PROVE  Sound(d, helper.target) /\ (helper.step > 1 => ~d.done)
<1>. DEFINE t == helper.target
            x == disk[t]
            y == disk[helper.source]
<1>1. CopyOf(x, t, y) /\ Copied(helper.step, x, t, y)
  BY CopyRuns
<1>2. CASE d = x
  BY <1>1, <1>2 DEF CopyOf, Copied
<1>3. CASE helper.step = 1 /\ d # x
  <2>1. d = [x EXCEPT !.labels = FALSE, !.os = FALSE, !.done = FALSE]
    BY <1>3, StepNames DEF Half, StepOf, After
  <2>2. CopyOf(x, t, y)
    BY <1>1
  <2>. HIDE DEF x, y, t
  <2>3. Sound(d, t)
    BY <2>1, <2>2, WipeAdvances
  <2>. QED  BY <1>3, <2>3 DEF t
<1>4. CASE helper.step = 2 /\ d # x
  <2>1. d = NewTable(x, Size[t] - SysSize)
    BY <1>4, StepNames DEF Half, StepOf, After
  <2>2. CopyOf(x, t, y) /\ Copied(2, x, t, y)
    BY <1>1, <1>4
  <2>. HIDE DEF x, y, t
  <2>3. Sound(d, t) /\ ~d.done
    BY <2>1, <2>2, TableAdvances
  <2>. QED  BY <2>3 DEF t
<1>5. CASE helper.step = 3 /\ d # x
  <2>1. d \in {MkfsEsp(x), MkfsSys(MkfsEsp(x)), MkfsData(MkfsSys(MkfsEsp(x)))}
    BY <1>5, StepNames DEF Half, StepOf, After
  <2>2. CopyOf(x, t, y) /\ Copied(3, x, t, y)
    BY <1>1, <1>5
  <2>. HIDE DEF x, y, t
  <2>3. Sound(d, t) /\ ~d.done
    BY <2>1, <2>2, FormatAdvances
  <2>. QED  BY <2>3 DEF t
<1>6. CASE helper.step = 4 /\ d # x
  <2>1. PICK stub \in {None, y.stub} : d = [x EXCEPT !.esp = "part", !.stub = stub]
    BY <1>6, StepNames DEF Half, StepOf
  <2>2. CopyOf(x, t, y) /\ Copied(4, x, t, y)
    BY <1>1, <1>6
  <2>. HIDE DEF x, y, t
  <2>3. Sound(d, t) /\ ~d.done
    BY <2>1, <2>2, EspPart
  <2>. QED  BY <2>3 DEF t
<1>7. CASE helper.step = 5 /\ d # x
  <2>1. d = [x EXCEPT !.sys = "part", !.menu = y.menu, !.root = y.root]
    BY <1>7, StepNames DEF Half, StepOf, After
  <2>2. CopyOf(x, t, y) /\ Copied(5, x, t, y)
    BY <1>1, <1>7
  <2>. HIDE DEF x, y, t
  <2>3. Sound(d, t) /\ ~d.done
    BY <2>1, <2>2, SysPart
  <2>. QED  BY <2>3 DEF t
<1>8. CASE helper.step = 6 /\ d # x
  <2>1. PICK files \in {0, y.files} : d = [x EXCEPT !.data = "part", !.files = files]
    BY <1>8, StepNames DEF Half, StepOf
  <2>2. CopyOf(x, t, y) /\ Copied(6, x, t, y)
    BY <1>1, <1>8
  <2>. HIDE DEF x, y, t
  <2>3. Sound(d, t) /\ ~d.done
    BY <2>1, <2>2, DataPart
  <2>. QED  BY <2>3 DEF t
<1>9. CASE helper.step = 7 /\ d # x
  <2>1. d = [x EXCEPT !.stub = t]
           \/ d = [x EXCEPT !.stub = t, !.menu = "torn"]
    BY <1>9, StepNames DEF Half, StepOf
  <2>2. CopyOf(x, t, y) /\ Copied(7, x, t, y)
    BY <1>1, <1>9
  <2>. HIDE DEF x, y, t
  <2>3. Sound(d, t) /\ ~d.done
    BY <2>1, <2>2, StubWritten, MenuTorn
  <2>. QED  BY <2>3 DEF t
<1>10. CASE helper.step = 8
  <2>1. d = x
    BY <1>10, StepNames DEF Half, StepOf
  <2>. QED  BY <1>2, <2>1
<1>11. CASE helper.step = 9
  <2>1. d = x
    BY <1>11, StepNames DEF Half, StepOf
  <2>. QED  BY <1>2, <2>1
<1>. QED  BY CopyRuns, <1>2, <1>3, <1>4, <1>5, <1>6, <1>7, <1>8, <1>9, <1>10, <1>11 DEF StepNumbers

LEMMA CutSound ==
    ASSUME Inv, helper.run = "shop", NEW e \in ShopCut
    PROVE  Sound(e, helper.target)
<1>1. PICK d \in Half(StepOf, helper.target, helper.source) :
         e \in Unsynced(StepOf, d)
  BY DEF ShopCut
<1>2. Sound(d, helper.target) /\ (helper.step > 1 => ~d.done)
  BY <1>1, HalfSound
<1>3. CASE StepOf \notin {"esp", "sys", "data", "grub", "sync"}
  BY <1>1, <1>2, <1>3 DEF Unsynced
<1>4. CASE StepOf \in {"esp", "sys", "data", "grub", "sync"}
  <2>1. helper.step > 1
    BY <1>4, StepNames, CopyRuns DEF StepOf, StepNumbers
  <2>. DEFINE A == {d.esp} \cup (IF d.esp = "whole" THEN {"part"} ELSE {})
              B == {d.sys} \cup (IF d.sys = "whole" THEN {"part"} ELSE {})
              C == {d.data} \cup (IF d.data = "whole" THEN {"lost"} ELSE {})
              Lost(a, b, c) == [d EXCEPT !.esp = a, !.sys = b, !.data = c]
  <2>5. Unsynced(StepOf, d) = {Lost(a, b, c) : a \in A, b \in B, c \in C}
    BY <1>4 DEF Unsynced
  <2>2. PICK esp \in A, sys \in B, data \in C : e = Lost(esp, sys, data)
    <3>. HIDE DEF A, B, C, Lost
    <3>. QED  BY <1>1, <2>5
  <2>3. /\ esp \in {d.esp, "part"} /\ (esp = "part" => Readable(d.esp))
        /\ sys \in {d.sys, "part"} /\ (sys = "part" => Readable(d.sys))
    BY <2>2 DEF Readable
  <2>4. helper.target \in Disks \ Usb
    BY CopyFacts
  <2>. QED  BY <1>2, <2>1, <2>2, <2>3, <2>4, LostSound
<1>. QED  BY <1>3, <1>4
-----------------------------------------------------------------------------
(* The installer's files.                                                  *)

LEMMA LegacyNames ==
    /\ LegacySteps[1] = "verify" /\ LegacySteps[2] = "memory"
    /\ LegacySteps[3] = "kernel" /\ LegacySteps[4] = "initrd"
    /\ LegacySteps[5] = "seed" /\ LegacySteps[6] = "menu"
    /\ LegacySteps[7] = "after" /\ LegacySteps[8] = "sync"
  BY DEF LegacySteps

\* Other contents of /boot/osinstall leave a disk sound, and so does another
\* menu that does not start the chooser.
LEMMA KernelSound ==
    ASSUME NEW on \in Disks, NEW x, Sound(x, on),
           NEW kernel \in Packs \cup {None, "torn"},
           NEW d, d = [x EXCEPT !.kernel = kernel]
    PROVE  Sound(d, on)
<1>1. x \in DiskStates
  BY DEF Sound
<1>2. d \in DiskStates
  BY <1>1 DEF DiskStates
<1>3. /\ d.esp = x.esp /\ d.sys = x.sys /\ d.data = x.data /\ d.stub = x.stub
      /\ d.menu = x.menu /\ d.root = x.root /\ d.job = x.job
      /\ d.files = x.files /\ d.room = x.room
      /\ d.done = x.done /\ d.labels = x.labels
  BY <1>1 DEF DiskStates
<1>. QED  BY <1>2, <1>3 DEF Sound, Readable

LEMMA InitrdSound ==
    ASSUME NEW on \in Disks, NEW x, Sound(x, on),
           NEW initrd \in [pack : Packs, seeded : BOOLEAN] \cup {None},
           NEW d, d = [x EXCEPT !.initrd = initrd]
    PROVE  Sound(d, on)
<1>1. x \in DiskStates
  BY DEF Sound
<1>2. d \in DiskStates
  BY <1>1 DEF DiskStates
<1>3. /\ d.esp = x.esp /\ d.sys = x.sys /\ d.data = x.data /\ d.stub = x.stub
      /\ d.menu = x.menu /\ d.root = x.root /\ d.job = x.job
      /\ d.files = x.files /\ d.room = x.room
      /\ d.done = x.done /\ d.labels = x.labels
  BY <1>1 DEF DiskStates
<1>. QED  BY <1>2, <1>3 DEF Sound, Readable

LEMMA TornSound ==
    ASSUME NEW on \in Disks, NEW x, Sound(x, on),
           NEW d, d = [x EXCEPT !.menu = "torn"]
    PROVE  Sound(d, on)
<1>1. x \in DiskStates
  BY DEF Sound
<1>2. d \in DiskStates
  BY <1>1 DEF DiskStates
<1>3. /\ d.esp = x.esp /\ d.sys = x.sys /\ d.data = x.data /\ d.stub = x.stub
      /\ d.menu = "torn" /\ d.root = x.root /\ d.job = x.job
      /\ d.files = x.files /\ d.room = x.room
      /\ d.done = x.done /\ d.labels = x.labels
  BY <1>1 DEF DiskStates
<1>. QED  BY <1>2, <1>3 DEF Sound, Readable

LEMMA InstallerSound ==
    ASSUME NEW on \in Disks, NEW x, Sound(x, on),
           NEW job \in JobRecords, job.image # job.target \/ job.toram,
           NEW d, d = [x EXCEPT !.menu = "installer", !.root = on, !.job = job]
    PROVE  Sound(d, on)
<1>1. x \in DiskStates
  BY DEF Sound
<1>2. d \in DiskStates
  BY <1>1 DEF DiskStates
<1>3. /\ d.esp = x.esp /\ d.sys = x.sys /\ d.data = x.data /\ d.stub = x.stub
      /\ d.menu = "installer" /\ d.root = on /\ d.job = job
      /\ d.files = x.files /\ d.room = x.room
      /\ d.done = x.done /\ d.labels = x.labels
  BY <1>1 DEF DiskStates
<1>. QED  BY <1>2, <1>3 DEF Sound, Readable

\* What a job is once the memory has been asked for.
LEMMA JobOutlives ==
    ASSUME Inv, helper.run = "legacy"
    PROVE  /\ helper.on \in Disks /\ helper.job \in JobRecords
           /\ helper.step \in 1 .. 8
           /\ Sound(disk[helper.on], helper.on)
           /\ helper.step > 2 =>
                 helper.job.image # helper.job.target \/ helper.job.toram
<1>1. /\ helper.on \in Disks /\ helper.job \in JobRecords
      /\ helper.step \in 1 .. 8
  BY DEF Inv, HelperInv
<1>2. Sound(disk[helper.on], helper.on)
  BY <1>1 DEF Inv, SoundInv
<1>3. helper.job.target \notin Usb
  BY <1>1 DEF JobRecords, Internal
<1>. QED  BY <1>1, <1>2, <1>3 DEF Inv, JobInv

LEMMA LegacyWriteSound ==
    ASSUME Inv, helper.run = "legacy",
           LegacyStep \in {"verify", "kernel", "initrd", "seed", "menu"}
    PROVE  Sound(AfterLegacy(LegacyStep, disk[helper.on], helper.job),
                 helper.on)
<1>. DEFINE x == disk[helper.on]
            d == AfterLegacy(LegacyStep, x, helper.job)
<1>1. helper.job.pack \in Packs
  BY JobOutlives DEF JobRecords
<1>2. CASE LegacyStep = "verify"
  BY <1>2, JobOutlives DEF AfterLegacy
<1>3. CASE LegacyStep \in {"kernel", "initrd", "seed", "menu"}
  <2>1. helper.step > 2
    BY <1>3, LegacyNames, JobOutlives DEF LegacyStep
  <2>2. \/ d = [x EXCEPT !.kernel = helper.job.pack]
        \/ d = [x EXCEPT !.initrd = [pack |-> helper.job.pack, seeded |-> FALSE]]
        \/ d = [x EXCEPT !.initrd = [pack |-> helper.job.pack, seeded |-> TRUE]]
        \/ d = [x EXCEPT !.menu = "installer", !.root = helper.on,
                         !.job = helper.job]
    BY <1>3 DEF AfterLegacy
  <2>3. /\ [pack |-> helper.job.pack, seeded |-> FALSE]
              \in [pack : Packs, seeded : BOOLEAN]
        /\ [pack |-> helper.job.pack, seeded |-> TRUE]
              \in [pack : Packs, seeded : BOOLEAN]
    BY <1>1
  <2>4. Sound(x, helper.on) /\ helper.on \in Disks
    BY JobOutlives
  <2>5. helper.job \in JobRecords
    BY JobOutlives
  <2>6. helper.job.image # helper.job.target \/ helper.job.toram
    BY <2>1, JobOutlives
  <2>. HIDE DEF x, d
  <2>7. d = [x EXCEPT !.kernel = helper.job.pack] => Sound(d, helper.on)
    BY <1>1, <2>4, KernelSound
  <2>8. /\ d = [x EXCEPT !.initrd = [pack |-> helper.job.pack, seeded |-> FALSE]]
             => Sound(d, helper.on)
        /\ d = [x EXCEPT !.initrd = [pack |-> helper.job.pack, seeded |-> TRUE]]
             => Sound(d, helper.on)
    BY <2>3, <2>4, InitrdSound
  <2>9. d = [x EXCEPT !.menu = "installer", !.root = helper.on,
                      !.job = helper.job]
          => Sound(d, helper.on)
    BY <2>4, <2>5, <2>6, InstallerSound
  <2>10. Sound(d, helper.on)
    BY <2>2, <2>7, <2>8, <2>9
  <2>. QED  BY <2>10 DEF x, d
<1>. QED  BY <1>2, <1>3

LEMMA HalfLegacySound ==
    ASSUME Inv, helper.run = "legacy",
           NEW d \in HalfLegacy(LegacyStep, disk[helper.on])
    PROVE  Sound(d, helper.on)
<1>. DEFINE x == disk[helper.on]
<1>1. d \in {x, [x EXCEPT !.kernel = "torn"], [x EXCEPT !.initrd = None],
             [x EXCEPT !.menu = "torn"]}
  BY DEF HalfLegacy
<1>2. Sound(x, helper.on) /\ helper.on \in Disks
  BY JobOutlives
<1>. HIDE DEF x
<1>. QED  BY <1>1, <1>2, KernelSound, InitrdSound, TornSound
-----------------------------------------------------------------------------
(* Every action keeps the invariant.                                       *)

LEMMA OneDiskWritten ==
    ASSUME SoundInv, NEW t \in Disks, NEW d, Sound(d, t),
           disk' = [disk EXCEPT ![t] = d]
    PROVE  SoundInv'
<1>1. d \in DiskStates
  BY DEF Sound
<1>2. disk' \in [Disks -> DiskStates]
  BY <1>1 DEF SoundInv
<1>3. \A e \in Disks : disk'[e] = IF e = t THEN d ELSE disk[e]
  BY DEF SoundInv
<1>4. \A e \in Disks : Sound(disk'[e], e)
  BY <1>3 DEF SoundInv
<1>. QED  BY <1>2, <1>4 DEF SoundInv

\* A helper that ends leaves nothing to keep but the disks and what is
\* plugged in.
LEMMA HelperGone ==
    ASSUME Inv, SoundInv', PlugInv', helper' = Idle,
           session' # "installer", session' \in {"off", "chooser"}
    PROVE  Inv'
<1>1. Idle.run = "none" /\ "none" \notin {"ask", "shop", "legacy", "installer"}
  BY DEF Idle
<1>2. HelperInv'
  BY <1>1 DEF HelperInv
<1>3. CopyInv' /\ JobInv'
  BY <1>1 DEF CopyInv, JobInv
<1>. QED  BY <1>2, <1>3 DEF Inv

\* The power is off, or nothing that is plugged in has changed.
LEMMA PlugsKept ==
    ASSUME PlugInv, UNCHANGED plugged,
           \/ UNCHANGED <<live, payload, session>>
           \/ session' = "off" /\ live' = None /\ payload' = None
    PROVE  PlugInv'
  BY DisksAssumption DEF PlugInv

LEMMA InitInv == Init => Inv
<1>. SUFFICES ASSUME Init PROVE Inv
  OBVIOUS
<1>1. helper = Idle /\ session = "off" /\ Idle.run = "none"
  BY DEF Init, Idle
<1>2. HelperInv /\ CopyInv /\ JobInv
  BY <1>1 DEF HelperInv, CopyInv, JobInv
<1>3. PlugInv
  BY <1>1, DisksAssumption DEF Init, PlugInv, Internal
<1>4. SoundInv
  <2>1. PICK shelf \in Shelf : disk = [d \in Disks |-> Made(d, shelf[d])]
    BY DEF Init
  <2>2. \A d \in Disks : Sound(Made(d, shelf[d]), d)
    BY MadeSound
  <2>3. \A d \in Disks : Made(d, shelf[d]) \in DiskStates
    BY <2>2 DEF Sound
  <2>. QED  BY <2>1, <2>2, <2>3 DEF SoundInv
<1>. QED  BY <1>2, <1>3, <1>4 DEF Inv

LEMMA PlanKeepsInv ==
    ASSUME Inv, StartShopInstall, UNCHANGED <<bootnext, session>>
    PROVE  Inv'
<1>. DEFINE source == FindSourceDisk
            need == NeedBytes(source, UsedAt(payload))
<1>1. /\ source # None /\ source \in Usb /\ source \in Disks
      /\ FindTargetDisk(source, need) # None
      /\ helper' = [run |-> "ask", target |-> FindTargetDisk(source, need)]
  BY DisksAssumption DEF StartShopInstall, ShopPlan, InstallMedia
<1>2. need \in Nat
  <2>1. UsedAt(payload) \in Nat
    BY DEF UsedAt, Inv, PlugInv, SoundInv, DiskStates
  <2>2. disk[source].room \in Nat
    BY <1>1 DEF Inv, SoundInv, DiskStates
  <2>. QED  BY <2>1, <2>2, DisksAssumption DEF NeedBytes
<1>3. FindTargetDisk(source, need) = Largest /\ Largest \in Internal
  BY <1>1, <1>2, TargetNamed DEF Inv
<1>4. /\ helper' \in [run : {"ask"}, target : Internal \cap {Largest}]
      /\ helper'.run = "ask" /\ helper.run = "none"
  BY <1>1, <1>3 DEF StartShopInstall, Idle
<1>5. session = "chooser"
  BY DEF StartShopInstall, Inv, PlugInv
<1>6. HelperInv'
  BY <1>4, <1>5 DEF HelperInv
<1>7. PlugInv' /\ SoundInv'
  BY DEF StartShopInstall, Inv, PlugInv, SoundInv
<1>8. CopyInv' /\ JobInv'
  BY <1>4 DEF CopyInv, JobInv
<1>. QED  BY <1>6, <1>7, <1>8 DEF Inv

LEMMA AcceptKeepsInv ==
    ASSUME Inv, HelperPlans, UNCHANGED <<bootnext, session>>
    PROVE  Inv'
<1>. DEFINE s == FindSourceDisk
            t == helper.target
<1>1. /\ t \in Internal /\ t = Largest /\ t \notin Usb /\ t # None
      /\ session \in {"off", "chooser"}
  BY DisksAssumption DEF HelperPlans, Inv, HelperInv, Internal
<1>2. s \in plugged \cup {None}
  BY SourceNamed DEF Inv
<1>3. SoundInv' /\ UNCHANGED <<disk, plugged, live, session>>
  BY DEF HelperPlans, Inv, SoundInv
<1>4. /\ ~Accepts(s, t) => helper' = Idle /\ payload' = payload
      /\ Accepts(s, t) => /\ payload' = IF payload = t THEN None ELSE payload
                          /\ live = t => helper' = Idle
                          /\ live # t =>
                                helper' = [run |-> "shop", step |-> 1,
                                           target |-> t, source |-> s]
  BY DEF HelperPlans, ProtectedMount
<1>. HIDE DEF s, t
<1>5. PlugInv'
  BY <1>1, <1>3, <1>4 DEF Inv, PlugInv
<1>6. CASE ~Accepts(s, t) \/ live = t
  BY <1>1, <1>3, <1>4, <1>5, <1>6, HelperGone
<1>7. CASE Accepts(s, t) /\ live # t
  <2>1. /\ s \in Disks /\ s # t /\ disk[s].labels
        /\ Size[t] >= NeedBytes(s, Measured(s))
    BY <1>2, <1>7 DEF Accepts, Inv, PlugInv
  <2>2. helper' = [run |-> "shop", step |-> 1, target |-> t, source |-> s]
    BY <1>4, <1>7
  <2>3. HelperInv'
    BY <1>1, <1>3, <2>1, <2>2 DEF Inv, HelperInv, StepNumbers, HelperPlans
  <2>5. SysSize + disk[s].files + Slack <= Size[t]
    <3>1. /\ disk[s].files \in Nat /\ disk[s].room \in Nat
          /\ disk[s].files <= disk[s].room
      BY <2>1 DEF Inv, SoundInv, Sound, DiskStates
    <3>2. Measured(s) \in {0, disk[s].files}
      BY <2>1, DisksAssumption DEF Measured, UsedAt
    <3>3. Size[t] \in Nat /\ {SysSize, Slack} \subseteq Nat
      BY <1>1, DisksAssumption DEF Internal
    <3>4. Size[t] >= SysSize + Slack + disk[s].files
      BY <2>1, <3>1, <3>2, <3>3 DEF NeedBytes
    <3>. QED  BY <3>1, <3>3, <3>4
  <2>6. CopyInv'
    <3>1. /\ helper'.source = s /\ helper'.target = t /\ helper'.step = 1
          /\ helper'.run = "shop"
      BY <2>2
    <3>2. Copied(1, disk[t], t, disk[s])
      BY DEF Copied
    <3>. QED  BY <1>3, <1>7, <2>1, <2>5, <3>1, <3>2 DEF CopyInv
  <2>7. JobInv'
    BY <2>2 DEF JobInv
  <2>. QED  BY <1>3, <1>5, <2>3, <2>6, <2>7 DEF Inv
<1>. QED  BY <1>6, <1>7

LEMMA StepKeepsInv ==
    ASSUME Inv, ShopStep, UNCHANGED <<bootnext, session>>
    PROVE  Inv'
<1>. DEFINE t == helper.target
            s == helper.source
            w == After(StepOf, t, s)
<1>1. /\ helper.run = "shop" /\ helper.step \in StepNumbers
      /\ t \in Disks /\ s \in Disks /\ s # t
      /\ UNCHANGED <<plugged, live, payload, session>>
      /\ session \in {"off", "chooser"}
  BY CopyFacts DEF ShopStep, Inv, HelperInv
<1>2. CASE helper.step = 9
  <2>1. /\ disk' = [disk EXCEPT ![t] = [w EXCEPT !.done = TRUE]]
        /\ helper' = Idle
    BY <1>2, StepNames DEF ShopStep
  <2>2. Sound([w EXCEPT !.done = TRUE], t)
    BY <1>1, <1>2, StepAdvances
  <2>3. SoundInv'
    BY <1>1, <2>1, <2>2, OneDiskWritten DEF Inv
  <2>4. PlugInv'
    BY <1>1, PlugsKept DEF Inv
  <2>. QED  BY <1>1, <2>1, <2>3, <2>4, HelperGone
<1>3. CASE helper.step < 9
  <2>. DEFINE d == [w EXCEPT !.done = FALSE]
  <2>1. /\ disk' = [disk EXCEPT ![t] = d]
        /\ helper' = [helper EXCEPT !.step = helper.step + 1]
    <3>1. ~(helper.step = Len(Steps))
      BY <1>3, StepNames
    <3>. QED  BY <3>1 DEF ShopStep
  <2>2. Sound(d, t) /\ Copied(helper.step + 1, d, t, disk[s])
    BY <1>1, <1>3, StepAdvances
  <2>3. SoundInv'
    BY <1>1, <2>1, <2>2, OneDiskWritten DEF Inv
  <2>4. disk'[t] = d /\ disk'[s] = disk[s]
    BY <1>1, <2>1 DEF Inv, SoundInv
  <2>5. helper \in [run : {"shop"}, step : StepNumbers,
                    target : Internal \cap {Largest}, source : Disks]
    BY <1>1 DEF Inv, HelperInv
  <2>6. /\ helper'.run = "shop" /\ helper'.step = helper.step + 1
        /\ helper'.target = t /\ helper'.source = s
        /\ helper.step + 1 \in StepNumbers
    BY <1>1, <1>3, <2>1, <2>5 DEF StepNumbers
  <2>. HIDE DEF d, t, s, w
  <2>7. HelperInv'
    <3>1. helper' \in [run : {"shop"}, step : StepNumbers,
                       target : Internal \cap {Largest}, source : Disks]
      BY <2>1, <2>5, <2>6
    <3>. QED  BY <1>1, <2>6, <3>1 DEF Inv, HelperInv
  <2>8. PlugInv'
    BY <1>1 DEF Inv, PlugInv
  <2>9. CopyInv'
    BY <1>1, <2>2, <2>4, <2>6 DEF Inv, CopyInv, t, s
  <2>10. JobInv'
    BY <2>6 DEF JobInv
  <2>. QED  BY <2>3, <2>7, <2>8, <2>9, <2>10 DEF Inv
<1>. QED  BY <1>1, <1>2, <1>3 DEF StepNumbers

LEMMA FailKeepsInv ==
    ASSUME Inv, ShopStepFails, UNCHANGED <<bootnext, session>>
    PROVE  Inv'
<1>1. /\ helper.run = "shop" /\ helper' = Idle
      /\ session \in {"off", "chooser"} /\ helper.target \in Disks
      /\ UNCHANGED <<plugged, live, payload, session>>
  BY CopyFacts DEF ShopStepFails, Inv, HelperInv
<1>2. PICK d \in Half(StepOf, helper.target, helper.source) :
         disk' = [disk EXCEPT ![helper.target] = d]
  BY DEF ShopStepFails
<1>3. SoundInv'
  BY <1>1, <1>2, HalfSound, OneDiskWritten DEF Inv
<1>4. PlugInv'
  BY <1>1, PlugsKept DEF Inv
<1>. QED  BY <1>1, <1>3, <1>4, HelperGone

LEMMA CutKeepsInv ==
    ASSUME Inv, PowerOff \/ PowerCut
    PROVE  Inv'
<1>1. /\ helper' = Idle /\ session' = "off" /\ live' = None /\ payload' = None
      /\ UNCHANGED plugged
  BY DEF PowerOff, PowerCut, Off
<1>2. PlugInv'
  BY <1>1, PlugsKept DEF Inv
<1>3. CASE disk' = disk
  <2>1. SoundInv'
    BY <1>3 DEF Inv, SoundInv
  <2>. QED  BY <1>1, <1>2, <2>1, HelperGone
<1>4. CASE helper.run = "shop"
           /\ disk' \in {[disk EXCEPT ![helper.target] = d] : d \in ShopCut}
  <2>1. PICK d \in ShopCut : disk' = [disk EXCEPT ![helper.target] = d]
    BY <1>4
  <2>2. SoundInv'
    BY <1>4, <2>1, CutSound, CopyFacts, OneDiskWritten DEF Inv
  <2>. QED  BY <1>1, <1>2, <2>2, HelperGone
<1>5. CASE helper.run = "legacy"
           /\ disk' \in {[disk EXCEPT ![helper.on] = d] :
                            d \in HalfLegacy(LegacyStep, disk[helper.on])}
  <2>1. PICK d \in HalfLegacy(LegacyStep, disk[helper.on]) :
           disk' = [disk EXCEPT ![helper.on] = d]
    BY <1>5
  <2>2. SoundInv'
    BY <1>5, <2>1, HalfLegacySound, JobOutlives, OneDiskWritten DEF Inv
  <2>. QED  BY <1>1, <1>2, <2>2, HelperGone
<1>. QED  BY <1>3, <1>4, <1>5 DEF PowerOff, PowerCut

LEMMA PrepareKeepsInv ==
    ASSUME Inv, NEW p \in Packs, StartLegacyInstall(p)
    PROVE  Inv'
<1>. DEFINE l == OsLiveDisk
            job == [pack |-> p, target |-> OsTarget(l), image |-> PayloadDisk,
                    toram |-> FALSE, starts |-> 0]
<1>1. /\ live # None /\ session = "chooser" /\ live \in plugged
      /\ l = live /\ l \in Disks
      /\ UNCHANGED <<disk, plugged, live, session>>
      /\ payload' = PayloadDisk /\ PayloadDisk \in Disks
      /\ PayloadDisk \in plugged /\ OsTarget(l) # None
  BY DEF StartLegacyInstall, OsLiveDisk, Inv, PlugInv
<1>2. helper' = [run |-> "legacy", step |-> 1, on |-> l, job |-> job]
  BY DEF StartLegacyInstall
<1>3. l \in Usb => PayloadDisk = l
  BY <1>1, DisksAssumption DEF PayloadDisk, Inv, PlugInv
<1>4. OsTarget(l) \in Internal /\ (l \notin Usb => OsTarget(l) = l)
  BY <1>1, TargetInternal DEF OsTarget, Inv, Internal
<1>5. job \in JobRecords
  BY <1>1, <1>4 DEF JobRecords
<1>. HIDE DEF l, job
<1>6. /\ helper'.run = "legacy" /\ helper'.step = 1 /\ helper'.on = l
      /\ helper'.job = job
      /\ helper' \in [run : {"legacy"}, step : 1 .. 8, on : Disks,
                      job : JobRecords]
  BY <1>1, <1>2, <1>5
<1>7. HelperInv'
  BY <1>1, <1>6 DEF HelperInv
<1>8. PlugInv' /\ SoundInv'
  BY <1>1, <1>3 DEF Inv, PlugInv, SoundInv
<1>9. CopyInv'
  BY <1>6 DEF CopyInv
<1>10. job.image = PayloadDisk /\ job.target = OsTarget(l)
  BY DEF job
<1>11. JobInv'
  BY <1>3, <1>4, <1>6, <1>10 DEF JobInv
<1>. QED  BY <1>7, <1>8, <1>9, <1>11 DEF Inv

LEMMA LegacyStepKeepsInv ==
    ASSUME Inv, LegacyInstallStep
    PROVE  Inv'
<1>1. /\ helper.run = "legacy" /\ session = "chooser" /\ UNCHANGED plugged
      /\ helper \in [run : {"legacy"}, step : 1 .. 8, on : Disks,
                     job : JobRecords]
  BY DEF LegacyInstallStep, Inv, HelperInv
<1>2. CASE LegacyReboot
  <2>1. /\ helper' = Idle /\ session' = "off" /\ live' = None
        /\ payload' = None /\ UNCHANGED disk
    BY <1>2 DEF LegacyReboot
  <2>2. PlugInv' /\ SoundInv'
    BY <1>1, <2>1, PlugsKept DEF Inv, SoundInv
  <2>. QED  BY <2>1, <2>2, HelperGone
<1>3. CASE LegacyMemory \/ LegacyWrite \/ LegacyAfter
  <2>1. /\ UNCHANGED <<live, payload, session>>
        /\ helper.step \in 1 .. 7
    <3>1. LegacySteps[8] \notin {"verify", "memory", "kernel", "initrd",
                                 "seed", "menu", "after"}
      BY LegacyNames
    <3>2. LegacyStep \in {"verify", "memory", "kernel", "initrd", "seed",
                          "menu", "after"}
      BY <1>3 DEF LegacyMemory, LegacyWrite, LegacyAfter
    <3>3. helper.step # 8
      BY <3>1, <3>2 DEF LegacyStep
    <3>4. helper.step \in 1 .. 7
      BY <1>1, <3>3
    <3>. QED  BY <1>3, <3>4 DEF LegacyMemory, LegacyWrite, LegacyAfter
  <2>2. PlugInv'
    BY <1>1, <2>1, PlugsKept DEF Inv
  <2>3. SoundInv'
    <3>1. CASE UNCHANGED disk
      BY <3>1 DEF Inv, SoundInv
    <3>2. CASE LegacyWrite
      <4>1. disk' = [disk EXCEPT ![helper.on] =
                        AfterLegacy(LegacyStep, disk[helper.on], helper.job)]
        BY <3>2 DEF LegacyWrite
      <4>. QED  BY <1>1, <3>2, <4>1, LegacyWriteSound, JobOutlives,
                   OneDiskWritten DEF LegacyWrite, Inv
    <3>. QED  BY <1>3, <3>1, <3>2 DEF LegacyMemory, LegacyAfter
  <2>4. CASE LegacyMemory
    <3>1. PICK toram \in BOOLEAN :
             /\ MemoryAllows(toram)
             /\ helper' = [helper EXCEPT !.step = helper.step + 1,
                                         !.job.toram = toram]
      BY <2>4 DEF LegacyMemory
    <3>2. /\ helper'.run = "legacy" /\ helper'.step = helper.step + 1
          /\ helper'.on = helper.on
          /\ helper'.job = [helper.job EXCEPT !.toram = toram]
      BY <1>1, <3>1
    <3>3. /\ helper'.job \in JobRecords
          /\ helper'.job.image = helper.job.image
          /\ helper'.job.target = helper.job.target
          /\ helper.job.target = helper.on => helper'.job.toram
      BY <1>1, <3>1, <3>2 DEF JobRecords, MemoryAllows
    <3>4. helper' \in [run : {"legacy"}, step : 1 .. 8, on : Disks,
                       job : JobRecords]
      <4>1. helper' = [helper EXCEPT !.step = helper.step + 1,
                                     !.job = helper'.job]
        BY <1>1, <3>1, <3>2
      <4>2. helper' = [run |-> "legacy", step |-> helper.step + 1,
                       on |-> helper.on, job |-> helper'.job]
        BY <1>1, <4>1
      <4>3. helper.step + 1 \in 1 .. 8 /\ helper.on \in Disks
        BY <1>1, <2>1
      <4>. QED  BY <3>3, <4>2, <4>3
    <3>5. HelperInv' /\ CopyInv'
      BY <1>1, <2>1, <3>2, <3>4 DEF HelperInv, CopyInv
    <3>6. JobInv'
      BY <1>1, <3>2, <3>3 DEF Inv, JobInv
    <3>. QED  BY <2>2, <2>3, <3>5, <3>6 DEF Inv
  <2>5. CASE LegacyWrite \/ LegacyAfter
    <3>1. helper' = [helper EXCEPT !.step = helper.step + 1]
      BY <2>5 DEF LegacyWrite, LegacyAfter
    <3>2. /\ helper'.run = "legacy" /\ helper'.step = helper.step + 1
          /\ helper'.on = helper.on /\ helper'.job = helper.job
      BY <1>1, <3>1
    <3>3. helper' \in [run : {"legacy"}, step : 1 .. 8, on : Disks,
                       job : JobRecords]
      BY <1>1, <2>1, <3>1, <3>2
    <3>4. HelperInv' /\ CopyInv'
      BY <1>1, <2>1, <3>2, <3>3 DEF HelperInv, CopyInv
    <3>5. helper.step # 2
      BY <2>5, LegacyNames DEF LegacyWrite, LegacyAfter, LegacyStep
    <3>6. JobInv'
      BY <1>1, <2>1, <3>2, <3>5 DEF Inv, JobInv
    <3>. QED  BY <2>2, <2>3, <3>4, <3>6 DEF Inv
  <2>. QED  BY <1>3, <2>4, <2>5
<1>. QED  BY <1>2, <1>3 DEF LegacyInstallStep

LEMMA LegacyFailKeepsInv ==
    ASSUME Inv, LegacyStepFails
    PROVE  Inv'
<1>1. /\ helper.run = "legacy" /\ helper' = Idle
      /\ session = "chooser" /\ helper.on \in Disks
      /\ UNCHANGED <<plugged, live, payload, session>>
  BY JobOutlives DEF LegacyStepFails, Inv, HelperInv
<1>2. PICK d \in HalfLegacy(LegacyStep, disk[helper.on]) :
         disk' = [disk EXCEPT ![helper.on] = d]
  BY DEF LegacyStepFails
<1>3. SoundInv'
  BY <1>1, <1>2, HalfLegacySound, OneDiskWritten DEF Inv
<1>4. PlugInv'
  BY <1>1, PlugsKept DEF Inv
<1>. QED  BY <1>1, <1>3, <1>4, HelperGone

LEMMA ChooserKeepsInv ==
    ASSUME Inv, NEW d \in Disks, BootChooser(d)
    PROVE  Inv'
<1>1. /\ session = "off" /\ session' = "chooser" /\ helper.run = "none"
      /\ UNCHANGED <<disk, plugged, helper>>
  BY DEF BootChooser, Inv, HelperInv
<1>2. PICK m \in MenusFrom(d) :
         /\ disk[m].root # None /\ Starts(disk[m].root)
         /\ live' = disk[m].root /\ payload' \in PayloadsFor(disk[m].root)
  BY DEF BootChooser
<1>3. live' \in plugged /\ Found(disk[live'], disk[live'].sys) /\ live' # None
  BY <1>2 DEF Starts
<1>4. live' \in Usb => payload' = live'
  BY <1>2, <1>3 DEF PayloadsFor, Found, Inv, SoundInv, Sound, PlugInv
<1>5. payload' \in plugged \cup {None}
  BY <1>2, <1>3 DEF PayloadsFor
<1>6. PlugInv'
  BY <1>1, <1>3, <1>4, <1>5 DEF Inv, PlugInv
<1>7. HelperInv' /\ CopyInv' /\ JobInv'
  BY <1>1 DEF Inv, HelperInv, CopyInv, JobInv
<1>8. SoundInv'
  BY <1>1 DEF Inv, SoundInv
<1>. QED  BY <1>6, <1>7, <1>8 DEF Inv

\* Counting the starts of a job leaves its disk sound.
LEMMA CountedSound ==
    ASSUME NEW r \in Disks, NEW x, Sound(x, r), x.job # None,
           NEW n \in Nat, NEW d, d = [x EXCEPT !.job.starts = n]
    PROVE  Sound(d, r)
<1>1. x \in DiskStates /\ x.job \in JobRecords
  BY DEF Sound, DiskStates
<1>. DEFINE job == [x.job EXCEPT !.starts = n]
<1>2. /\ job \in JobRecords /\ job.image = x.job.image
      /\ job.target = x.job.target /\ job.toram = x.job.toram
  BY <1>1 DEF JobRecords
<1>3. d = [x EXCEPT !.job = job]
  BY <1>1 DEF DiskStates
<1>. HIDE DEF job
<1>4. d \in DiskStates
  BY <1>1, <1>2, <1>3 DEF DiskStates
<1>5. /\ d.esp = x.esp /\ d.sys = x.sys /\ d.data = x.data /\ d.stub = x.stub
      /\ d.menu = x.menu /\ d.root = x.root /\ d.job = job
      /\ d.files = x.files /\ d.room = x.room
      /\ d.done = x.done /\ d.labels = x.labels
  BY <1>1, <1>3 DEF DiskStates
<1>. QED  BY <1>2, <1>4, <1>5 DEF Sound, Readable

LEMMA InstallerKeepsInv ==
    ASSUME Inv, NEW d \in Disks, BootInstaller(d)
    PROVE  Inv'
<1>1. /\ session = "off" /\ session' = "installer" /\ helper.run = "none"
      /\ UNCHANGED <<plugged, live, payload>> /\ d \in plugged
  BY DEF BootInstaller, Inv, HelperInv
<1>2. PICK m \in (IF bootnext = d THEN {d} ELSE MenusFrom(d)) :
         LET r == IF disk[m].root \in plugged THEN disk[m].root ELSE m IN
         /\ disk[r].job # None
         /\ disk' = [disk EXCEPT ![r].job.starts =
                                   IF @ < MaxStarts THEN @ + 1 ELSE @]
         /\ helper' = [run |-> "installer", on |-> r]
  BY DEF BootInstaller
<1>. DEFINE r == IF disk[m].root \in plugged THEN disk[m].root ELSE m
            n == disk[r].job.starts
            k == IF n < MaxStarts THEN n + 1 ELSE n
<1>3. r \in Disks
  BY <1>1, <1>2 DEF MenusFrom, Starts, Inv, PlugInv
<1>4. Sound(disk[r], r) /\ disk[r].job # None /\ k \in Nat
  <2>1. Sound(disk[r], r) /\ disk[r].job # None
    BY <1>2, <1>3 DEF Inv, SoundInv
  <2>2. disk[r].job \in JobRecords
    BY <2>1 DEF Sound, DiskStates
  <2>3. n \in Nat
    BY <2>2 DEF JobRecords
  <2>4. k \in {n, n + 1}
    OBVIOUS
  <2>. QED  BY <2>1, <2>3, <2>4
<1>5. disk' = [disk EXCEPT ![r] = [disk[r] EXCEPT !.job.starts = k]]
      /\ helper' = [run |-> "installer", on |-> r]
  BY <1>2
<1>. HIDE DEF r, k
<1>6. Sound([disk[r] EXCEPT !.job.starts = k], r)
  BY <1>3, <1>4, CountedSound
<1>7. SoundInv'
  BY <1>3, <1>5, <1>6, OneDiskWritten DEF Inv
<1>8. helper'.run = "installer" /\ helper' \in [run : {"installer"}, on : Disks]
  BY <1>3, <1>5
<1>9. HelperInv' /\ CopyInv' /\ JobInv'
  BY <1>1, <1>8 DEF HelperInv, CopyInv, JobInv
<1>10. PlugInv'
  BY <1>1 DEF Inv, PlugInv
<1>. QED  BY <1>7, <1>9, <1>10 DEF Inv

LEMMA InstallerEndsKeepsInv ==
    ASSUME Inv, InstallerErases \/ InstallerStops
    PROVE  Inv'
<1>1. /\ helper' = Idle /\ session = "installer" /\ session' = "off"
      /\ UNCHANGED <<plugged, live, payload>>
  BY DEF InstallerErases, InstallerStops
<1>2. PlugInv'
  BY <1>1 DEF Inv, PlugInv
<1>3. CASE InstallerStops
  <2>1. SoundInv'
    BY <1>3 DEF InstallerStops, Inv, SoundInv
  <2>. QED  BY <1>1, <1>2, <2>1, HelperGone
<1>4. CASE InstallerErases
  <2>1. PICK t \in Disks : disk' = [disk EXCEPT ![t] = [Blank EXCEPT !.os = TRUE]]
    BY <1>4 DEF InstallerErases, Inv, PlugInv
  <2>2. SoundInv'
    BY <2>1, BlankSound, OneDiskWritten DEF Inv
  <2>. QED  BY <1>1, <1>2, <2>2, HelperGone
<1>. QED  BY <1>3, <1>4

LEMMA PlugKeepsInv ==
    ASSUME Inv, Plug \/ \E d \in Disks : Unplug(d)
    PROVE  Inv'
<1>1. UNCHANGED <<disk, live, helper, session>>
  BY DEF Plug, Unplug
<1>2. PlugInv'
  <2>1. CASE Plug
    BY <2>1, DisksAssumption DEF Plug, Inv, PlugInv, Internal
  <2>2. ASSUME NEW d \in Disks, Unplug(d) PROVE PlugInv'
    BY <2>2, DisksAssumption DEF Unplug, Inv, PlugInv, Internal
  <2>. QED  BY <2>1, <2>2
<1>3. HelperInv' /\ SoundInv' /\ JobInv'
  BY <1>1 DEF Inv, HelperInv, SoundInv, JobInv
<1>4. CopyInv'
  BY <1>1 DEF Inv, CopyInv
<1>. QED  BY <1>2, <1>3, <1>4 DEF Inv

LEMMA InvHolds == Spec => []Inv
<1>1. Inv /\ [Next]_legacyVars => Inv'
  <2>. SUFFICES ASSUME Inv, [Next]_legacyVars PROVE Inv'
    OBVIOUS
  <2>1. CASE ShopActions
    BY <2>1, PlanKeepsInv, AcceptKeepsInv, StepKeepsInv, FailKeepsInv
       DEF ShopActions
  <2>2. CASE \/ \E p \in Packs : StartLegacyInstall(p)
             \/ LegacyInstallStep \/ LegacyStepFails
    BY <2>2, PrepareKeepsInv, LegacyStepKeepsInv, LegacyFailKeepsInv
  <2>3. CASE \E d \in Disks : BootChooser(d) \/ BootInstaller(d)
    BY <2>3, ChooserKeepsInv, InstallerKeepsInv
  <2>4. CASE InstallerErases \/ InstallerStops
    BY <2>4, InstallerEndsKeepsInv
  <2>5. CASE PowerOff \/ PowerCut
    BY <2>5, CutKeepsInv
  <2>6. CASE Plug \/ \E d \in Disks : Unplug(d)
    BY <2>6, PlugKeepsInv
  <2>7. CASE UNCHANGED legacyVars
    <3>1. UNCHANGED <<disk, plugged, live, payload, helper, session>>
      BY <2>7 DEF legacyVars, vars
    <3>2. HelperInv' /\ PlugInv' /\ SoundInv' /\ JobInv'
      BY <3>1 DEF Inv, HelperInv, PlugInv, SoundInv, JobInv
    <3>3. CopyInv'
      BY <3>1 DEF Inv, CopyInv
    <3>. QED  BY <3>2, <3>3 DEF Inv
  <2>. QED  BY <2>1, <2>2, <2>3, <2>4, <2>5, <2>6, <2>7 DEF Next
<1>. QED  BY <1>1, InitInv, PTL DEF Spec
-----------------------------------------------------------------------------
(* The properties.                                                         *)

\* The variables keep their shapes; a session has a live disk exactly while
\* the chooser is up, and a helper runs on disks that are not the same.
THEOREM TypeCorrect == Spec => []TypeOK
<1>1. Inv => TypeOK
  <2>. SUFFICES ASSUME Inv PROVE TypeOK
    OBVIOUS
  <2>1. ASSUME NEW d \in Disks
        PROVE  /\ {disk[d].esp, disk[d].sys, disk[d].data} \subseteq Parts
               /\ disk[d].menu \in {"none", "live", "installer", "torn"}
               /\ {disk[d].stub, disk[d].root} \subseteq Disks \cup {None}
               /\ disk[d].files \in Nat
    BY DEF Inv, SoundInv, DiskStates
  <2>2. /\ plugged \subseteq Disks
        /\ (live # None) = (session = "chooser")
        /\ live # None => live \in plugged
    BY DEF Inv, PlugInv
  <2>3. helper.run = "shop" => helper.source # helper.target
    BY DEF Inv, CopyInv
  <2>. QED  BY <2>1, <2>2, <2>3 DEF TypeOK
<1>. QED  BY <1>1, InvHolds, PTL

\* The shop install leaves alone the disk that the session runs from and the
\* one that it reads, whichever disks those are (unmount_disk,
\* PROTECTED_MOUNTS, _apply_cli).
THEOREM LiveDiskStaysHolds == Spec => LiveDiskStays
<1>1. Inv /\ [Next]_legacyVars =>
         [helper.run = "shop" =>
            /\ live # None => disk'[live] = disk[live]
            /\ disk'[helper.source] = disk[helper.source]]_legacyVars
  <2>. SUFFICES ASSUME Inv, Next, helper.run = "shop"
                PROVE  /\ live # None => disk'[live] = disk[live]
                       /\ disk'[helper.source] = disk[helper.source]
    OBVIOUS
  <2>1. /\ session = "chooser" /\ helper # Idle
        /\ live \in Disks /\ helper.source \in Disks
        /\ helper.target # live /\ helper.target # helper.source
    <3>1. Idle.run = "none"
      BY DEF Idle
    <3>2. session # "off" /\ session # "installer"
      BY DEF Inv, HelperInv
    <3>3. session = "chooser"
      BY <3>2 DEF Inv, HelperInv
    <3>. QED  BY <3>1, <3>3 DEF Inv, HelperInv, PlugInv, CopyInv
  <2>2. \/ UNCHANGED disk
        \/ \E d : disk' = [disk EXCEPT ![helper.target] = d]
    <3>1. CASE ShopActions
      BY <2>1, <3>1 DEF ShopActions, StartShopInstall, HelperPlans, ShopStep,
                        ShopStepFails
    <3>2. CASE PowerOff \/ PowerCut
      BY <2>1, <3>2 DEF PowerOff, PowerCut
    <3>3. CASE Plug \/ \E d \in Disks : Unplug(d)
      BY <3>3 DEF Plug, Unplug
    <3>4. ~ \E p \in Packs : StartLegacyInstall(p)
      BY <2>1 DEF StartLegacyInstall
    <3>5. ~(LegacyInstallStep \/ LegacyStepFails)
      BY DEF LegacyInstallStep, LegacyStepFails
    <3>6. ~ \E d \in Disks : BootChooser(d) \/ BootInstaller(d)
      BY <2>1 DEF BootChooser, BootInstaller
    <3>7. ~(InstallerErases \/ InstallerStops)
      BY <2>1 DEF InstallerErases, InstallerStops
    <3>. QED  BY <3>1, <3>2, <3>3, <3>4, <3>5, <3>6, <3>7 DEF Next
  <2>. QED  BY <2>1, <2>2 DEF Inv, SoundInv
<1>. QED  BY <1>1, InvHolds, PTL DEF Spec, LiveDiskStays

\* A copy that failed or was cut before all of the payload was there never
\* starts without the stick: rewrite_grub comes after the payload, and the
\* menu that was copied names the source.
THEOREM CutCopyNeedsTheStickHolds == Spec => []CutCopyNeedsTheStick
<1>1. Inv => CutCopyNeedsTheStick
  BY DEF Inv, SoundInv, Sound, CutCopyNeedsTheStick, BootsAlone, Found
<1>. QED  BY <1>1, InvHolds, PTL

\* After DONE the disk's ESP leads to its own FBL-SYS and all of the payload
\* is there, until it is written again (apply_plan).
THEOREM DoneNeedsNoStickHolds == Spec => []DoneNeedsNoStick
<1>1. Inv => DoneNeedsNoStick
  BY DEF Inv, SoundInv, Sound, DoneNeedsNoStick
<1>. QED  BY <1>1, InvHolds, PTL

\* The helper accepted the target for the payload of the disk it copies, and
\* SLACK_BYTES over it, not for what is at /run/payload or was there when the
\* chooser planned (plan_sizes, _apply_cli).
THEOREM AcceptedForWhatItCopiesHolds == Spec => []AcceptedForWhatItCopies
<1>1. Inv => AcceptedForWhatItCopies
  BY DEF Inv, CopyInv, AcceptedForWhatItCopies
<1>. QED  BY <1>1, InvHolds, PTL

\* A pack's installer that erases the disk its image is on was started with
\* the image in memory (prepare_os, find_os_live_disk).
THEOREM ImageOutlivesInstallerHolds == Spec => []ImageOutlivesInstaller
<1>1. Inv => ImageOutlivesInstaller
  BY DEF Inv, SoundInv, Sound, ImageOutlivesInstaller
<1>. QED  BY <1>1, InvHolds, PTL
=============================================================================
