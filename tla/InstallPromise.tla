--------------------------- MODULE InstallPromise ---------------------------
(***************************************************************************)
(* What the chooser promises the customer about the computer: it changes   *)
(* only while an install or a restore they asked for is on the screen, a   *)
(* finished screen means the computer really holds a system, and First     *)
(* Boot comes up again after a power failure unless the disk it ran from   *)
(* was erased and holds nothing yet.                                       *)
(***************************************************************************)
CONSTANT Stick    \* First Boot runs from a USB stick

VARIABLES computer, screen

promiseVars == <<computer, screen>>

Init == computer = "untouched" /\ screen = "shop"

Agree ==
    /\ screen = "shop" /\ screen' = "working"
    /\ UNCHANGED computer

Erase ==
    /\ screen = "working" /\ computer' = "erased"
    /\ UNCHANGED screen

\* An erased disk is given a system.
Settle ==
    /\ screen = "working" /\ computer = "erased"
    /\ computer' \in {"os", "firstboot"}
    /\ UNCHANGED screen

Fail ==
    /\ screen = "working" /\ screen' = "failed"
    /\ UNCHANGED computer

Succeed ==
    /\ screen = "working" /\ computer \in {"os", "firstboot"}
    /\ screen' = "finished"
    /\ UNCHANGED computer

\* A restore is offered only once the disk was touched.
Restore ==
    /\ screen = "failed" /\ computer # "untouched"
    /\ screen' = "working"
    /\ UNCHANGED computer

Dismiss ==
    /\ screen = "failed" /\ screen' = "shop"
    /\ UNCHANGED computer

PowerFails ==
    /\ screen # "dark"
    /\ screen' = IF Stick \/ computer \in {"untouched", "firstboot"}
                 THEN "shop" ELSE "dark"
    /\ UNCHANGED computer

Next == \/ Agree \/ Erase \/ Settle \/ Fail \/ Succeed
        \/ Restore \/ Dismiss \/ PowerFails

Spec == Init /\ [][Next]_promiseVars
=============================================================================
