----------------------------- MODULE MCInstall -----------------------------
(* CustomerInstall on small machines, for TLC. *)
EXTENDS CustomerInstall

CONSTANTS e1, e2

OneEdition == {e1}
TwoEditions == {e1, e2}
NoEditions == {}
TwoLayers == [e \in Editions |-> 2]
OneAndTwoLayers == [e \in Editions |-> IF e = e1 THEN 1 ELSE 2]
SecondEdition == {e2}
NoPairs == {}
SameFamily == Editions \X Editions
=============================================================================
