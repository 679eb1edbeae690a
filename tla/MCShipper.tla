------------------------------ MODULE MCShipper ------------------------------
(* Small instances of Shipper.  Hubs are model values and interchangeable: *)
(* the safety runs use that symmetry, the liveness runs do not.            *)
EXTENDS Shipper, TLC

\* Every hub from the start, or a single one and somebody who drains by hand.
MCAllHubs == {[conf |-> Hubs, reloads |-> 0, byhand |-> 0]}
MCOneByHand == {[conf |-> {h}, reloads |-> MaxReloads, byhand |-> 0] : h \in Hubs}
MCEither == {[conf |-> Hubs, reloads |-> 0, byhand |-> MaxByHand]} \cup MCOneByHand

Symmetry == Permutations(Hubs)
=============================================================================
