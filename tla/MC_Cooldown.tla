------------------------------ MODULE MC_Cooldown ------------------------------
(* An instance of Cooldown for TLC: two crates with an old version each, of    *)
(* which one has a fresh version too, and lockfiles that hold one or both.     *)
EXTENDS Cooldown

Crate(name, version) == [name |-> name, version |-> version]
Old == {Crate("a", 1), Crate("b", 1)}
MCForeign == {Crate("c", 1)}
MCPackages == Old \cup {Crate("a", 2), Crate("b", 2)} \cup MCForeign
MCPublished == [p \in MCPackages |-> IF p.version = 2 THEN 2 ELSE 1]
MCTouched == {Crate("a", 2)}
MCReverted == {Crate("a", 2)}
MCResolutions ==
  {Old, {Crate("a", 2), Crate("b", 1)}, {Crate("a", 2), Crate("b", 2)},
   Old \cup {Crate("a", 2)}, Old \cup MCForeign}
================================================================================
