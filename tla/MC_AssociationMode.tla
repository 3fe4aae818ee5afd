------------------------- MODULE MC_AssociationMode -------------------------
(* Small instances of AssociationMode.                                     *)
EXTENDS AssociationMode, TLC

User1 == [type |-> "user", id |-> 1]
User2 == [type |-> "user", id |-> 2]
Pet1  == [type |-> "pet", id |-> 1]

MCSources == {User1, User2, Pet1}
MCKinds == {"many_to_many", "belongs_to", "has_one", "has_many", "polymorphic"}
MCOldLinks ==
  [k \in MCKinds |->
     CASE k = "many_to_many" -> {<<User1, 1>>, <<User1, 2>>, <<User2, 1>>}
       [] k = "belongs_to"   -> {<<User1, 1>>, <<User2, 1>>}
       [] k = "has_one"      -> {<<User1, 1>>, <<User2, 2>>}
       [] k = "has_many"     -> {<<User1, 1>>, <<User1, 2>>}
       [] k = "polymorphic"  -> {<<User1, 1>>, <<Pet1, 2>>}]
MCSymmetry == Permutations(Clients)
MCValues == {<<>>, <<0>>, <<1>>, <<2>>, <<1, 0>>, <<0, 2>>, <<Bad>>, <<Bad, 1>>}
=============================================================================
