---------------------------- MODULE MC_ModelCache ----------------------------
(* Users have posts and posts a user; users embed a struct with a column of *)
(* bytes and a many-to-many relationship.                                   *)
EXTENDS ModelCache, TLC

F(n, k, t) == [name |-> n, kind |-> k, to |-> t]
MCTypes == {"User", "Post", "Base", "Tag"}
MCEmbeds == [t \in MCTypes |-> IF t = "User" THEN <<"Base">> ELSE <<>>]
MCSlow == [t \in MCTypes |->
  CASE t = "User" -> <<F("Posts", "has", "Post")>>
    [] t = "Post" -> <<F("Author", "belongs_to", "User")>>
    [] t = "Base" -> <<F("Data", "late", ""), F("Tags", "many_to_many", "Tag")>>
    [] t = "Tag"  -> <<>>]
MCSymmetry == Permutations(Goroutines)
=============================================================================
