-------------------------- MODULE MC_LookThenCreate --------------------------
(* Two versions of a program: the second has a column and a many-to-many    *)
(* field more, with a join table that has a column of its own.              *)
EXTENDS LookThenCreate

Column(c) == [kind |-> "column", name |-> c]
Join(t) == [kind |-> "join", name |-> t]
Unique == "uix_users_first_name"

MCModels ==
  [p1 |-> <<[table |-> "users", fields |-> <<Column("first_name")>>, indexes |-> {Unique}]>>,
   p2 |-> <<[table |-> "users", fields |-> <<Column("first_name"), Column("name"), Join("user_tags")>>,
             indexes |-> {Unique}]>>]
MCExtra == [t \in {"user_tags"} |-> {"since"}]
MCOldRows == {{}, {[id |-> 1, name |-> "n1", val |-> 0, live |-> TRUE]}}
MCStarts == [mysql |-> 3, sqlite |-> 2]
MCHides == {<<"name", Unique>>}
=============================================================================
