------------------------------ MODULE MC_Batch ------------------------------
(* Small instances of Batch.                                               *)
EXTENDS Batch

Element(id, key, full) == [id |-> id, key |-> key, full |-> full]

\* Row 1 is there; key 2 was handed out, and its row deleted.
MCOld == {[id |-> 1, key |-> 1, val |-> 0]}
Kinds == {Nil, Element(0, 1, TRUE), Element(0, 2, TRUE), Element(0, 3, TRUE),
          Element(0, 2, FALSE), Element(0, 4, TRUE), Element(1, 1, TRUE), Element(1, 3, TRUE), Element(2, 3, TRUE)}
MCInputs == {<<>>} \cup [1 .. 3 -> Kinds]

Call(op, option, db, size, shared, failed) ==
  [op |-> op, option |-> option, db |-> db, size |-> size, shared |-> shared, failed |-> failed]
Dialects == {"sqlite3", "mysql", "postgres", "dm"}

MCCalls ==
  {Call(op, "none", db, n, FALSE, FALSE) :
     op \in {"create", "save", "saveKey"}, db \in Dialects, n \in {2, 3}}
  \cup {Call(op, "none", db, 2, TRUE, f) :
     op \in {"create", "saveKey"}, db \in {"sqlite3"}, f \in BOOLEAN}
  \cup {Call("create", "nothing", "sqlite3", 3, FALSE, FALSE),
        Call("save", "update", "sqlite3", 2, FALSE, FALSE)}
  \cup {Call("onConflict", "update", db, 2, s, FALSE) :
     db \in {"sqlite3", "postgres"}, s \in BOOLEAN}
  \cup {Call("onConflict", "update", "sqlite3", 2, FALSE, TRUE)}
=============================================================================
