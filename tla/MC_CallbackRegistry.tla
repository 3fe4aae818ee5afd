------------------------ MODULE MC_CallbackRegistry ------------------------
(* Small instances of CallbackRegistry.                                    *)
EXTENDS CallbackRegistry

Request(op, n, b, a) == [op |-> op, name |-> n, before |-> b, after |-> a]

\* The package's own callbacks.
MCBase == <<2, 4>>
Few == {1, 3, 5}
All == 1 .. 5

Plain == {Request(op, n, 0, 0) : op \in {"register", "replace", "remove"}, n \in {2, 3}}
OneSided ==
  {Request("register", n, b, 0) : n \in Few, b \in All} \cup
  {Request("register", n, 0, a) : n \in Few, a \in All}

Wellformed(R) == {r \in R : (r.before = 0 \/ r.before > r.name) /\ (r.after = 0 \/ r.after < r.name)}
MCOneSided == Wellformed(Plain \cup OneSided)
=============================================================================
