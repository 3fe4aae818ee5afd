----------------------------- MODULE HandleChains -----------------------------
(***************************************************************************)
(* What gorm promises of its handles (DB): "Where return a new relation".  *)
(* A handle is a value, the chain of calls that made it.  A chained call    *)
(* makes another and leaves every handle as it was; only InstantSet changes *)
(* the handle it is called on.  A statement uses its handle's conditions as *)
(* they were when it began.                                                 *)
(***************************************************************************)
EXTENDS Naturals, Sequences

CONSTANTS Conds, Clauses, None

VARIABLES
  chains,     \* of each handle: [where, limit, clause]
  statements  \* of each statement: [where, limit]

chainVars == <<chains, statements>>

Bare(x) == [x EXCEPT !.where = <<>>, !.limit = None]

\* A chained call: Where, Limit, Set, New, or one that only copies.
Chained(x) ==
  {x, Bare(x), [x EXCEPT !.limit = 1]}
    \cup {[x EXCEPT !.where = Append(@, c)] : c \in Conds}
    \cup {[x EXCEPT !.clause = v] : v \in Clauses}

Derive(h) == /\ \E y \in Chained(chains[h]) : chains' = Append(chains, y)
             /\ UNCHANGED statements

InstantSet(h) == /\ \E v \in Clauses : chains' = [chains EXCEPT ![h].clause = v]
                 /\ UNCHANGED statements

\* With a condition and a limit of its own, or none; the result is a handle too.  A
\* statement inside another begins without conditions.
Statement(h) == \E base \in {chains[h], Bare(chains[h])} :
  /\ chains' = Append(chains, base)
  /\ \E own \in {<<>>} \cup {<<c>> : c \in Conds}, limit \in {1, base.limit} :
       statements' = Append(statements, [where |-> base.where \o own, limit |-> limit])

ChainInit == chains = <<[where |-> <<>>, limit |-> None, clause |-> None]>> /\ statements = <<>>
ChainNext == \E h \in DOMAIN chains : Derive(h) \/ InstantSet(h) \/ Statement(h)
ChainSpec == ChainInit /\ [][ChainNext]_chainVars
=============================================================================
