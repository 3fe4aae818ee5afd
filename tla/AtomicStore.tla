---------------------------- MODULE AtomicStore ----------------------------
(***************************************************************************)
(* What gorm's write operations promise their callers, without callbacks,  *)
(* scopes or transactions: the rows a unit of work writes become visible   *)
(* in one step or not at all, and the answer the caller gets says which.   *)
(***************************************************************************)
CONSTANTS Clients, Rows

VARIABLES
  store,   \* rows everybody sees
  work,    \* rows the client's running unit has written
  status,  \* idle, or busy, and applied or dropped once that is decided
  told     \* the answer the last unit gave, "none" while it has given none

vars == <<store, work, status, told>>

\* The fates an undecided unit may still meet; a decided one keeps its own.
Fates(c) == IF status[c] = "busy" THEN {"busy", "applied", "dropped"} ELSE {status[c]}

\* With nothing written, either answer is true.
Truth(c, fate) ==
  IF work[c] = {} THEN {"ok", "fail"}
  ELSE CASE fate = "applied" -> {"ok"}
         [] fate = "dropped" -> {"fail"}
         [] OTHER            -> {}

Answers(c, fate) == IF told[c] = "none" THEN Truth(c, fate) ELSE {told[c]}

Meet(c, fate) ==
  store' = IF fate = "applied" THEN store \cup work[c] ELSE store

Start(c) ==
  /\ status[c] = "idle"
  /\ status' = [status EXCEPT ![c] = "busy"]
  /\ told' = [told EXCEPT ![c] = "none"]
  /\ UNCHANGED <<store, work>>

Write(c) ==
  /\ status[c] = "busy"
  /\ \E r \in Rows \ (store \cup work[c]) : work' = [work EXCEPT ![c] = @ \cup {r}]
  /\ UNCHANGED <<store, status, told>>

\* The unit is decided, or answered, and its caller still holds it.
Settle(c) ==
  /\ status[c] # "idle"
  /\ \E fate \in Fates(c) :
       /\ Meet(c, fate)
       /\ status' = [status EXCEPT ![c] = fate]
       /\ \E a \in Answers(c, fate) \cup {told[c]} : told' = [told EXCEPT ![c] = a]
  /\ UNCHANGED work

\* The unit answers and is over; Save may begin the next one at once.
Finish(c) ==
  /\ status[c] # "idle"
  /\ \E fate \in Fates(c) :
       /\ Meet(c, fate)
       /\ \/ /\ status' = [status EXCEPT ![c] = "idle"]
             /\ \E a \in Answers(c, fate) : told' = [told EXCEPT ![c] = a]
          \/ /\ "ok" \in Answers(c, fate)
             /\ status' = [status EXCEPT ![c] = "busy"]
             /\ told' = [told EXCEPT ![c] = "none"]
  /\ work' = [work EXCEPT ![c] = {}]

Init ==
  /\ store = {}
  /\ work = [c \in Clients |-> {}]
  /\ status = [c \in Clients |-> "idle"]
  /\ told = [c \in Clients |-> "none"]

Next == \E c \in Clients : Start(c) \/ Write(c) \/ Settle(c) \/ Finish(c)

Spec == Init /\ [][Next]_vars
=============================================================================
