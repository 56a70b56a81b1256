------------------------------ MODULE WorkList ------------------------------
(***************************************************************************)
(* What the requests table of src/core/db_manager.c promises the programs  *)
(* that share the file: a list of work.  A claim is one step, however many *)
(* statements it takes; a pending request leaves the list only by a claim  *)
(* or by db_clear_all, and comes back only from whoever it was passed to.  *)
(* A failed COMMIT may spoil the request it was about, and no other.       *)
(***************************************************************************)
CONSTANT Ids

VARIABLES state,  \* of the row with each id
          held    \* claimed ids that are not passed on yet

vars == <<state, held>>

Init ==
    /\ state = [i \in Ids |-> "unused"]
    /\ held = {}

Offered(S) == [i \in Ids |-> IF i \in S THEN "pending" ELSE state[i]]

\* Requests are saved, or become visible with the transaction they fell into.
Offer(S) ==
    /\ \A i \in S : state[i] = "unused"
    /\ state' = Offered(S)
    /\ UNCHANGED held

\* What else the transaction of the claim holds becomes visible with it.
Claim(i, S) ==
    /\ \A j \in S : state[j] = "unused"
    /\ Offered(S)[i] = "pending"
    /\ state' = [Offered(S) EXCEPT ![i] = "taken"]
    /\ held' = held \cup {i}

\* To the callback, or lost with the program.
PassOn(S) ==
    /\ held' = held \ S
    /\ UNCHANGED state

PutBack(i) ==
    /\ state[i] = "taken" /\ i \notin held
    /\ state' = [state EXCEPT ![i] = "pending"]
    /\ UNCHANGED held

Delete ==
    /\ state' = [i \in Ids |-> IF state[i] \in {"unused", "spoiled"} THEN state[i]
                               ELSE "deleted"]
    /\ UNCHANGED held

\* The list no longer knows whether request i is free: it was handed out though
\* its claim was not recorded, or its return was lost.
Spoil(i) ==
    /\ state' = [state EXCEPT ![i] = "spoiled"]
    /\ held' = held \ {i}

Next ==
    \/ \E S \in SUBSET Ids : Offer(S) \/ PassOn(S) \/ \E i \in Ids : Claim(i, S)
    \/ \E i \in Ids : PutBack(i) \/ Spoil(i)
    \/ Delete
=============================================================================
