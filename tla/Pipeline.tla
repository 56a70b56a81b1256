------------------------------ MODULE Pipeline ------------------------------
(***************************************************************************)
(* What the runtime of src/core/orchestrator.c promises the thread that    *)
(* owns it: create_runtime returns, a dispatched task is accepted or stays *)
(* the caller's, an accepted task is settled (its response saved, or lost  *)
(* to a failure that is not a full or closed queue), whether the runtime   *)
(* is being destroyed or not, and destroy_runtime returns only when every  *)
(* accepted task is settled.                                               *)
(***************************************************************************)
CONSTANT Tasks

VARIABLES phase,   \* of the runtime, as its owner sees it
          status   \* of each task

vars == <<phase, status>>

Init ==
    /\ phase = "starting"
    /\ status = [t \in Tasks |-> "new"]

Start ==
    /\ phase = "starting"
    /\ phase' \in {"open", "closing", "gone"}
    /\ UNCHANGED status

Accept(t) ==
    /\ phase = "open"
    /\ status[t] = "new"
    /\ status' = [status EXCEPT ![t] = "accepted"]
    /\ UNCHANGED phase

Reject(t) ==
    /\ phase = "open"
    /\ status[t] = "new"
    /\ status' = [status EXCEPT ![t] = "rejected"]
    /\ UNCHANGED phase

Settle(t) ==
    /\ phase \in {"open", "closing"}
    /\ status[t] = "accepted"
    /\ \E end \in {"saved", "lost"} : status' = [status EXCEPT ![t] = end]
    /\ UNCHANGED phase

Close ==
    /\ phase = "open"
    /\ phase' = "closing"
    /\ UNCHANGED status

Finish ==
    /\ phase = "closing"
    /\ \A t \in Tasks : status[t] # "accepted"
    /\ phase' = "gone"
    /\ UNCHANGED status

Next ==
    \/ Start \/ Close \/ Finish
    \/ \E t \in Tasks : Accept(t) \/ Reject(t) \/ Settle(t)

SafeSpec == Init /\ [][Next]_vars

Spec ==
    /\ SafeSpec
    /\ WF_vars(Start)
    /\ WF_vars(Finish)
    /\ \A t \in Tasks : WF_vars(Settle(t))
=============================================================================
