----------------------------- MODULE FifoQueue -----------------------------
(***************************************************************************)
(* What the queue of src/core/queue.c promises to the threads that use it: *)
(* an unbounded FIFO that can be closed once.  Every call takes effect at  *)
(* one instant.  A pointer handed to queue_push is either queued or        *)
(* refused; a queued pointer is handed to exactly one consumer, in order;  *)
(* closing the queue refuses further pointers but the ones already queued  *)
(* are still delivered, and only then are the consumers released (NULL).   *)
(***************************************************************************)
EXTENDS Sequences, FiniteSets

CONSTANTS Consumers,  \* the threads that call queue_pop
          Data        \* the pointers that are pushed, each at most once

VARIABLES fifo,       \* the queued pointers, oldest first
          closed,     \* queue_shutdown has taken effect
          outcome,    \* what has become of each pointer
          released    \* the consumers whose queue_pop returned NULL

vars == <<fifo, closed, outcome, released>>

Init ==
    /\ fifo = <<>>
    /\ closed = FALSE
    /\ outcome = [d \in Data |-> "unsent"]
    /\ released = {}

Push(d) ==
    /\ outcome[d] = "unsent"
    /\ ~closed
    /\ fifo' = Append(fifo, d)
    /\ outcome' = [outcome EXCEPT ![d] = "queued"]
    /\ UNCHANGED <<closed, released>>

\* A push fails because the queue is closed or because no node could be
\* allocated: the second may happen at any time.
Refuse(d) ==
    /\ outcome[d] = "unsent"
    /\ outcome' = [outcome EXCEPT ![d] = "refused"]
    /\ UNCHANGED <<fifo, closed, released>>

Pop(c) ==
    /\ c \notin released
    /\ fifo # <<>>
    /\ outcome' = [outcome EXCEPT ![Head(fifo)] = c]
    /\ fifo' = Tail(fifo)
    /\ UNCHANGED <<closed, released>>

Release(c) ==
    /\ c \notin released
    /\ closed
    /\ fifo = <<>>
    /\ released' = released \cup {c}
    /\ UNCHANGED <<fifo, closed, outcome>>

Close ==
    /\ ~closed
    /\ closed' = TRUE
    /\ UNCHANGED <<fifo, outcome, released>>

Next ==
    \/ \E d \in Data : Push(d) \/ Refuse(d)
    \/ \E c \in Consumers : Pop(c) \/ Release(c)
    \/ Close

\* The consumers keep calling queue_pop until it returns NULL.
Fairness ==
    /\ WF_vars(\E c \in Consumers : Pop(c))
    /\ \A c \in Consumers : WF_vars(Release(c))

SafeSpec == Init /\ [][Next]_vars
Spec == SafeSpec /\ Fairness
=============================================================================
