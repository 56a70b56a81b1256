------------------------------- MODULE Queue -------------------------------
(***************************************************************************)
(* src/core/queue.c, one step per access to the shared queue: the mutex,   *)
(* the condition variable with its spurious wakeups, the linked list and   *)
(* the size field that is kept beside it.  The list is the sequence of the *)
(* nodes' data from q->head to q->tail.  Producers call queue_push,        *)
(* Consumers loop on queue_pop as the worker routines do, and Closer calls *)
(* queue_shutdown once.  outcome is a history variable: what has become of *)
(* each pointer, recorded where the call takes effect.                     *)
(***************************************************************************)
EXTENDS Integers, Sequences, FiniteSets

CONSTANTS Producers, Consumers, Closer, Data,
          NoThread,   \* nobody holds the mutex
          NoData      \* the NULL pointer

Threads == Producers \cup Consumers \cup {Closer}

ASSUME ThreadsAssumption ==
    /\ IsFiniteSet(Consumers)
    /\ Producers \cap Consumers = {}
    /\ Closer \notin Producers \cup Consumers
    /\ NoThread \notin Threads
    /\ NoData \notin Data
    /\ Consumers \cap {"unsent", "offered", "queued", "refused"} = {}

VARIABLES items,        \* the data of the list, from head to tail
          size,         \* q->size
          is_shutdown,  \* q->is_shutdown
          lock,         \* the holder of q->lock
          pc,           \* where each thread is
          data,         \* the pointer a call in progress pushes or returns
          outcome       \* history: the fate of each pointer

queueVars == <<items, size, is_shutdown>>
vars == <<queueVars, lock, pc, data, outcome>>

PushLocked == {"push_check", "push_count", "push_signal", "push_unlock"}
PopLocked == {"pop_test", "pop_count"}
ShutLocked == {"shut_flag", "shut_broadcast", "shut_unlock"}

ProducerPC == {"out", "push_lock"} \cup PushLocked
ConsumerPC == {"out", "waiting", "relock", "done"} \cup PopLocked
CloserPC == {"out", "done"} \cup ShutLocked

TypeOK ==
    /\ items \in Seq(Data)
    /\ size \in Int
    /\ is_shutdown \in BOOLEAN
    /\ lock \in Threads \cup {NoThread}
    /\ pc \in [Threads -> ProducerPC \cup ConsumerPC \cup CloserPC]
    /\ \A p \in Producers : pc[p] \in ProducerPC
    /\ \A c \in Consumers : pc[c] \in ConsumerPC
    /\ pc[Closer] \in CloserPC
    /\ data \in [Threads -> Data \cup {NoData}]
    /\ outcome \in [Data -> {"unsent", "offered", "queued", "refused"}
                              \cup Consumers]

Init ==
    /\ items = <<>>
    /\ size = 0
    /\ is_shutdown = FALSE
    /\ lock = NoThread
    /\ pc = [t \in Threads |-> "out"]
    /\ data = [t \in Threads |-> NoData]
    /\ outcome = [d \in Data |-> "unsent"]

Waiters == {c \in Consumers : pc[c] = "waiting"}

Acquire(t, from, to) ==
    /\ pc[t] = from
    /\ lock = NoThread
    /\ lock' = t
    /\ pc' = [pc EXCEPT ![t] = to]

-----------------------------------------------------------------------------
(* queue_push *)

\* The node is allocated before the mutex is taken, or the call fails.
PushAlloc(p, d) ==
    /\ pc[p] = "out"
    /\ outcome[d] = "unsent"
    /\ \/ /\ pc' = [pc EXCEPT ![p] = "push_lock"]
          /\ data' = [data EXCEPT ![p] = d]
          /\ outcome' = [outcome EXCEPT ![d] = "offered"]
       \/ /\ outcome' = [outcome EXCEPT ![d] = "refused"]
          /\ UNCHANGED <<pc, data>>
    /\ UNCHANGED <<queueVars, lock>>

PushLock(p) ==
    /\ Acquire(p, "push_lock", "push_check")
    /\ UNCHANGED <<queueVars, data, outcome>>

PushRefuse(p) ==
    /\ pc[p] = "push_check"
    /\ is_shutdown
    /\ lock' = NoThread
    /\ pc' = [pc EXCEPT ![p] = "out"]
    /\ data' = [data EXCEPT ![p] = NoData]
    /\ outcome' = [outcome EXCEPT ![data[p]] = "refused"]
    /\ UNCHANGED queueVars

\* Mutant of PushLink: the flag is not tested under the mutex.
PushLinkUnchecked(p) ==
    /\ pc[p] = "push_check"
    /\ items' = Append(items, data[p])
    /\ pc' = [pc EXCEPT ![p] = "push_count"]
    /\ outcome' = [outcome EXCEPT ![data[p]] = "queued"]
    /\ UNCHANGED <<size, is_shutdown, lock, data>>

PushLink(p) ==
    /\ pc[p] = "push_check"
    /\ ~is_shutdown
    /\ items' = Append(items, data[p])
    /\ pc' = [pc EXCEPT ![p] = "push_count"]
    /\ outcome' = [outcome EXCEPT ![data[p]] = "queued"]
    /\ UNCHANGED <<size, is_shutdown, lock, data>>

PushCount(p) ==
    /\ pc[p] = "push_count"
    /\ size' = size + 1
    /\ pc' = [pc EXCEPT ![p] = "push_signal"]
    /\ UNCHANGED <<items, is_shutdown, lock, data, outcome>>

\* Mutant of PushSignal: the queue signals only when it was empty.
PushSignalFirstOnly(p) ==
    /\ pc[p] = "push_signal"
    /\ \/ /\ Waiters = {} \/ size # 1
          /\ pc' = [pc EXCEPT ![p] = "push_unlock"]
       \/ /\ size = 1
          /\ \E c \in Waiters :
                pc' = [pc EXCEPT ![p] = "push_unlock", ![c] = "relock"]
    /\ UNCHANGED <<queueVars, lock, data, outcome>>

\* Mutant of PushSignal: nobody is signalled.
PushSignalNobody(p) ==
    /\ pc[p] = "push_signal"
    /\ pc' = [pc EXCEPT ![p] = "push_unlock"]
    /\ UNCHANGED <<queueVars, lock, data, outcome>>

\* pthread_cond_signal wakes one of the waiters, if there is one.
PushSignal(p) ==
    /\ pc[p] = "push_signal"
    /\ \/ /\ Waiters = {}
          /\ pc' = [pc EXCEPT ![p] = "push_unlock"]
       \/ \E c \in Waiters :
             pc' = [pc EXCEPT ![p] = "push_unlock", ![c] = "relock"]
    /\ UNCHANGED <<queueVars, lock, data, outcome>>

PushUnlock(p) ==
    /\ pc[p] = "push_unlock"
    /\ lock' = NoThread
    /\ pc' = [pc EXCEPT ![p] = "out"]
    /\ data' = [data EXCEPT ![p] = NoData]
    /\ UNCHANGED <<queueVars, outcome>>

-----------------------------------------------------------------------------
(* queue_pop, called again by its thread until it returns NULL *)

PopLock(c) ==
    /\ Acquire(c, "out", "pop_test")
    /\ data' = [data EXCEPT ![c] = NoData]
    /\ UNCHANGED <<queueVars, outcome>>

\* Mutant of PopWait: the wait loop does not look at is_shutdown.
PopWaitDeaf(c) ==
    /\ pc[c] = "pop_test"
    /\ size = 0
    /\ lock' = NoThread
    /\ pc' = [pc EXCEPT ![c] = "waiting"]
    /\ UNCHANGED <<queueVars, data, outcome>>

PopWait(c) ==
    /\ pc[c] = "pop_test"
    /\ size = 0
    /\ ~is_shutdown
    /\ lock' = NoThread
    /\ pc' = [pc EXCEPT ![c] = "waiting"]
    /\ UNCHANGED <<queueVars, data, outcome>>

\* POSIX allows pthread_cond_wait to return without a signal.
SpuriousWakeup(c) ==
    /\ pc[c] = "waiting"
    /\ pc' = [pc EXCEPT ![c] = "relock"]
    /\ UNCHANGED <<queueVars, lock, data, outcome>>

PopRelock(c) ==
    /\ Acquire(c, "relock", "pop_test")
    /\ UNCHANGED <<queueVars, data, outcome>>

\* Mutant of PopNull: a closed queue is not drained.
PopNullAtOnce(c) ==
    /\ pc[c] = "pop_test"
    /\ is_shutdown
    /\ lock' = NoThread
    /\ pc' = [pc EXCEPT ![c] = "done"]
    /\ UNCHANGED <<queueVars, data, outcome>>

PopNull(c) ==
    /\ pc[c] = "pop_test"
    /\ is_shutdown
    /\ size = 0
    /\ lock' = NoThread
    /\ pc' = [pc EXCEPT ![c] = "done"]
    /\ UNCHANGED <<queueVars, data, outcome>>

PopUnlink(c) ==
    /\ pc[c] = "pop_test"
    /\ size # 0
    /\ data' = [data EXCEPT ![c] = Head(items)]
    /\ outcome' = [outcome EXCEPT ![Head(items)] = c]
    /\ items' = Tail(items)
    /\ pc' = [pc EXCEPT ![c] = "pop_count"]
    /\ UNCHANGED <<size, is_shutdown, lock>>

\* Mutant of PopReturn: size is not decremented.
PopReturnUncounted(c) ==
    /\ pc[c] = "pop_count"
    /\ lock' = NoThread
    /\ pc' = [pc EXCEPT ![c] = "out"]
    /\ UNCHANGED <<queueVars, data, outcome>>

PopReturn(c) ==
    /\ pc[c] = "pop_count"
    /\ size' = size - 1
    /\ lock' = NoThread
    /\ pc' = [pc EXCEPT ![c] = "out"]
    /\ UNCHANGED <<items, is_shutdown, data, outcome>>

-----------------------------------------------------------------------------
(* queue_shutdown *)

ShutLock ==
    /\ Acquire(Closer, "out", "shut_flag")
    /\ UNCHANGED <<queueVars, data, outcome>>

ShutFlag ==
    /\ pc[Closer] = "shut_flag"
    /\ is_shutdown' = TRUE
    /\ pc' = [pc EXCEPT ![Closer] = "shut_broadcast"]
    /\ UNCHANGED <<items, size, lock, data, outcome>>

\* Mutant of ShutBroadcast: pthread_cond_signal instead of broadcast.
ShutSignal ==
    /\ pc[Closer] = "shut_broadcast"
    /\ \/ /\ Waiters = {}
          /\ pc' = [pc EXCEPT ![Closer] = "shut_unlock"]
       \/ \E c \in Waiters :
             pc' = [pc EXCEPT ![Closer] = "shut_unlock", ![c] = "relock"]
    /\ UNCHANGED <<queueVars, lock, data, outcome>>

ShutBroadcast ==
    /\ pc[Closer] = "shut_broadcast"
    /\ pc' = [t \in Threads |-> IF t = Closer THEN "shut_unlock"
                                ELSE IF t \in Waiters THEN "relock"
                                ELSE pc[t]]
    /\ UNCHANGED <<queueVars, lock, data, outcome>>

ShutUnlock ==
    /\ pc[Closer] = "shut_unlock"
    /\ lock' = NoThread
    /\ pc' = [pc EXCEPT ![Closer] = "done"]
    /\ UNCHANGED <<queueVars, data, outcome>>

-----------------------------------------------------------------------------
\* Everything a call in progress does next, the first step of a push excepted.
ProducerStep(p) ==
    \/ PushLock(p) \/ PushRefuse(p) \/ PushLink(p)
    \/ PushCount(p) \/ PushSignal(p) \/ PushUnlock(p)

ConsumerStep(c) ==
    \/ PopLock(c) \/ PopWait(c) \/ PopRelock(c)
    \/ PopNull(c) \/ PopUnlink(c) \/ PopReturn(c)

CloserStep == ShutFlag \/ ShutBroadcast \/ ShutUnlock

\* Every thread has returned and nothing is left to push.
Finished ==
    /\ \A p \in Producers : pc[p] = "out"
    /\ \A t \in Threads \ Producers : pc[t] = "done"
    /\ \A d \in Data : outcome[d] # "unsent"
    /\ UNCHANGED vars

Next ==
    \/ \E p \in Producers : ProducerStep(p) \/ \E d \in Data : PushAlloc(p, d)
    \/ \E c \in Consumers : ConsumerStep(c) \/ SpuriousWakeup(c)
    \/ ShutLock \/ CloserStep
    \/ Finished

\* The scheduler runs every thread that can run.  Nobody has to push or to
\* close the queue.
Fairness ==
    /\ \A p \in Producers : WF_vars(ProducerStep(p))
    /\ \A c \in Consumers : WF_vars(ConsumerStep(c))
    /\ WF_vars(CloserStep)

SafeSpec == Init /\ [][Next]_vars
Spec == SafeSpec /\ Fairness

-----------------------------------------------------------------------------
(* Properties *)

\* size agrees with the list whenever another thread can look: pop tests size
\* and then dereferences head (queue.c:73-85), push tests head (queue.c:48).
SizeMatchesList ==
    (lock = NoThread \/ \E c \in Consumers : pc[c] = "pop_test")
        => size = Len(items)

\* The consumers that will look at the queue before they can sleep.
Awake == {c \in Consumers : pc[c] \in {"relock", "pop_test"}}

\* One pthread_cond_signal per push is enough (queue.c:59): while a consumer
\* sleeps, every queued pointer has a consumer of its own that is awake and
\* about to look.  A push between linking and signalling owes one wakeup.
NoLostWakeup ==
    Waiters # {} =>
        Len(items) <= Cardinality(Awake)
            + (IF \E p \in Producers : pc[p] \in {"push_count", "push_signal"}
               THEN 1 ELSE 0)

\* Nobody is left asleep on a closed queue: the flag and the broadcast are
\* under one lock and the waiter tests the flag under the same lock
\* (queue.c:73-75, 100-103).
ClosedLeavesNoSleeper ==
    is_shutdown => Waiters = {} \/ pc[Closer] = "shut_broadcast"

\* A pointer is in the list once if its push succeeded and it was not yet
\* popped, and not at all otherwise (queue.c:47-57, 82-91).
ListHoldsExactlyTheQueued ==
    /\ \A d \in Data :
          outcome[d] = "queued" <=> \E i \in DOMAIN items : items[i] = d
    /\ \A i, j \in DOMAIN items : items[i] = items[j] => i = j

\* A consumer that got NULL may forget the queue: it is closed, nothing is
\* left in it and nothing will be (queue.c:41-45, 77-80).  The routines of
\* worker.c and orchestrator.c end their threads on it.
NullMeansDrained ==
    (\E c \in Consumers : pc[c] = "done") => is_shutdown /\ items = <<>>

\* A queued pointer reaches a consumer, whether or not the queue is closed
\* (queue.c:59, 73-75): the signal, the wait loop and the drain together.
EveryPushDelivered ==
    \A d \in Data : outcome[d] = "queued" ~> outcome[d] \in Consumers

\* Once queue_shutdown has set the flag, every consumer's queue_pop returns
\* NULL in the end (queue.c:77-80): destroy_runtime's joins rely on it.
ShutdownReleasesConsumers ==
    is_shutdown ~> \A c \in Consumers : pc[c] = "done"

-----------------------------------------------------------------------------
(* The inductive invariant behind the safety properties *)

\* Whoever is inside a critical section of queue.c holds the mutex.
LockInv ==
    \A t \in Threads :
        pc[t] \in PushLocked \cup PopLocked \cup ShutLocked <=> lock = t

\* size lags behind the list only between the two updates of one call.
SizeInv ==
    size = IF lock # NoThread /\ pc[lock] = "push_count" THEN Len(items) - 1
           ELSE IF lock # NoThread /\ pc[lock] = "pop_count" THEN Len(items) + 1
           ELSE Len(items)

\* A push that has not yet been decided owns its pointer alone.
OfferInv ==
    /\ \A p \in Producers : pc[p] \in {"push_lock", "push_check"} =>
          data[p] \in Data /\ outcome[data[p]] = "offered"
    /\ \A p, q \in Producers :
          /\ p # q
          /\ pc[p] \in {"push_lock", "push_check"}
          /\ pc[q] \in {"push_lock", "push_check"}
          => data[p] # data[q]

\* The flag is set by the closer's second step and never reset.
ShutInv == is_shutdown <=> pc[Closer] \notin {"out", "shut_flag"}

\* NoLostWakeup in a form every step preserves.
WakeInv ==
    Waiters # {} =>
        Len(items) <= Cardinality(Awake)
            + (IF lock # NoThread /\ pc[lock] \in {"push_count", "push_signal"}
               THEN 1 ELSE 0)

\* All of it: the state of queue.c is consistent at every step of every
\* thread, including inside the critical sections (queue.c:29-104).
QueueInv ==
    /\ TypeOK
    /\ LockInv
    /\ SizeInv
    /\ OfferInv
    /\ ShutInv
    /\ ListHoldsExactlyTheQueued
    /\ WakeInv
    /\ ClosedLeavesNoSleeper

-----------------------------------------------------------------------------
(* The abstract queue this implements: a push that is not decided yet has    *)
(* not happened, and a consumer is released once its queue_pop returns NULL. *)
DecidedOutcome == [d \in Data |-> IF outcome[d] = "offered" THEN "unsent"
                                  ELSE outcome[d]]
Released == {c \in Consumers : pc[c] = "done"}

Abstract == INSTANCE FifoQueue WITH
    fifo <- items,
    closed <- is_shutdown,
    outcome <- DecidedOutcome,
    released <- Released

\* Every step of queue.c is a step of the atomic closable FIFO or changes
\* nothing of it, and the consumers get what it promises them in the end.
ImplementsFifoQueue == Abstract!Spec
=============================================================================
