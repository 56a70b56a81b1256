------------------------------ MODULE Runtime ------------------------------
(***************************************************************************)
(* The runtime of src/core/orchestrator.c and src/core/worker.c: an owner  *)
(* thread creates three queues and the threads around them, dispatches     *)
(* tasks and destroys everything; HTTP workers turn a task into a          *)
(* response, the dispatcher wraps a response in a DBTask, and the DB       *)
(* worker saves it.                                                        *)
(*                                                                         *)
(*   owner -> request queue -> HTTP workers -> response queue              *)
(*         -> dispatcher -> db queue -> DB worker                          *)
(*                                                                         *)
(* A queue operation is one step: module Queue shows that queue.c          *)
(* implements such a queue.  heap holds the allocated objects, named by    *)
(* their kind and the task they belong to.                                 *)
(***************************************************************************)
EXTENDS Integers, Sequences, FiniteSets, Functions

CONSTANTS NumWorkers,   \* num_http_worker
          Tasks,        \* WorkerTasks, each with its Request
          WithHeaders,  \* the tasks whose request has header lines
          Commands,     \* DBTasks that the owner dispatches itself
          CommandType,  \* the DbOpType of each command
          None          \* no task in hand

Workers == 1 .. NumWorkers
CommandTypes == {"save", "update_status", "get_next", "shutdown", "unknown"}

ASSUME RuntimeAssumption ==
    /\ NumWorkers \in Nat \ {0}
    /\ WithHeaders \subseteq Tasks
    /\ Tasks \cap Commands = {}
    /\ None \notin Tasks \cup Commands
    /\ CommandType \in [Commands -> CommandTypes]

VARIABLES
    owner,               \* where the thread that owns the runtime is
    made,                \* the queues that exist
    closed,              \* the queues that were shut down
    http_worker_count,   \* HTTP workers started
    requestQ, responseQ, dbQ,
    wpc, wtask, wlabel,  \* HTTP workers: place, task in hand, cleanup label
    dpc, dresp,          \* dispatcher: place, response in hand
    bpc, btask,          \* DB worker: place, DBTask in hand
    heap,                \* allocated objects
    fate                 \* history: what became of each task and command

queues == <<made, closed, requestQ, responseQ, dbQ>>
workerVars == <<wpc, wtask, wlabel>>
dispatcherVars == <<dpc, dresp>>
dbVars == <<bpc, btask>>
vars == <<owner, http_worker_count, queues, workerVars, dispatcherVars, dbVars,
          heap, fate>>

Queues == {"db", "request", "response"}
Kinds == {"task", "response", "headers", "curl", "dbtask", "payload"}
Fates == {"new", "rejected", "accepted", "dropped", "refused",
          "saved", "save_failed"}

TypeOK ==
    /\ owner \in {"start", "spawn_db", "spawn_dispatcher", "spawn_workers",
                  "running", "destroy", "join_workers", "join_dispatcher",
                  "join_db", "free_queues", "gone"}
    /\ made \subseteq Queues
    /\ closed \subseteq Queues
    /\ http_worker_count \in 0 .. NumWorkers
    /\ requestQ \in Seq(Tasks)
    /\ responseQ \in Seq(Tasks)
    /\ dbQ \in Seq(Tasks \cup Commands)
    /\ wpc \in [Workers -> {"none", "pop", "begin", "push", "cleanup", "done"}]
    /\ wtask \in [Workers -> Tasks \cup {None}]
    /\ wlabel \in [Workers -> {"cleanup_header_list", "cleanup_curl",
                               "cleanup_task"}]
    /\ dpc \in {"none", "pop", "push", "done"}
    /\ dresp \in Tasks \cup {None}
    /\ bpc \in {"none", "pop", "work", "done"}
    /\ btask \in Tasks \cup Commands \cup {None}
    /\ heap \subseteq Kinds \X (Tasks \cup Commands)
    /\ fate \in [Tasks \cup Commands -> Fates]

Init ==
    /\ owner = "start"
    /\ made = {} /\ closed = {}
    /\ http_worker_count = 0
    /\ requestQ = <<>> /\ responseQ = <<>> /\ dbQ = <<>>
    /\ wpc = [w \in Workers |-> "none"]
    /\ wtask = [w \in Workers |-> None]
    /\ wlabel = [w \in Workers |-> "cleanup_task"]
    /\ dpc = "none" /\ dresp = None
    /\ bpc = "none" /\ btask = None
    /\ heap = {}
    /\ fate = [t \in Tasks \cup Commands |-> "new"]

-----------------------------------------------------------------------------
(* create_runtime, on the owner thread.  Every allocation and every          *)
(* pthread_create may fail; what was created so far is then destroyed.       *)

MakeQueues ==
    /\ owner = "start"
    /\ \/ /\ made' = Queues
          /\ owner' = "spawn_db"
       \/ /\ made' \in {{}, {"db"}, {"db", "request"}, Queues}
          /\ owner' = "destroy"
       \/ /\ owner' = "gone"     \* not even the Runtime could be allocated
          /\ UNCHANGED made
    /\ UNCHANGED <<closed, http_worker_count, requestQ, responseQ, dbQ,
                   workerVars, dispatcherVars, dbVars, heap, fate>>

SpawnDbWorker ==
    /\ owner = "spawn_db"
    /\ \/ bpc' = "pop" /\ owner' = "spawn_dispatcher"
       \/ owner' = "destroy" /\ UNCHANGED bpc
    /\ UNCHANGED <<http_worker_count, queues, workerVars, dispatcherVars, btask,
                   heap, fate>>

SpawnDispatcher ==
    /\ owner = "spawn_dispatcher"
    /\ \/ dpc' = "pop" /\ owner' = "spawn_workers"
       \/ owner' = "destroy" /\ UNCHANGED dpc
    /\ UNCHANGED <<http_worker_count, queues, workerVars, dresp, dbVars,
                   heap, fate>>

SpawnWorker ==
    /\ owner = "spawn_workers"
    /\ \/ /\ http_worker_count' = http_worker_count + 1
          /\ wpc' = [wpc EXCEPT ![http_worker_count'] = "pop"]
          /\ owner' = IF http_worker_count' = NumWorkers THEN "running"
                      ELSE "spawn_workers"
       \/ /\ owner' = "destroy"
          /\ UNCHANGED <<http_worker_count, wpc>>
    /\ UNCHANGED <<queues, wtask, wlabel, dispatcherVars, dbVars, heap, fate>>

-----------------------------------------------------------------------------
(* dispatch_task: the runtime owns what its queue accepted, the caller keeps *)
(* what was refused because the queue is closed or a node not allocated.     *)

Refusal(q) == IF q \in closed THEN "refused" ELSE "rejected"

DispatchWorker(t) ==
    /\ owner = "running"
    /\ fate[t] = "new"
    /\ heap' = heap \cup {<<"task", t>>}
    /\ \/ /\ "request" \notin closed
          /\ requestQ' = Append(requestQ, t)
          /\ fate' = [fate EXCEPT ![t] = "accepted"]
       \/ /\ fate' = [fate EXCEPT ![t] = Refusal("request")]
          /\ UNCHANGED requestQ
    /\ UNCHANGED <<owner, http_worker_count, made, closed, responseQ, dbQ,
                   workerVars, dispatcherVars, dbVars>>

Payload(c) == IF CommandType[c] \in {"save", "update_status", "unknown"}
              THEN {<<"payload", c>>} ELSE {}

DispatchDb(c) ==
    /\ owner = "running"
    /\ fate[c] = "new"
    /\ heap' = heap \cup {<<"dbtask", c>>} \cup Payload(c)
    /\ \/ /\ "db" \notin closed
          /\ dbQ' = Append(dbQ, c)
          /\ fate' = [fate EXCEPT ![c] = "accepted"]
       \/ /\ fate' = [fate EXCEPT ![c] = Refusal("db")]
          /\ UNCHANGED dbQ
    /\ UNCHANGED <<owner, http_worker_count, made, closed, requestQ, responseQ,
                   workerVars, dispatcherVars, dbVars>>

-----------------------------------------------------------------------------
(* destroy_runtime, on the owner thread: close a queue, join its consumers,  *)
(* then close the queue those consumers were filling.                        *)

CloseRequests ==
    /\ owner \in {"running", "destroy"}
    /\ closed' = closed \cup (made \cap {"request"})
    /\ owner' = "join_workers"
    /\ UNCHANGED <<http_worker_count, made, requestQ, responseQ, dbQ, workerVars,
                   dispatcherVars, dbVars, heap, fate>>

\* Mutant of JoinWorkers: the workers are not joined.
JoinNoWorkers ==
    /\ owner = "join_workers"
    /\ closed' = closed \cup (made \cap {"response"})
    /\ owner' = "join_dispatcher"
    /\ UNCHANGED <<http_worker_count, made, requestQ, responseQ, dbQ, workerVars,
                   dispatcherVars, dbVars, heap, fate>>

JoinWorkers ==
    /\ owner = "join_workers"
    /\ \A w \in 1 .. http_worker_count : wpc[w] = "done"
    /\ closed' = closed \cup (made \cap {"response"})
    /\ owner' = "join_dispatcher"
    /\ UNCHANGED <<http_worker_count, made, requestQ, responseQ, dbQ, workerVars,
                   dispatcherVars, dbVars, heap, fate>>

\* Mutant of JoinDispatcher: the dispatcher is not joined.
JoinNoDispatcher ==
    /\ owner = "join_dispatcher"
    /\ closed' = closed \cup (made \cap {"db"})
    /\ owner' = "join_db"
    /\ UNCHANGED <<http_worker_count, made, requestQ, responseQ, dbQ, workerVars,
                   dispatcherVars, dbVars, heap, fate>>

JoinDispatcher ==
    /\ owner = "join_dispatcher"
    /\ dpc \in {"none", "done"}
    /\ closed' = closed \cup (made \cap {"db"})
    /\ owner' = "join_db"
    /\ UNCHANGED <<http_worker_count, made, requestQ, responseQ, dbQ, workerVars,
                   dispatcherVars, dbVars, heap, fate>>

JoinDbWorker ==
    /\ owner = "join_db"
    /\ bpc \in {"none", "done"}
    /\ owner' = "free_queues"
    /\ UNCHANGED <<http_worker_count, queues, workerVars, dispatcherVars, dbVars,
                   heap, fate>>

\* destroy_queue frees the nodes and not the data they point to.
FreeQueues ==
    /\ owner = "free_queues"
    /\ made' = {}
    /\ requestQ' = <<>> /\ responseQ' = <<>> /\ dbQ' = <<>>
    /\ owner' = "gone"
    /\ UNCHANGED <<closed, http_worker_count, workerVars, dispatcherVars, dbVars,
                   heap, fate>>

-----------------------------------------------------------------------------
(* http_worker_routine *)

WorkerPop(w) ==
    /\ wpc[w] = "pop"
    /\ requestQ # <<>>
    /\ wtask' = [wtask EXCEPT ![w] = Head(requestQ)]
    /\ requestQ' = Tail(requestQ)
    /\ wpc' = [wpc EXCEPT ![w] = "begin"]
    /\ UNCHANGED <<owner, http_worker_count, made, closed, responseQ, dbQ, wlabel,
                   dispatcherVars, dbVars, heap, fate>>

\* Mutant of WorkerExit: a closed queue ends the worker before it is drained.
WorkerExitEarly(w) ==
    /\ wpc[w] = "pop"
    /\ "request" \in closed
    /\ wpc' = [wpc EXCEPT ![w] = "done"]
    /\ UNCHANGED <<owner, http_worker_count, queues, wtask, wlabel, dispatcherVars,
                   dbVars, heap, fate>>

\* Mutant of WorkerExit: the worker takes NULL for "try again".
WorkerExitNever(w) ==
    /\ wpc[w] = "pop"
    /\ "request" \in closed
    /\ requestQ = <<>>
    /\ UNCHANGED vars

WorkerExit(w) ==
    /\ wpc[w] = "pop"
    /\ "request" \in closed
    /\ requestQ = <<>>
    /\ wpc' = [wpc EXCEPT ![w] = "done"]
    /\ UNCHANGED <<owner, http_worker_count, queues, wtask, wlabel, dispatcherVars,
                   dbVars, heap, fate>>

\* A malformed task, or no memory for the response: the task is freed and
\* nobody is told.
WorkerDrop(w) ==
    /\ wpc[w] = "begin"
    /\ wlabel' = [wlabel EXCEPT ![w] = "cleanup_task"]
    /\ fate' = [fate EXCEPT ![wtask[w]] = "dropped"]
    /\ wpc' = [wpc EXCEPT ![w] = "cleanup"]
    /\ UNCHANGED <<owner, http_worker_count, queues, wtask, dispatcherVars, dbVars,
                   heap>>

\* What a worker has allocated when it pushes the response, and the label it
\* goes to next: curl_easy_init failed; the method or the header list failed;
\* an option failed; the transfer was performed, well or badly.
Attempts(t) ==
    LET headers == IF t \in WithHeaders THEN {"headers"} ELSE {} IN
    { [label |-> "cleanup_task", kinds |-> {"response"}],
      [label |-> "cleanup_curl", kinds |-> {"response", "curl"}],
      [label |-> "cleanup_curl", kinds |-> {"response", "curl"} \cup headers],
      [label |-> "cleanup_header_list",
       kinds |-> {"response", "curl"} \cup headers] }

WorkerPerform(w) ==
    /\ wpc[w] = "begin"
    /\ \E a \in Attempts(wtask[w]) :
          /\ wlabel' = [wlabel EXCEPT ![w] = a.label]
          /\ heap' = heap \cup (a.kinds \X {wtask[w]})
    /\ wpc' = [wpc EXCEPT ![w] = "push"]
    /\ UNCHANGED <<owner, http_worker_count, queues, wtask, dispatcherVars, dbVars,
                   fate>>

\* push_response_or_free
WorkerPush(w) ==
    /\ wpc[w] = "push"
    /\ \/ /\ "response" \notin closed
          /\ responseQ' = Append(responseQ, wtask[w])
          /\ UNCHANGED <<heap, fate>>
       \/ /\ heap' = heap \ {<<"response", wtask[w]>>}
          /\ fate' = [fate EXCEPT ![wtask[w]] = IF "response" \in closed
                                                THEN "refused" ELSE "dropped"]
          /\ UNCHANGED responseQ
    /\ wpc' = [wpc EXCEPT ![w] = "cleanup"]
    /\ UNCHANGED <<owner, http_worker_count, made, closed, requestQ, dbQ, wtask,
                   wlabel, dispatcherVars, dbVars>>

\* Mutant of Freed: push_response_or_free leaves the pointer, so that the label
\* cleanup_response frees what was queued.
FreedResponseToo(label) ==
    CASE label = "cleanup_header_list" -> {"headers", "curl", "response", "task"}
      [] label = "cleanup_curl" -> {"curl", "response", "task"}
      [] label = "cleanup_task" -> {"task"}

\* Mutant of Freed: freeing the header list ends the cleanup.
FreedNoFallThrough(label) ==
    CASE label = "cleanup_header_list" -> {"headers", "task"}
      [] label = "cleanup_curl" -> {"curl", "task"}
      [] label = "cleanup_task" -> {"task"}

\* The labels fall through to cleanup_task.
Freed(label) ==
    CASE label = "cleanup_header_list" -> {"headers", "curl", "task"}
      [] label = "cleanup_curl" -> {"curl", "task"}
      [] label = "cleanup_task" -> {"task"}

WorkerCleanup(w) ==
    /\ wpc[w] = "cleanup"
    /\ heap' = heap \ (Freed(wlabel[w]) \X {wtask[w]})
    /\ wtask' = [wtask EXCEPT ![w] = None]
    /\ wpc' = [wpc EXCEPT ![w] = "pop"]
    /\ UNCHANGED <<owner, http_worker_count, queues, wlabel, dispatcherVars, dbVars,
                   fate>>

WorkerStep(w) ==
    \/ WorkerPop(w) \/ WorkerExit(w) \/ WorkerDrop(w) \/ WorkerPerform(w)
    \/ WorkerPush(w) \/ WorkerCleanup(w)

-----------------------------------------------------------------------------
(* dispatcher_routine *)

DispatcherPop ==
    /\ dpc = "pop"
    /\ responseQ # <<>>
    /\ dresp' = Head(responseQ)
    /\ responseQ' = Tail(responseQ)
    /\ dpc' = "push"
    /\ UNCHANGED <<owner, http_worker_count, made, closed, requestQ, dbQ, workerVars,
                   dbVars, heap, fate>>

DispatcherExit ==
    /\ dpc = "pop"
    /\ "response" \in closed
    /\ responseQ = <<>>
    /\ dpc' = "done"
    /\ UNCHANGED <<owner, http_worker_count, queues, workerVars, dresp, dbVars, heap,
                   fate>>

DispatcherForward ==
    /\ dpc = "push"
    /\ \/ /\ "db" \notin closed
          /\ heap' = heap \cup {<<"dbtask", dresp>>}
          /\ dbQ' = Append(dbQ, dresp)
          /\ UNCHANGED fate
       \/ /\ heap' = heap \ {<<"response", dresp>>}
          /\ fate' = [fate EXCEPT ![dresp] = IF "db" \in closed THEN "refused"
                                             ELSE "dropped"]
          /\ UNCHANGED dbQ
    /\ dresp' = None
    /\ dpc' = "pop"
    /\ UNCHANGED <<owner, http_worker_count, made, closed, requestQ, responseQ,
                   workerVars, dbVars>>

DispatcherStep == DispatcherPop \/ DispatcherExit \/ DispatcherForward

-----------------------------------------------------------------------------
(* db_worker_routine *)

DbPop ==
    /\ bpc = "pop"
    /\ dbQ # <<>>
    /\ btask' = Head(dbQ)
    /\ dbQ' = Tail(dbQ)
    /\ bpc' = "work"
    /\ UNCHANGED <<owner, http_worker_count, made, closed, requestQ, responseQ,
                   workerVars, dispatcherVars, heap, fate>>

DbExit ==
    /\ bpc = "pop"
    /\ "db" \in closed
    /\ dbQ = <<>>
    /\ bpc' = "done"
    /\ UNCHANGED <<owner, http_worker_count, queues, workerVars, dispatcherVars, btask,
                   heap, fate>>

\* The result of db_save_response is ignored.
DbSaveResponse ==
    /\ bpc = "work"
    /\ btask \in Tasks
    /\ \E result \in {"saved", "save_failed"} :
          fate' = [fate EXCEPT ![btask] = result]
    /\ heap' = heap \ {<<"response", btask>>, <<"dbtask", btask>>}
    /\ bpc' = "pop"
    /\ btask' = None
    /\ UNCHANGED <<owner, http_worker_count, queues, workerVars, dispatcherVars>>

\* The other cases of the switch: the data of an unknown command is not freed,
\* and DB_TASK_SHUTDOWN ends the thread with its queue open.
DbCommand ==
    /\ bpc = "work"
    /\ btask \in Commands
    /\ fate' = [fate EXCEPT ![btask] = "saved"]
    /\ heap' = heap \ ({<<"dbtask", btask>>}
                         \cup (IF CommandType[btask] = "unknown" THEN {}
                               ELSE Payload(btask)))
    /\ bpc' = IF CommandType[btask] = "shutdown" THEN "done" ELSE "pop"
    /\ btask' = None
    /\ UNCHANGED <<owner, http_worker_count, queues, workerVars, dispatcherVars>>

DbWorkerStep == DbPop \/ DbExit \/ DbSaveResponse \/ DbCommand

-----------------------------------------------------------------------------
CreateStep == MakeQueues \/ SpawnDbWorker \/ SpawnDispatcher \/ SpawnWorker

DestroyStep ==
    JoinWorkers \/ JoinDispatcher \/ JoinDbWorker \/ FreeQueues

\* The process may end once the runtime is gone.
Ended == owner = "gone" /\ UNCHANGED vars

Next ==
    \/ CreateStep
    \/ \E t \in Tasks : DispatchWorker(t)
    \/ \E c \in Commands : DispatchDb(c)
    \/ CloseRequests \/ DestroyStep
    \/ \E w \in Workers : WorkerStep(w)
    \/ DispatcherStep
    \/ DbWorkerStep
    \/ Ended

\* Every started thread runs; a transfer ends because of CURLOPT_TIMEOUT; a
\* failed create_runtime goes on to destroy.  The owner need not dispatch nor
\* destroy a runtime that it was given.
Fairness ==
    /\ \A w \in Workers : WF_vars(WorkerStep(w))
    /\ WF_vars(DispatcherStep)
    /\ WF_vars(DbWorkerStep)
    /\ WF_vars(CreateStep)
    /\ WF_vars(DestroyStep)
    /\ WF_vars(owner = "destroy" /\ CloseRequests)

SafeSpec == Init /\ [][Next]_vars
Spec == SafeSpec /\ Fairness

-----------------------------------------------------------------------------
(* Properties *)

Resting == {"none", "done"}

\* A queue is closed only once the threads that fill it have been joined, and
\* freed only once nobody can touch it: the order of destroy_runtime
\* (orchestrator.c:105-131).
QueuesOutliveTheirUsers ==
    /\ "response" \in closed => \A w \in Workers : wpc[w] \in Resting
    /\ "db" \in closed => dpc \in Resting
    /\ owner \in {"free_queues", "gone"} =>
          (\A w \in Workers : wpc[w] \in Resting)
             /\ dpc \in Resting /\ bpc \in Resting

\* A response is never thrown away because the next queue is closed, although
\* worker.c:32-34 and orchestrator.c:168-172 are ready to.
NothingRefused == \A t \in Tasks \cup Commands : fate[t] # "refused"

-----------------------------------------------------------------------------
(* The inductive invariant behind the order of destroy_runtime *)

Creating == {"start", "spawn_db", "spawn_dispatcher", "spawn_workers"}
AfterWorkers == {"join_dispatcher", "join_db", "free_queues", "gone"}
AfterDispatcher == {"join_db", "free_queues", "gone"}
AfterDbWorker == {"free_queues", "gone"}

\* How far the owner is says which queues are open and which threads rest
\* (orchestrator.c:39-69, 105-125).
StageInv ==
    /\ "request" \in closed =>
          owner \notin Creating \cup {"running", "destroy"}
    /\ "response" \in closed => owner \in AfterWorkers
    /\ "db" \in closed => owner \in AfterDispatcher
    /\ \A w \in Workers : w > http_worker_count => wpc[w] = "none"
    /\ owner \in AfterWorkers => \A w \in Workers : wpc[w] \in Resting
    /\ owner \in AfterDispatcher => dpc \in Resting
    /\ owner \in AfterDbWorker => bpc \in Resting
    /\ owner \in {"start", "spawn_db", "spawn_dispatcher"} =>
          http_worker_count = 0 /\ dpc = "none"
    /\ owner \in {"start", "spawn_db"} => bpc = "none"
    /\ owner = "spawn_workers" => http_worker_count < NumWorkers

\* A thread that works on something holds it, and one that waits holds nothing.
HandInv ==
    /\ \A w \in Workers : IF wpc[w] \in {"begin", "push", "cleanup"}
                           THEN wtask[w] \in Tasks ELSE wtask[w] = None
    /\ IF dpc = "push" THEN dresp \in Tasks ELSE dresp = None
    /\ IF bpc = "work" THEN btask \in Tasks \cup Commands ELSE btask = None

Objects == Tasks \cup Commands

\* Nothing is dispatched before every thread runs (orchestrator.c:39-69).
StartedInv ==
    /\ \A w \in Workers : w <= http_worker_count => wpc[w] # "none"
    /\ owner \in {"spawn_dispatcher", "spawn_workers"} => bpc # "none"
    /\ owner = "spawn_workers" => dpc # "none"
    /\ owner = "running" \/ (\E o \in Objects : fate[o] # "new") =>
          /\ \A w \in Workers : wpc[w] # "none"
          /\ dpc # "none" /\ bpc # "none"

\* The owner has sent DB_TASK_SHUTDOWN and the DB worker has obeyed.
Stopped == \E c \in Commands : CommandType[c] = "shutdown" /\ fate[c] = "saved"

\* The queues were freed with what DB_TASK_SHUTDOWN had left in them.
CutShort == owner = "gone" /\ Stopped

\* A thread ends with its queue closed and drained (queue.c:77-80); only
\* DB_TASK_SHUTDOWN ends one earlier.
DrainInv ==
    /\ \A w \in Workers : wpc[w] = "done" => "request" \in closed /\ requestQ = <<>>
    /\ dpc = "done" => "response" \in closed /\ responseQ = <<>>
    /\ bpc = "done" => Stopped \/ ("db" \in closed /\ dbQ = <<>>)

Working(w) == wpc[w] \in {"begin", "push"}

\* The response of t is owned somewhere between a worker and the database.
Answered(t) ==
    \/ \E w \in Workers : wpc[w] = "push" /\ wtask[w] = t
    \/ t \in Range(responseQ) \/ t = dresp \/ t \in Range(dbQ) \/ t = btask

Carried(o) ==
    \/ o \in Range(requestQ)
    \/ \E w \in Workers : Working(w) /\ wtask[w] = o
    \/ o \in Range(responseQ) \/ o = dresp \/ o \in Range(dbQ) \/ o = btask

\* What is accepted and not settled is on its way, and nothing else is: the
\* runtime loses only what DB_TASK_SHUTDOWN leaves in the db queue.
CarriedInv ==
    /\ \A o \in Objects : Carried(o) => fate[o] = "accepted"
    /\ \A o \in Objects :
          fate[o] = "accepted" => Carried(o) \/ CutShort
    /\ \A w \in Workers :
          wtask[w] # None => fate[wtask[w]] \notin {"new", "rejected"}

\* Nothing is in two places on its way.
OncePerQueue ==
    IsInjective(requestQ) /\ IsInjective(responseQ) /\ IsInjective(dbQ)

ApartInv ==
    /\ OncePerQueue
    /\ \A v, w \in Workers : wtask[v] = wtask[w] /\ wtask[v] # None => v = w
    /\ \A w \in Workers : wtask[w] \notin Range(requestQ)
    /\ \A t \in Tasks :
          (\/ t \in Range(requestQ)
           \/ \E w \in Workers : Working(w) /\ wtask[w] = t)
          => /\ t \notin Range(responseQ) /\ t # dresp
             /\ t \notin Range(dbQ) /\ t # btask
    /\ \A t \in Range(responseQ) : t # dresp /\ t \notin Range(dbQ) /\ t # btask
    /\ dresp # None => dresp \notin Range(dbQ) /\ dresp # btask
    /\ btask \notin Range(dbQ)

TaskHeld(t) ==
    \/ t \in Range(requestQ)
    \/ \E w \in Workers : wtask[w] = t
    \/ fate[t] = "rejected"

TasksHeld == \A t \in Tasks : <<"task", t>> \in heap <=> TaskHeld(t)

ResponsesHeld ==
    ~CutShort => \A t \in Tasks : <<"response", t>> \in heap <=> Answered(t)

DbTasksHeld ==
    ~CutShort => \A o \in Objects : \A k \in {"dbtask", "payload"} :
        <<k, o>> \in heap =>
            \/ o \in Range(dbQ) \/ o = btask \/ fate[o] = "rejected"
            \/ k = "payload" /\ o \in Commands /\ CommandType[o] = "unknown"

TransfersHeld ==
    /\ \A o \in Objects : <<"headers", o>> \in heap => o \in WithHeaders
    /\ \A o \in Objects : <<"curl", o>> \in heap =>
          \E w \in Workers : /\ wpc[w] \in {"push", "cleanup"} /\ wtask[w] = o
                             /\ wlabel[w] # "cleanup_task"
    /\ \A c \in Commands : <<"task", c>> \notin heap /\ <<"response", c>> \notin heap
    /\ \A o \in Objects : <<"payload", o>> \in heap => o \in Commands /\ Payload(o) # {}

\* Every object but a leaked one has somebody who will free it.
HeapInv == TasksHeld /\ ResponsesHeld /\ DbTasksHeld /\ TransfersHeld

RuntimeInv ==
    /\ TypeOK /\ StageInv /\ HandInv /\ NothingRefused
    /\ StartedInv /\ DrainInv /\ CarriedInv /\ ApartInv /\ HeapInv

-----------------------------------------------------------------------------
\* destroy_runtime returns with every accepted task settled: nodes that
\* destroy_queue frees without their data (queue.c:111-118) hold none
\* (orchestrator.c:105-131, queue.c:77-80).
NothingAbandoned ==
    owner = "gone" /\ ~Stopped =>
        \A t \in Tasks \cup Commands : fate[t] # "accepted"

\* Where the owner of the response of t may find it.
ResponseHolders(t) ==
    {<<"worker", w>> : w \in {v \in Workers : wpc[v] = "push" /\ wtask[v] = t}}
    \cup {<<"responseQ", i>> : i \in {j \in DOMAIN responseQ : responseQ[j] = t}}
    \cup {<<"dispatcher", i>> : i \in {j \in {1} : dresp = t}}
    \cup {<<"dbQ", i>> : i \in {j \in DOMAIN dbQ : dbQ[j] = t}}
    \cup {<<"dbworker", i>> : i \in {j \in {1} : btask = t}}

TaskHolders(t) ==
    {<<"requestQ", i>> : i \in {j \in DOMAIN requestQ : requestQ[j] = t}}
    \cup {<<"worker", w>> : w \in {v \in Workers : wtask[v] = t}}
    \cup {<<"caller", i>> : i \in {j \in {1} : fate[t] = "rejected"}}

\* A task and its response have one owner each while they are allocated and
\* none afterwards: nothing is freed twice, used after it is freed, or lost,
\* whatever fails on the way (worker.c:23-37, 103-288, orchestrator.c:146-176).
HeldOnce ==
    owner # "gone" => \A t \in Tasks :
        /\ Cardinality(ResponseHolders(t)) = IF <<"response", t>> \in heap THEN 1 ELSE 0
        /\ Cardinality(TaskHolders(t)) = IF <<"task", t>> \in heap THEN 1 ELSE 0

CallersOwn(o) == fate[o[2]] = "rejected"

\* What is still allocated once the runtime is gone: the header list of a
\* request whose later option failed, and the data of unknown commands
\* (worker.c:169-236, 354-359).
OnlyKnownLeaks ==
    owner = "gone" /\ ~Stopped => \A o \in heap :
        \/ CallersOwn(o)
        \/ o[1] = "headers" /\ o[2] \in WithHeaders
        \/ o[1] = "payload" /\ CommandType[o[2]] = "unknown"

\* destroy_runtime returns, from a complete runtime or from one that
\* create_runtime could not finish (orchestrator.c:67-69, 102-135).
DestroyReturns == owner \in {"destroy", "join_workers"} ~> owner = "gone"

Phase ==
    IF owner \in {"start", "spawn_db", "spawn_dispatcher", "spawn_workers"}
    THEN "starting"
    ELSE IF owner = "running" THEN "open"
    ELSE IF owner = "gone" THEN "gone" ELSE "closing"

Status == [t \in Tasks |-> IF fate[t] \in {"dropped", "save_failed"} THEN "lost"
                           ELSE fate[t]]

Abstract == INSTANCE Pipeline WITH phase <- Phase, status <- Status

\* The three queues and their threads implement the pipeline, with its
\* fairness: an accepted task is settled without waiting for destroy_runtime
\* (orchestrator.c:12-180, worker.c:105-362).
ImplementsPipeline == Abstract!Spec
=============================================================================
