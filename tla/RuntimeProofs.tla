--------------------------- MODULE RuntimeProofs ---------------------------
(* Proofs about Runtime, for any number of workers, tasks and commands. *)
EXTENDS Runtime, FiniteSetTheorems, SequenceTheorems, TLAPS

-----------------------------------------------------------------------------
(* Queues as sets: what Append and Tail do to the elements of a sequence     *)

LEMMA RangeType ==
    ASSUME NEW S, NEW q \in Seq(S)
    PROVE  Range(q) \subseteq S /\ (Range(q) = {} <=> q = <<>>)
<1>1. DOMAIN q = 1 .. Len(q) /\ Len(q) \in Nat /\ \A i \in 1 .. Len(q) : q[i] \in S
  BY LenProperties, ElementOfSeq
<1>2. q = <<>> <=> Len(q) = 0
  BY EmptySeq
<1>3. ASSUME Range(q) = {} PROVE Len(q) = 0
  <2>1. Len(q) # 0 => 1 \in DOMAIN q
    BY <1>1
  <2> QED
    BY <2>1, <1>1, <1>3 DEF Range
<1>4. ASSUME Len(q) = 0 PROVE Range(q) = {}
  <2>1. DOMAIN q = {}
    BY <1>1, <1>4
  <2> QED
    BY <2>1 DEF Range
<1> QED
  BY <1>1, <1>2, <1>3, <1>4 DEF Range

LEMMA RangeAppend ==
    ASSUME NEW S, NEW q \in Seq(S), NEW x \in S
    PROVE  /\ Range(Append(q, x)) = Range(q) \cup {x}
           /\ IsInjective(q) /\ x \notin Range(q) => IsInjective(Append(q, x))
<1> DEFINE r == Append(q, x)
           n == Len(q)
<1>1. DOMAIN q = 1 .. n /\ n \in Nat
  BY LenProperties
<1>2. r \in Seq(S) /\ Len(r) = n + 1 /\ r[n + 1] = x
      /\ \A i \in 1 .. n : r[i] = q[i]
  BY AppendProperties
<1>3. DOMAIN r = 1 .. n + 1
  BY <1>2, LenProperties
<1> HIDE DEF r, n
<1>4. Range(r) = Range(q) \cup {x}
  <2>1. ASSUME NEW i \in 1 .. n + 1 PROVE i = n + 1 \/ i \in 1 .. n
    BY <1>1
  <2>2. 1 .. n \subseteq 1 .. n + 1 /\ n + 1 \in 1 .. n + 1
    BY <1>1
  <2> QED
    BY <1>1, <1>2, <1>3, <2>1, <2>2 DEF Range
<1>5. ASSUME IsInjective(q), x \notin Range(q), NEW i \in 1 .. n + 1,
             NEW j \in 1 .. n + 1, r[i] = r[j]
      PROVE  i = j
  <2>1. (i = n + 1 \/ i \in 1 .. n) /\ (j = n + 1 \/ j \in 1 .. n)
    BY <1>1
  <2>2. \A k \in 1 .. n : r[k] # x
    BY <1>1, <1>2, <1>5 DEF Range
  <2> QED
    BY <1>1, <1>2, <1>5, <2>1, <2>2 DEF IsInjective
<1> QED
  BY <1>3, <1>4, <1>5 DEF r, IsInjective

LEMMA RangeTail ==
    ASSUME NEW S, NEW q \in Seq(S), q # <<>>
    PROVE  /\ Head(q) \in S /\ Head(q) \in Range(q)
           /\ IsInjective(q) => /\ Range(Tail(q)) = Range(q) \ {Head(q)}
                                /\ IsInjective(Tail(q))
<1> DEFINE r == Tail(q)
           n == Len(q)
<1>1. DOMAIN q = 1 .. n /\ n \in Nat \ {0}
  BY LenProperties, EmptySeq
<1>2. Head(q) \in S /\ r \in Seq(S) /\ Len(r) = n - 1
      /\ \A i \in 1 .. n - 1 : r[i] = q[i + 1]
  BY HeadTailProperties
<1>3. DOMAIN r = 1 .. n - 1
  BY <1>2, LenProperties
<1>4. Head(q) = q[1]
  BY <1>1
<1> HIDE DEF r, n
<1>5. ASSUME IsInjective(q) PROVE Range(r) = Range(q) \ {Head(q)}
  <2>1. ASSUME NEW i \in 1 .. n - 1 PROVE r[i] \in Range(q) \ {Head(q)}
    <3>1. i + 1 \in 1 .. n /\ 1 \in 1 .. n /\ i + 1 # 1 /\ r[i] = q[i + 1]
      BY <1>1, <1>2
    <3> QED
      BY <3>1, <1>1, <1>4, <1>5 DEF Range, IsInjective
  <2>2. ASSUME NEW i \in 1 .. n, q[i] # Head(q) PROVE q[i] \in Range(r)
    <3>1. i - 1 \in 1 .. n - 1 /\ (i - 1) + 1 = i
      BY <1>1, <1>4, <2>2
    <3> QED
      BY <3>1, <1>2, <1>3 DEF Range
  <2> QED
    BY <2>1, <2>2, <1>1, <1>3 DEF Range
<1>6. ASSUME IsInjective(q), NEW i \in 1 .. n - 1, NEW j \in 1 .. n - 1, r[i] = r[j]
      PROVE  i = j
  <2>1. i + 1 \in 1 .. n /\ j + 1 \in 1 .. n /\ r[i] = q[i + 1] /\ r[j] = q[j + 1]
    BY <1>1, <1>2
  <2>2. i + 1 = j + 1
    BY <1>1, <1>6, <2>1 DEF IsInjective
  <2> QED
    BY <2>2
<1>7. Head(q) \in Range(q)
  BY <1>1, <1>4 DEF Range
<1> QED
  BY <1>2, <1>3, <1>5, <1>6, <1>7 DEF r, IsInjective

LEMMA RangeEmpty == Range(<<>>) = {} /\ IsInjective(<<>>)
<1>1. DOMAIN <<>> = {}
  BY EmptySeq, LenProperties
<1> QED
  BY <1>1 DEF Range, IsInjective

-----------------------------------------------------------------------------
LEMMA RuntimeInit == Init => RuntimeInv
<1> SUFFICES ASSUME Init PROVE RuntimeInv
  OBVIOUS
<1> USE RuntimeAssumption DEF Init, Workers
<1>1. TypeOK
  <2>1. requestQ \in Seq(Tasks) /\ responseQ \in Seq(Tasks)
        /\ dbQ \in Seq(Tasks \cup Commands)
    BY EmptySeq
  <2>2. http_worker_count \in 0 .. NumWorkers
    OBVIOUS
  <2> QED
    BY <2>1, <2>2 DEF TypeOK, Fates
<1>2. StageInv
  BY DEF StageInv, Creating, AfterWorkers, AfterDispatcher, AfterDbWorker
<1>3. HandInv /\ NothingRefused /\ StartedInv /\ DrainInv
  BY DEF HandInv, NothingRefused, StartedInv, DrainInv, Objects
<1>4. CarriedInv /\ ApartInv /\ HeapInv
  BY RangeEmpty DEF CarriedInv, Carried, Answered, Working, ApartInv, OncePerQueue,
     HeapInv, TaskHeld, TasksHeld, ResponsesHeld, DbTasksHeld, TransfersHeld, Objects
<1> QED
  BY <1>1, <1>2, <1>3, <1>4 DEF RuntimeInv

(* Types: the queues and the objects stay what they are. *)
LEMMA TypeNext ==
    ASSUME RuntimeAssumption, TypeOK, HandInv, StageInv, [Next]_vars
    PROVE  TypeOK'
<1> USE RuntimeAssumption DEF TypeOK, queues, workerVars, dispatcherVars, dbVars,
      Queues, Fates
<1>1. CASE MakeQueues
  BY <1>1 DEF MakeQueues
<1>2. CASE SpawnDbWorker
  BY <1>2 DEF SpawnDbWorker
<1>3. CASE SpawnDispatcher
  BY <1>3, RuntimeAssumption DEF SpawnDispatcher
<1>4. CASE SpawnWorker
  <2>1. http_worker_count < NumWorkers
    BY <1>4 DEF SpawnWorker, StageInv
  <2>2. http_worker_count' \in 0 .. NumWorkers
    BY <1>4, <2>1 DEF SpawnWorker
  <2>3. wpc' \in [Workers -> {"none", "pop", "begin", "push", "cleanup", "done"}]
    BY <1>4 DEF SpawnWorker
  <2> QED
    BY <1>4, <2>2, <2>3 DEF SpawnWorker
<1>5. ASSUME NEW t \in Tasks, DispatchWorker(t) PROVE TypeOK'
  <2>a. Append(requestQ, t) \in Seq(Tasks)
    BY AppendProperties
  <2>1. requestQ' \in Seq(Tasks)
    BY <1>5, <2>a DEF DispatchWorker
  <2>2. heap' \subseteq Kinds \X (Tasks \cup Commands)
    BY <1>5 DEF DispatchWorker, Kinds
  <2> QED
    BY <1>5, <2>1, <2>2 DEF DispatchWorker, Refusal
<1>6. ASSUME NEW c \in Commands, DispatchDb(c) PROVE TypeOK'
  <2>a. c \in Tasks \cup Commands
    OBVIOUS
  <2>b. Append(dbQ, c) \in Seq(Tasks \cup Commands)
    BY <2>a, AppendProperties
  <2>1. dbQ' \in Seq(Tasks \cup Commands)
    BY <1>6, <2>b DEF DispatchDb
  <2>2. heap' \subseteq Kinds \X (Tasks \cup Commands)
    BY <1>6 DEF DispatchDb, Kinds, Payload
  <2> QED
    BY <1>6, <2>1, <2>2 DEF DispatchDb, Refusal
<1>7. CASE CloseRequests
  BY <1>7 DEF CloseRequests
<1>8. CASE DestroyStep
  <2>1. CASE FreeQueues
    BY <2>1, EmptySeq DEF FreeQueues
  <2> QED
    BY <1>8, <2>1 DEF DestroyStep, JoinWorkers, JoinDispatcher, JoinDbWorker
<1>9. ASSUME NEW w \in Workers, WorkerStep(w) PROVE TypeOK'
  <2>1. CASE WorkerPop(w)
    <3>1. Head(requestQ) \in Tasks /\ Tail(requestQ) \in Seq(Tasks)
      BY <2>1, HeadTailProperties DEF WorkerPop
    <3> QED
      BY <2>1, <3>1 DEF WorkerPop
  <2>2. CASE WorkerExit(w)
    BY <2>2 DEF WorkerExit
  <2>3. CASE WorkerDrop(w)
    BY <2>3 DEF WorkerDrop, HandInv
  <2>4. CASE WorkerPerform(w)
    <3>1. wtask[w] \in Tasks
      BY <2>4 DEF WorkerPerform, HandInv
    <3>2. \A a \in Attempts(wtask[w]) :
             /\ a.label \in {"cleanup_header_list", "cleanup_curl", "cleanup_task"}
             /\ a.kinds \subseteq Kinds
      BY DEF Attempts, Kinds
    <3>3. heap' \subseteq Kinds \X (Tasks \cup Commands)
      BY <2>4, <3>1, <3>2 DEF WorkerPerform
    <3> QED
      BY <2>4, <3>2, <3>3 DEF WorkerPerform
  <2>5. CASE WorkerPush(w)
    <3>1. wtask[w] \in Tasks
      BY <2>5 DEF WorkerPush, HandInv
    <3>a. Append(responseQ, wtask[w]) \in Seq(Tasks)
      BY <3>1, AppendProperties
    <3>2. responseQ' \in Seq(Tasks)
      BY <2>5, <3>a DEF WorkerPush
    <3> QED
      BY <2>5, <3>1, <3>2 DEF WorkerPush
  <2>6. CASE WorkerCleanup(w)
    BY <2>6 DEF WorkerCleanup
  <2> QED
    BY <1>9, <2>1, <2>2, <2>3, <2>4, <2>5, <2>6 DEF WorkerStep
<1>10. CASE DispatcherStep
  <2>1. CASE DispatcherPop
    <3>1. Head(responseQ) \in Tasks /\ Tail(responseQ) \in Seq(Tasks)
      BY <2>1, HeadTailProperties DEF DispatcherPop
    <3> QED
      BY <2>1, <3>1 DEF DispatcherPop
  <2>2. CASE DispatcherExit
    BY <2>2 DEF DispatcherExit
  <2>3. CASE DispatcherForward
    <3>1. dresp \in Tasks
      BY <2>3 DEF DispatcherForward, HandInv
    <3>a. dresp \in Tasks \cup Commands
      BY <3>1
    <3>b. Append(dbQ, dresp) \in Seq(Tasks \cup Commands)
      BY <3>a, AppendProperties
    <3>2. dbQ' \in Seq(Tasks \cup Commands)
      BY <2>3, <3>b DEF DispatcherForward
    <3>3. heap' \subseteq Kinds \X (Tasks \cup Commands)
      BY <2>3, <3>1 DEF DispatcherForward, Kinds
    <3> QED
      BY <2>3, <3>1, <3>2, <3>3 DEF DispatcherForward
  <2> QED
    BY <1>10, <2>1, <2>2, <2>3 DEF DispatcherStep
<1>11. CASE DbWorkerStep
  <2>1. CASE DbPop
    <3>1. Head(dbQ) \in Tasks \cup Commands /\ Tail(dbQ) \in Seq(Tasks \cup Commands)
      BY <2>1, HeadTailProperties DEF DbPop
    <3> QED
      BY <2>1, <3>1 DEF DbPop
  <2>2. CASE DbExit
    BY <2>2 DEF DbExit
  <2>3. CASE DbSaveResponse
    BY <2>3 DEF DbSaveResponse
  <2>4. CASE DbCommand
    BY <2>4 DEF DbCommand
  <2> QED
    BY <1>11, <2>1, <2>2, <2>3, <2>4 DEF DbWorkerStep
<1>12. CASE UNCHANGED vars
  BY <1>12 DEF vars
<1> QED
  BY <1>1, <1>2, <1>3, <1>4, <1>5, <1>6, <1>7, <1>8, <1>9, <1>10, <1>11, <1>12
     DEF Next, CreateStep, Ended

(* A thread that is about to use something was handed it. *)
LEMMA HandNext ==
    ASSUME RuntimeAssumption, TypeOK, StageInv, HandInv, [Next]_vars
    PROVE  HandInv'
<1> USE DEF HandInv, TypeOK, queues, workerVars, dispatcherVars, dbVars
<1>1. ASSUME NEW w \in Workers, WorkerStep(w) PROVE HandInv'
  <2>1. CASE WorkerPop(w)
    <3>1. Head(requestQ) \in Tasks
      BY <2>1, HeadTailProperties DEF WorkerPop
    <3> QED
      BY <2>1, <3>1 DEF WorkerPop
  <2> QED
    BY <1>1, <2>1 DEF WorkerStep, WorkerExit, WorkerDrop, WorkerPerform, WorkerPush,
         WorkerCleanup
<1>2. CASE DispatcherStep
  <2>1. CASE DispatcherPop
    <3>1. Head(responseQ) \in Tasks
      BY <2>1, HeadTailProperties DEF DispatcherPop
    <3> QED
      BY <2>1, <3>1 DEF DispatcherPop
  <2> QED
    BY <1>2, <2>1 DEF DispatcherStep, DispatcherExit, DispatcherForward
<1>3. CASE DbWorkerStep
  <2>1. CASE DbPop
    <3>1. Head(dbQ) \in Tasks \cup Commands
      BY <2>1, HeadTailProperties DEF DbPop
    <3> QED
      BY <2>1, <3>1 DEF DbPop
  <2> QED
    BY <1>3, <2>1 DEF DbWorkerStep, DbExit, DbSaveResponse, DbCommand
<1>4. CASE CreateStep
  <2>1. CASE SpawnWorker
    <3>1. http_worker_count + 1 \in Workers => wpc[http_worker_count + 1] = "none"
      BY RuntimeAssumption DEF StageInv, Workers
    <3>2. \A w \in Workers :
             wpc'[w] = wpc[w] \/ (wpc[w] = "none" /\ wpc'[w] = "pop")
      BY <2>1, <3>1 DEF SpawnWorker
    <3>3. wtask' = wtask /\ dpc' = dpc /\ dresp' = dresp /\ bpc' = bpc /\ btask' = btask
      BY <2>1 DEF SpawnWorker
    <3>4. \A w \in Workers : IF wpc'[w] \in {"begin", "push", "cleanup"}
                            THEN wtask'[w] \in Tasks ELSE wtask'[w] = None
      BY <3>2, <3>3
    <3> QED
      BY <3>3, <3>4
  <2>2. CASE MakeQueues
    BY <2>2 DEF MakeQueues
  <2>3. CASE SpawnDbWorker
    BY <2>3 DEF SpawnDbWorker, StageInv
  <2>4. CASE SpawnDispatcher
    BY <2>4 DEF SpawnDispatcher, StageInv
  <2> QED
    BY <1>4, <2>1, <2>2, <2>3, <2>4 DEF CreateStep
<1>5. CASE \/ \E t \in Tasks : DispatchWorker(t)
           \/ \E c \in Commands : DispatchDb(c)
  BY <1>5 DEF DispatchWorker, DispatchDb
<1>6. CASE CloseRequests \/ DestroyStep
  BY <1>6 DEF CloseRequests, DestroyStep, JoinWorkers, JoinDispatcher, JoinDbWorker,
       FreeQueues
<1>7. CASE UNCHANGED vars
  BY <1>7 DEF vars
<1> QED
  BY <1>1, <1>2, <1>3, <1>4, <1>5, <1>6, <1>7 DEF Next, Ended

(* A resting thread stays at rest once the owner no longer creates threads,  *)
(* and the owner closes a queue only when those who fill it are at rest.     *)
LEMMA StageNext ==
    ASSUME RuntimeAssumption, TypeOK, StageInv, [Next]_vars
    PROVE  StageInv'
<1> USE DEF StageInv, TypeOK, queues, workerVars, dispatcherVars, dbVars, Creating,
      AfterWorkers, AfterDispatcher, AfterDbWorker, Resting
<1>1. CASE MakeQueues
  BY <1>1, RuntimeAssumption DEF MakeQueues, Workers
<1>2. CASE SpawnDbWorker
  BY <1>2 DEF SpawnDbWorker
<1>3. CASE SpawnDispatcher
  BY <1>3, RuntimeAssumption DEF SpawnDispatcher
<1>4. CASE SpawnWorker
  <2>1. CASE owner' = "destroy"
    BY <1>4, <2>1 DEF SpawnWorker
  <2>2. CASE owner' # "destroy"
    <3>1. /\ owner = "spawn_workers"
          /\ http_worker_count' = http_worker_count + 1
          /\ wpc' = [wpc EXCEPT ![http_worker_count'] = "pop"]
          /\ owner' = IF http_worker_count' = NumWorkers THEN "running"
                      ELSE "spawn_workers"
          /\ UNCHANGED <<closed, dpc, bpc>>
      BY <1>4, <2>2 DEF SpawnWorker
    <3>2. http_worker_count \in Nat /\ NumWorkers \in Nat
      BY RuntimeAssumption
    <3>3. ASSUME NEW w \in Workers, w > http_worker_count'
          PROVE  wpc'[w] = "none"
      <4>1. w \in Int /\ w > http_worker_count /\ w # http_worker_count'
        BY <3>1, <3>2, <3>3 DEF Workers
      <4> QED
        BY <3>1, <4>1
    <3>4. owner' = "spawn_workers" => http_worker_count' < NumWorkers
      BY <3>1, <3>2
    <3> QED
      BY <3>1, <3>3, <3>4
  <2> QED
    BY <2>1, <2>2
<1>5. CASE \/ \E t \in Tasks : DispatchWorker(t)
           \/ \E c \in Commands : DispatchDb(c)
  BY <1>5 DEF DispatchWorker, DispatchDb
<1>6. CASE CloseRequests
  BY <1>6 DEF CloseRequests
<1>7. CASE JoinWorkers
  BY <1>7 DEF JoinWorkers, Workers
<1>8. CASE JoinDispatcher
  BY <1>8 DEF JoinDispatcher
<1>9. CASE JoinDbWorker \/ FreeQueues
  BY <1>9 DEF JoinDbWorker, FreeQueues
<1>10. ASSUME NEW w \in Workers, WorkerStep(w) PROVE StageInv'
  BY <1>10 DEF WorkerStep, WorkerPop, WorkerExit, WorkerDrop, WorkerPerform,
       WorkerPush, WorkerCleanup
<1>11. CASE DispatcherStep
  BY <1>11 DEF DispatcherStep, DispatcherPop, DispatcherExit, DispatcherForward
<1>12. CASE DbWorkerStep
  BY <1>12 DEF DbWorkerStep, DbPop, DbExit, DbSaveResponse, DbCommand
<1>13. CASE UNCHANGED vars
  BY <1>13 DEF vars
<1> QED
  BY <1>1, <1>2, <1>3, <1>4, <1>5, <1>6, <1>7, <1>8, <1>9, <1>10, <1>11, <1>12,
     <1>13 DEF Next, CreateStep, DestroyStep, Ended

(* No push finds its queue closed: the pusher has not been joined yet. *)
LEMMA RefusedNext ==
    ASSUME RuntimeAssumption, TypeOK, StageInv, HandInv, NothingRefused, [Next]_vars
    PROVE  NothingRefused'
<1> USE DEF TypeOK, NothingRefused
<1>1. ASSUME NEW t \in Tasks, DispatchWorker(t) PROVE NothingRefused'
  <2>1. "request" \notin closed
    BY <1>1 DEF DispatchWorker, StageInv
  <2> QED
    BY <1>1, <2>1 DEF DispatchWorker, Refusal
<1>2. ASSUME NEW c \in Commands, DispatchDb(c) PROVE NothingRefused'
  <2>1. "db" \notin closed
    BY <1>2 DEF DispatchDb, StageInv, AfterDispatcher
  <2> QED
    BY <1>2, <2>1 DEF DispatchDb, Refusal
<1>3. ASSUME NEW w \in Workers, WorkerPush(w) PROVE NothingRefused'
  <2>1. "response" \notin closed
    BY <1>3 DEF WorkerPush, StageInv, AfterWorkers, Resting
  <2> QED
    BY <1>3, <2>1 DEF WorkerPush
<1>4. CASE DispatcherForward
  <2>1. "db" \notin closed
    BY <1>4 DEF DispatcherForward, StageInv, AfterDispatcher, Resting
  <2> QED
    BY <1>4, <2>1 DEF DispatcherForward
<1>5. ASSUME NEW w \in Workers, WorkerStep(w), ~WorkerPush(w)
      PROVE  NothingRefused'
  BY <1>5 DEF WorkerStep, WorkerPop, WorkerExit, WorkerDrop, WorkerPerform,
       WorkerCleanup
<1>6. CASE DispatcherPop \/ DispatcherExit
  BY <1>6 DEF DispatcherPop, DispatcherExit
<1>7. CASE DbWorkerStep
  BY <1>7 DEF DbWorkerStep, DbPop, DbExit, DbSaveResponse, DbCommand
<1>8. CASE CreateStep \/ CloseRequests \/ DestroyStep \/ UNCHANGED vars
  BY <1>8 DEF CreateStep, MakeQueues, SpawnDbWorker, SpawnDispatcher, SpawnWorker,
       CloseRequests, DestroyStep, JoinWorkers, JoinDispatcher, JoinDbWorker,
       FreeQueues, vars
<1> QED
  BY <1>1, <1>2, <1>3, <1>4, <1>5, <1>6, <1>7, <1>8
     DEF Next, DispatcherStep, Ended

(* Only a dispatch gives a new task a fate, and DB_TASK_SHUTDOWN is not undone. *)
LEMMA FateNext ==
    ASSUME RuntimeAssumption, TypeOK, HandInv, CarriedInv, [Next]_vars
    PROVE  /\ \A o \in Objects : fate[o] = "new" /\ fate'[o] # "new" => owner = "running"
           /\ Stopped => Stopped'
<1> USE RuntimeAssumption DEF TypeOK, Objects
<1>1. CASE \E t \in Tasks : DispatchWorker(t)
  BY <1>1 DEF DispatchWorker, Refusal, Stopped
<1>2. CASE \E c \in Commands : DispatchDb(c)
  BY <1>2 DEF DispatchDb, Refusal, Stopped
<1>3. ASSUME NEW w \in Workers, WorkerDrop(w) \/ WorkerPush(w)
      PROVE  /\ \A o \in Objects : fate'[o] # "new" => fate[o] # "new"
             /\ Stopped => Stopped'
  <2>1. wtask[w] \in Tasks /\ fate[wtask[w]] # "new"
    BY <1>3 DEF WorkerDrop, WorkerPush, HandInv, CarriedInv
  <2> QED
    BY <1>3, <2>1 DEF WorkerDrop, WorkerPush, Stopped
<1>4. CASE DispatcherForward
  <2>1. dresp \in Tasks /\ fate[dresp] # "new"
    BY <1>4 DEF DispatcherForward, HandInv, CarriedInv, Carried
  <2> QED
    BY <1>4, <2>1 DEF DispatcherForward, Stopped
<1>5. CASE DbSaveResponse \/ DbCommand
  <2>1. btask \in Objects /\ fate[btask] # "new"
    BY <1>5 DEF DbSaveResponse, DbCommand, HandInv, CarriedInv, Carried
  <2> QED
    BY <1>5, <2>1 DEF DbSaveResponse, DbCommand, Stopped
<1>6. ASSUME fate' = fate
      PROVE  /\ \A o \in Objects : fate'[o] # "new" => fate[o] # "new"
             /\ Stopped => Stopped'
  BY <1>6 DEF Stopped
<1>7. fate' = fate
      \/ (\E t \in Tasks : DispatchWorker(t)) \/ (\E c \in Commands : DispatchDb(c))
      \/ (\E w \in Workers : WorkerDrop(w) \/ WorkerPush(w))
      \/ DispatcherForward \/ DbSaveResponse \/ DbCommand
  BY DEF Next, vars, CreateStep, MakeQueues, SpawnDbWorker, SpawnDispatcher,
     SpawnWorker, CloseRequests, DestroyStep, JoinWorkers, JoinDispatcher,
     JoinDbWorker, FreeQueues, WorkerStep, WorkerPop, WorkerExit, WorkerPerform,
     WorkerCleanup, DispatcherStep, DispatcherPop, DispatcherExit, DbWorkerStep,
     DbPop, DbExit, Ended
<1> QED
  BY <1>1, <1>2, <1>3, <1>4, <1>5, <1>6, <1>7

(* A thread that was started stays started. *)
LEMMA ThreadsStay ==
    ASSUME TypeOK, [Next]_vars
    PROVE  /\ \A w \in Workers : wpc[w] # "none" => wpc'[w] # "none"
           /\ dpc # "none" => dpc' # "none"
           /\ bpc # "none" => bpc' # "none"
<1> USE DEF TypeOK
<1>1. \A w \in Workers : wpc[w] # "none" => wpc'[w] # "none"
  BY DEF Next, vars, queues, workerVars, dispatcherVars, dbVars, CreateStep,
     MakeQueues, SpawnDbWorker, SpawnDispatcher, SpawnWorker, DispatchWorker,
     DispatchDb, CloseRequests, DestroyStep, JoinWorkers, JoinDispatcher,
     JoinDbWorker, FreeQueues, WorkerStep, WorkerPop, WorkerExit, WorkerDrop,
     WorkerPerform, WorkerPush, WorkerCleanup, DispatcherStep, DispatcherPop,
     DispatcherExit, DispatcherForward, DbWorkerStep, DbPop, DbExit,
     DbSaveResponse, DbCommand, Ended
<1>2. (dpc # "none" => dpc' # "none") /\ (bpc # "none" => bpc' # "none")
  BY DEF Next, vars, queues, workerVars, dispatcherVars, dbVars, CreateStep,
     MakeQueues, SpawnDbWorker, SpawnDispatcher, SpawnWorker, DispatchWorker,
     DispatchDb, CloseRequests, DestroyStep, JoinWorkers, JoinDispatcher,
     JoinDbWorker, FreeQueues, WorkerStep, WorkerPop, WorkerExit, WorkerDrop,
     WorkerPerform, WorkerPush, WorkerCleanup, DispatcherStep, DispatcherPop,
     DispatcherExit, DispatcherForward, DbWorkerStep, DbPop, DbExit,
     DbSaveResponse, DbCommand, Ended
<1> QED
  BY <1>1, <1>2

(* Nothing is dispatched before every thread runs. *)
LEMMA StartedNext ==
    ASSUME RuntimeAssumption, TypeOK, StageInv, HandInv, CarriedInv, StartedInv,
           [Next]_vars
    PROVE  StartedInv'
<1> DEFINE AllRun == /\ \A w \in Workers : wpc[w] # "none"
                     /\ dpc # "none" /\ bpc # "none"
<1>1. AllRun => AllRun'
  BY ThreadsStay
<1>2. (\E o \in Objects : fate[o] # "new") \/ owner = "running" => AllRun
  BY DEF StartedInv
<1>3. (\E o \in Objects : fate'[o] # "new")
         => (\E o \in Objects : fate[o] # "new") \/ owner = "running"
  BY FateNext
<1>4. (\E o \in Objects : fate[o] # "new")' => AllRun'
  BY <1>1, <1>2, <1>3 DEF Objects
<1>5. CASE CreateStep
  <2> USE DEF TypeOK, StartedInv, queues, workerVars, dispatcherVars, dbVars
  <2>1. CASE MakeQueues
    BY <2>1 DEF MakeQueues, Objects
  <2>2. CASE SpawnDbWorker
    BY <2>2 DEF SpawnDbWorker, Objects
  <2>3. CASE SpawnDispatcher
    BY <2>3 DEF SpawnDispatcher, Objects
  <2>4. CASE SpawnWorker /\ owner' = "destroy"
    BY <2>4 DEF SpawnWorker, Objects
  <2>5. CASE SpawnWorker /\ owner' # "destroy"
    <3>1. /\ owner = "spawn_workers"
          /\ http_worker_count' = http_worker_count + 1
          /\ wpc' = [wpc EXCEPT ![http_worker_count'] = "pop"]
          /\ owner' = IF http_worker_count' = NumWorkers THEN "running"
                      ELSE "spawn_workers"
          /\ UNCHANGED <<dpc, bpc>>
      BY <2>5 DEF SpawnWorker
    <3>2. http_worker_count \in Nat /\ NumWorkers \in Nat
      BY RuntimeAssumption
    <3>3. ASSUME NEW w \in Workers, w <= http_worker_count'
          PROVE  wpc'[w] # "none"
      <4>1. w \in Int /\ (w <= http_worker_count \/ w = http_worker_count')
        BY <3>1, <3>2, <3>3 DEF Workers
      <4> QED
        BY <3>1, <4>1
    <3>4. owner' = "running" => \A w \in Workers : wpc'[w] # "none"
      BY <3>1, <3>2, <3>3 DEF Workers
    <3> QED
      BY <3>1, <3>3, <3>4, <1>4
  <2> QED
    BY <1>5, <2>1, <2>2, <2>3, <2>4, <2>5 DEF CreateStep
<1>6. ASSUME UNCHANGED http_worker_count,
             owner' = owner \/ owner' \notin Creating \cup {"running"}
      PROVE  StartedInv'
  <2>1. \A w \in Workers : w <= http_worker_count' => wpc'[w] # "none"
    BY <1>6, ThreadsStay DEF StartedInv
  <2>2. /\ owner' \in {"spawn_dispatcher", "spawn_workers"} => bpc' # "none"
        /\ owner' = "spawn_workers" => dpc' # "none"
    BY <1>6, ThreadsStay DEF StartedInv, Creating
  <2>3. owner' = "running" => AllRun'
    BY <1>1, <1>2, <1>6
  <2> QED
    BY <1>4, <2>1, <2>2, <2>3 DEF StartedInv
<1>7. CreateStep \/ (/\ UNCHANGED http_worker_count
                     /\ owner' = owner \/ owner' \notin Creating \cup {"running"})
  BY DEF Creating, Next, vars, queues, DispatchWorker, DispatchDb, CloseRequests,
     DestroyStep, JoinWorkers, JoinDispatcher, JoinDbWorker, FreeQueues, WorkerStep,
     WorkerPop, WorkerExit, WorkerDrop, WorkerPerform, WorkerPush, WorkerCleanup,
     DispatcherStep, DispatcherPop, DispatcherExit, DispatcherForward, DbWorkerStep,
     DbPop, DbExit, DbSaveResponse, DbCommand, Ended
<1> QED
  BY <1>5, <1>6, <1>7

(* A thread that ended left an empty queue, and nobody fills it again. *)
LEMMA DrainNext ==
    ASSUME RuntimeAssumption, TypeOK, StageInv, HandInv, CarriedInv, DrainInv,
           [Next]_vars
    PROVE  DrainInv'
<1> USE DEF TypeOK, DrainInv, queues, workerVars, dispatcherVars, dbVars
<1>0. Stopped => Stopped'
  BY FateNext
<1>1. CASE CreateStep
  BY <1>0, <1>1 DEF CreateStep, MakeQueues, SpawnDbWorker, SpawnDispatcher, SpawnWorker
<1>2. ASSUME NEW t \in Tasks, DispatchWorker(t) PROVE DrainInv'
  <2>1. "request" \notin closed
    BY <1>2 DEF DispatchWorker, StageInv
  <2> QED
    BY <1>0, <1>2, <2>1 DEF DispatchWorker
<1>3. ASSUME NEW c \in Commands, DispatchDb(c) PROVE DrainInv'
  <2>1. "db" \notin closed
    BY <1>3 DEF DispatchDb, StageInv, AfterDispatcher
  <2> QED
    BY <1>0, <1>3, <2>1 DEF DispatchDb
<1>4. CASE CloseRequests \/ DestroyStep
  BY <1>0, <1>4 DEF CloseRequests, DestroyStep, JoinWorkers, JoinDispatcher,
     JoinDbWorker, FreeQueues
<1>5. ASSUME NEW w \in Workers, WorkerStep(w) PROVE DrainInv'
  <2>1. CASE WorkerPop(w)
    BY <1>0, <2>1 DEF WorkerPop
  <2>2. CASE WorkerPush(w)
    <3>1. "response" \notin closed
      BY <2>2 DEF WorkerPush, StageInv, AfterWorkers, Resting
    <3> QED
      BY <1>0, <2>2, <3>1 DEF WorkerPush
  <2> QED
    BY <1>0, <1>5, <2>1, <2>2 DEF WorkerStep, WorkerExit, WorkerDrop, WorkerPerform,
       WorkerCleanup
<1>6. CASE DispatcherStep
  <2>1. CASE DispatcherForward
    <3>1. "db" \notin closed
      BY <2>1 DEF DispatcherForward, StageInv, AfterDispatcher, Resting
    <3> QED
      BY <1>0, <2>1, <3>1 DEF DispatcherForward
  <2> QED
    BY <1>0, <1>6, <2>1 DEF DispatcherStep, DispatcherPop, DispatcherExit
<1>7. CASE DbWorkerStep
  <2>1. CASE DbCommand
    <3>1. CommandType[btask] = "shutdown" => Stopped'
      BY <2>1, RuntimeAssumption DEF DbCommand, Stopped
    <3> QED
      BY <1>0, <2>1, <3>1 DEF DbCommand
  <2> QED
    BY <1>0, <1>7, <2>1 DEF DbWorkerStep, DbPop, DbExit, DbSaveResponse
<1>8. CASE UNCHANGED vars
  BY <1>0, <1>8 DEF vars
<1> QED
  BY <1>1, <1>2, <1>3, <1>4, <1>5, <1>6, <1>7, <1>8 DEF Next, Ended

(* What is accepted moves from place to place until it is settled. *)
LEMMA CarriedNext ==
    ASSUME RuntimeAssumption, TypeOK, StageInv, HandInv, StartedInv, DrainInv,
           ApartInv, CarriedInv, [Next]_vars
    PROVE  CarriedInv'
<1> USE RuntimeAssumption DEF TypeOK, HandInv, CarriedInv, Carried, Working, Objects,
      CutShort, Stopped, queues, workerVars, dispatcherVars, dbVars
<1>0. Range(requestQ) \subseteq Tasks /\ Range(responseQ) \subseteq Tasks
      /\ Range(dbQ) \subseteq Objects
  BY RangeType
<1>1. CASE CreateStep
  <2>1. CASE SpawnWorker
    <3>1. http_worker_count + 1 \in Workers => wpc[http_worker_count + 1] = "none"
      BY DEF StageInv, Workers
    <3>2. \A w \in Workers : Working(w)' <=> Working(w)
      BY <2>1, <3>1 DEF SpawnWorker
    <3>3. owner # "gone" /\ owner' # "gone"
          /\ UNCHANGED <<requestQ, responseQ, dbQ, wtask, dresp, btask, fate>>
      BY <2>1 DEF SpawnWorker
    <3> QED
      BY <3>2, <3>3
  <2>2. CASE MakeQueues
    BY <2>2 DEF MakeQueues
  <2>3. CASE SpawnDbWorker \/ SpawnDispatcher
    BY <2>3 DEF SpawnDbWorker, SpawnDispatcher
  <2> QED
    BY <1>1, <2>1, <2>2, <2>3 DEF CreateStep
<1>2. ASSUME NEW t \in Tasks, DispatchWorker(t) PROVE CarriedInv'
  <2>1. fate[t] = "new" /\ ~Carried(t)
    BY <1>2 DEF DispatchWorker
  <2>2. UNCHANGED <<owner, responseQ, dbQ, wpc, wtask, dresp, btask>>
    BY <1>2 DEF DispatchWorker
  <2>3. CASE requestQ' = Append(requestQ, t) /\ fate' = [fate EXCEPT ![t] = "accepted"]
    <3>1. Range(requestQ') = Range(requestQ) \cup {t}
      BY <2>3, RangeAppend
    <3> QED
      BY <1>0, <2>1, <2>2, <2>3, <3>1
  <2>4. CASE requestQ' = requestQ /\ fate' = [fate EXCEPT ![t] = Refusal("request")]
    BY <2>1, <2>2, <2>4 DEF Refusal
  <2> QED
    BY <1>2, <2>3, <2>4 DEF DispatchWorker
<1>3. ASSUME NEW c \in Commands, DispatchDb(c) PROVE CarriedInv'
  <2>1. fate[c] = "new" /\ ~Carried(c)
    BY <1>3 DEF DispatchDb
  <2>2. UNCHANGED <<owner, requestQ, responseQ, wpc, wtask, dresp, btask>>
    BY <1>3 DEF DispatchDb
  <2>3. CASE dbQ' = Append(dbQ, c) /\ fate' = [fate EXCEPT ![c] = "accepted"]
    <3>1. Range(dbQ') = Range(dbQ) \cup {c}
      BY <2>3, RangeAppend
    <3> QED
      BY <1>0, <2>1, <2>2, <2>3, <3>1
  <2>4. CASE dbQ' = dbQ /\ fate' = [fate EXCEPT ![c] = Refusal("db")]
    BY <2>1, <2>2, <2>4 DEF Refusal
  <2> QED
    BY <1>3, <2>3, <2>4 DEF DispatchDb
<1>4. CASE CloseRequests \/ JoinWorkers \/ JoinDispatcher \/ JoinDbWorker
  BY <1>4 DEF CloseRequests, JoinWorkers, JoinDispatcher, JoinDbWorker
<1>5. CASE FreeQueues
  <2>1. /\ \A w \in Workers : wpc[w] \in Resting
        /\ dpc \in Resting /\ bpc \in Resting
    BY <1>5 DEF FreeQueues, StageInv, AfterWorkers, AfterDispatcher, AfterDbWorker
  <2>2. (\A w \in Workers : ~Working(w) /\ wtask[w] = None)
        /\ dresp = None /\ btask = None
    BY <2>1 DEF Resting
  <2>3. ASSUME NEW o \in Objects, fate[o] = "accepted" PROVE Stopped
    <3>1. wpc[1] = "done" /\ dpc = "done" /\ bpc = "done"
      BY <2>1, <2>3 DEF StartedInv, Resting, Workers
    <3>2. requestQ = <<>> /\ responseQ = <<>> /\ (Stopped \/ dbQ = <<>>)
      BY <3>1 DEF DrainInv, Workers
    <3> QED
      BY <2>2, <2>3, <3>2, RangeEmpty, <1>5 DEF FreeQueues
  <2> QED
    BY <1>5, <2>2, <2>3, RangeEmpty DEF FreeQueues
<1>6. ASSUME NEW w \in Workers, WorkerStep(w) PROVE CarriedInv'
  <2>1. CASE WorkerPop(w)
    <3>1. /\ Head(requestQ) \in Range(requestQ)
          /\ Range(Tail(requestQ)) = Range(requestQ) \ {Head(requestQ)}
      BY <2>1, RangeTail DEF WorkerPop, ApartInv, OncePerQueue
    <3> QED
      BY <1>0, <2>1, <3>1 DEF WorkerPop
  <2>2. CASE WorkerExit(w)
    BY <2>2 DEF WorkerExit
  <2>3. CASE WorkerDrop(w)
    BY <1>0, <2>3 DEF WorkerDrop, ApartInv
  <2>4. CASE WorkerPerform(w)
    BY <2>4 DEF WorkerPerform
  <2>5. CASE WorkerPush(w)
    <3> DEFINE t == wtask[w]
    <3>1. t \in Tasks /\ wpc[w] = "push" /\ wpc' = [wpc EXCEPT ![w] = "cleanup"]
      BY <2>5 DEF WorkerPush
    <3>2. UNCHANGED <<owner, requestQ, dbQ, wtask, dresp, btask>>
      BY <2>5 DEF WorkerPush
    <3>3. CASE responseQ' = Append(responseQ, t) /\ fate' = fate
      <4>1. Range(responseQ') = Range(responseQ) \cup {t}
        BY <3>1, <3>3, RangeAppend
      <4> QED
        BY <1>0, <3>1, <3>2, <3>3, <4>1
    <3>4. CASE responseQ' = responseQ /\ fate' = [fate EXCEPT ![t] =
                       IF "response" \in closed THEN "refused" ELSE "dropped"]
      <4>1. ~Carried(t)'
        BY <1>0, <3>1, <3>2, <3>4 DEF ApartInv
      <4> QED
        BY <1>0, <3>1, <3>2, <3>4, <4>1
    <3> QED
      BY <2>5, <3>3, <3>4 DEF WorkerPush
  <2>6. CASE WorkerCleanup(w)
    BY <2>6 DEF WorkerCleanup
  <2> QED
    BY <1>6, <2>1, <2>2, <2>3, <2>4, <2>5, <2>6 DEF WorkerStep
<1>7. CASE DispatcherStep
  <2>1. CASE DispatcherPop
    <3>1. /\ Head(responseQ) \in Range(responseQ)
          /\ Range(Tail(responseQ)) = Range(responseQ) \ {Head(responseQ)}
      BY <2>1, RangeTail DEF DispatcherPop, ApartInv, OncePerQueue
    <3> QED
      BY <1>0, <2>1, <3>1 DEF DispatcherPop
  <2>2. CASE DispatcherExit
    BY <2>2 DEF DispatcherExit
  <2>3. CASE DispatcherForward
    <3>1. dresp \in Tasks /\ dresp' = None
      BY <2>3 DEF DispatcherForward
    <3>2. UNCHANGED <<owner, requestQ, responseQ, wpc, wtask, btask>>
      BY <2>3 DEF DispatcherForward
    <3>3. CASE dbQ' = Append(dbQ, dresp) /\ fate' = fate
      <4>1. Range(dbQ') = Range(dbQ) \cup {dresp}
        BY <3>1, <3>3, RangeAppend
      <4> QED
        BY <1>0, <3>1, <3>2, <3>3, <4>1
    <3>4. CASE dbQ' = dbQ /\ fate' = [fate EXCEPT ![dresp] =
                       IF "db" \in closed THEN "refused" ELSE "dropped"]
      <4>1. PICK t \in Tasks : t = dresp
        BY <3>1
      <4>2. ~Carried(t)'
        BY <1>0, <3>1, <3>2, <3>4, <4>1 DEF ApartInv
      <4> QED
        BY <1>0, <3>1, <3>2, <3>4, <4>1, <4>2
    <3> QED
      BY <2>3, <3>3, <3>4 DEF DispatcherForward
  <2> QED
    BY <1>7, <2>1, <2>2, <2>3 DEF DispatcherStep
<1>8. CASE DbWorkerStep
  <2>1. CASE DbPop
    <3>1. /\ Head(dbQ) \in Range(dbQ)
          /\ Range(Tail(dbQ)) = Range(dbQ) \ {Head(dbQ)}
      BY <2>1, RangeTail DEF DbPop, ApartInv, OncePerQueue
    <3> QED
      BY <1>0, <2>1, <3>1 DEF DbPop
  <2>2. CASE DbExit
    BY <2>2 DEF DbExit
  <2>3. CASE DbSaveResponse
    BY <1>0, <2>3 DEF DbSaveResponse, ApartInv
  <2>4. CASE DbCommand
    BY <1>0, <2>4 DEF DbCommand, ApartInv
  <2> QED
    BY <1>8, <2>1, <2>2, <2>3, <2>4 DEF DbWorkerStep
<1>9. CASE UNCHANGED vars
  BY <1>9 DEF vars
<1> QED
  BY <1>1, <1>2, <1>3, <1>4, <1>5, <1>6, <1>7, <1>8, <1>9
     DEF Next, DestroyStep, Ended

(* Nothing is ever in two places: it leaves one as it enters the next. *)
LEMMA ApartNext ==
    ASSUME RuntimeAssumption, TypeOK, StageInv, HandInv, CarriedInv, ApartInv,
           [Next]_vars
    PROVE  ApartInv'
<1> USE RuntimeAssumption DEF TypeOK, HandInv, ApartInv, OncePerQueue, Working,
      queues, workerVars, dispatcherVars, dbVars
<1>0. Range(requestQ) \subseteq Tasks /\ Range(responseQ) \subseteq Tasks
      /\ Range(dbQ) \subseteq Tasks \cup Commands
  BY RangeType
<1>1. CASE CreateStep
  <2>1. CASE SpawnWorker
    <3>1. http_worker_count + 1 \in Workers => wpc[http_worker_count + 1] = "none"
      BY DEF StageInv, Workers
    <3>2. \A w \in Workers : Working(w)' <=> Working(w)
      BY <2>1, <3>1 DEF SpawnWorker
    <3>3. UNCHANGED <<requestQ, responseQ, dbQ, wtask, dresp, btask>>
      BY <2>1 DEF SpawnWorker
    <3> QED
      BY <3>2, <3>3
  <2>2. CASE MakeQueues \/ SpawnDbWorker \/ SpawnDispatcher
    BY <2>2 DEF MakeQueues, SpawnDbWorker, SpawnDispatcher
  <2> QED
    BY <1>1, <2>1, <2>2 DEF CreateStep
<1>2. ASSUME NEW t \in Tasks, DispatchWorker(t) PROVE ApartInv'
  <2>1. ~Carried(t) /\ \A w \in Workers : wtask[w] # t
    BY <1>2 DEF DispatchWorker, CarriedInv, Objects
  <2>2. UNCHANGED <<responseQ, dbQ, wpc, wtask, dresp, btask>>
    BY <1>2 DEF DispatchWorker
  <2>3. CASE requestQ' = Append(requestQ, t)
    <3>1. Range(requestQ') = Range(requestQ) \cup {t} /\ IsInjective(requestQ')
      BY <2>1, <2>3, RangeAppend DEF Carried
    <3> QED
      BY <1>0, <2>1, <2>2, <3>1 DEF Carried
  <2>4. CASE requestQ' = requestQ
    BY <2>2, <2>4
  <2> QED
    BY <1>2, <2>3, <2>4 DEF DispatchWorker
<1>3. ASSUME NEW c \in Commands, DispatchDb(c) PROVE ApartInv'
  <2>1. ~Carried(c)
    BY <1>3 DEF DispatchDb, CarriedInv, Objects
  <2>2. UNCHANGED <<requestQ, responseQ, wpc, wtask, dresp, btask>>
    BY <1>3 DEF DispatchDb
  <2>3. CASE dbQ' = Append(dbQ, c)
    <3>1. Range(dbQ') = Range(dbQ) \cup {c} /\ IsInjective(dbQ')
      BY <2>1, <2>3, RangeAppend DEF Carried
    <3> QED
      BY <1>0, <2>1, <2>2, <3>1 DEF Carried
  <2>4. CASE dbQ' = dbQ
    BY <2>2, <2>4
  <2> QED
    BY <1>3, <2>3, <2>4 DEF DispatchDb
<1>4. CASE CloseRequests \/ JoinWorkers \/ JoinDispatcher \/ JoinDbWorker
  BY <1>4 DEF CloseRequests, JoinWorkers, JoinDispatcher, JoinDbWorker
<1>5. CASE FreeQueues
  BY <1>5, RangeEmpty DEF FreeQueues
<1>6. ASSUME NEW w \in Workers, WorkerStep(w) PROVE ApartInv'
  <2>1. CASE WorkerPop(w)
    <3>1. /\ Head(requestQ) \in Range(requestQ) /\ Head(requestQ) \in Tasks
          /\ Range(Tail(requestQ)) = Range(requestQ) \ {Head(requestQ)}
          /\ IsInjective(Tail(requestQ))
      BY <2>1, RangeTail DEF WorkerPop
    <3>2. PICK t \in Tasks : t = Head(requestQ)
      BY <3>1
    <3>3. /\ wtask' = [wtask EXCEPT ![w] = t] /\ wpc' = [wpc EXCEPT ![w] = "begin"]
          /\ Range(requestQ') = Range(requestQ) \ {t} /\ IsInjective(requestQ')
          /\ UNCHANGED <<responseQ, dbQ, dresp, btask>>
      BY <2>1, <3>1, <3>2 DEF WorkerPop
    <3> QED
      BY <1>0, <3>1, <3>2, <3>3
  <2>2. CASE WorkerExit(w) \/ WorkerDrop(w) \/ WorkerPerform(w)
    BY <2>2 DEF WorkerExit, WorkerDrop, WorkerPerform
  <2>3. CASE WorkerPush(w)
    <3>1. PICK t \in Tasks : t = wtask[w]
      BY <2>3 DEF WorkerPush
    <3>2. /\ wpc[w] = "push" /\ wpc' = [wpc EXCEPT ![w] = "cleanup"]
          /\ UNCHANGED <<requestQ, dbQ, wtask, dresp, btask>>
      BY <2>3 DEF WorkerPush
    <3>3. CASE responseQ' = Append(responseQ, t)
      <4>1. Range(responseQ') = Range(responseQ) \cup {t} /\ IsInjective(responseQ')
        BY <3>1, <3>2, <3>3, RangeAppend
      <4> QED
        BY <1>0, <3>1, <3>2, <4>1
    <3>4. CASE responseQ' = responseQ
      BY <3>2, <3>4
    <3> QED
      BY <2>3, <3>1, <3>3, <3>4 DEF WorkerPush
  <2>4. CASE WorkerCleanup(w)
    BY <1>0, <2>4 DEF WorkerCleanup
  <2> QED
    BY <1>6, <2>1, <2>2, <2>3, <2>4 DEF WorkerStep
<1>7. CASE DispatcherStep
  <2>1. CASE DispatcherPop
    <3>1. /\ Head(responseQ) \in Range(responseQ) /\ Head(responseQ) \in Tasks
          /\ Range(Tail(responseQ)) = Range(responseQ) \ {Head(responseQ)}
          /\ IsInjective(Tail(responseQ))
      BY <2>1, RangeTail DEF DispatcherPop
    <3> QED
      BY <1>0, <2>1, <3>1 DEF DispatcherPop
  <2>2. CASE DispatcherExit
    BY <2>2 DEF DispatcherExit
  <2>3. CASE DispatcherForward
    <3>1. PICK t \in Tasks : t = dresp
      BY <2>3 DEF DispatcherForward
    <3>2. dresp' = None /\ UNCHANGED <<requestQ, responseQ, wpc, wtask, btask>>
      BY <2>3 DEF DispatcherForward
    <3>3. CASE dbQ' = Append(dbQ, t)
      <4>1. Range(dbQ') = Range(dbQ) \cup {t} /\ IsInjective(dbQ')
        BY <3>1, <3>3, RangeAppend
      <4> QED
        BY <1>0, <3>1, <3>2, <4>1
    <3>4. CASE dbQ' = dbQ
      BY <1>0, <3>2, <3>4
    <3> QED
      BY <2>3, <3>1, <3>3, <3>4 DEF DispatcherForward
  <2> QED
    BY <1>7, <2>1, <2>2, <2>3 DEF DispatcherStep
<1>8. CASE DbWorkerStep
  <2>1. CASE DbPop
    <3>1. /\ Head(dbQ) \in Range(dbQ)
          /\ Range(Tail(dbQ)) = Range(dbQ) \ {Head(dbQ)}
          /\ IsInjective(Tail(dbQ))
      BY <2>1, RangeTail DEF DbPop
    <3> QED
      BY <1>0, <2>1, <3>1 DEF DbPop
  <2>2. CASE DbExit \/ DbSaveResponse \/ DbCommand
    BY <1>0, <2>2 DEF DbExit, DbSaveResponse, DbCommand
  <2> QED
    BY <1>8, <2>1, <2>2 DEF DbWorkerStep
<1>9. CASE UNCHANGED vars
  BY <1>9 DEF vars
<1> QED
  BY <1>1, <1>2, <1>3, <1>4, <1>5, <1>6, <1>7, <1>8, <1>9
     DEF Next, DestroyStep, Ended

-----------------------------------------------------------------------------
(* What the steps of a worker do to the heap, kind by kind                   *)

LEMMA AttemptKinds ==
    ASSUME NEW t, NEW a \in Attempts(t)
    PROVE  /\ "response" \in a.kinds
           /\ \A k \in {"task", "dbtask", "payload"} : k \notin a.kinds
           /\ "headers" \in a.kinds => t \in WithHeaders
           /\ "curl" \in a.kinds => a.label # "cleanup_task"
  BY DEF Attempts

LEMMA FreedKinds ==
    ASSUME NEW label \in {"cleanup_header_list", "cleanup_curl", "cleanup_task"}
    PROVE  /\ "task" \in Freed(label)
           /\ \A k \in {"response", "dbtask", "payload"} : k \notin Freed(label)
           /\ label # "cleanup_task" => "curl" \in Freed(label)
  BY DEF Freed

LEMMA HeapGains ==
    ASSUME NEW ks, NEW t, NEW objects, NEW k, NEW o
    PROVE  <<k, o>> \in objects \cup (ks \X {t})
              <=> <<k, o>> \in objects \/ (k \in ks /\ o = t)
  OBVIOUS

LEMMA HeapLoses ==
    ASSUME NEW ks, NEW t, NEW objects, NEW k, NEW o
    PROVE  <<k, o>> \in objects \ (ks \X {t})
              <=> <<k, o>> \in objects /\ ~(k \in ks /\ o = t)
  OBVIOUS

LEMMA PayloadKinds ==
    ASSUME NEW c, NEW objects, NEW k, NEW o
    PROVE  <<k, o>> \in objects \cup {<<"dbtask", c>>} \cup Payload(c)
              <=> \/ <<k, o>> \in objects
                  \/ k = "dbtask" /\ o = c
                  \/ k = "payload" /\ o = c /\ Payload(c) # {}
  BY DEF Payload

(* The heap follows the pointers: an object is freed by its last holder. *)
LEMMA HeapNext ==
    ASSUME RuntimeAssumption, TypeOK, StageInv, HandInv, NothingRefused, StartedInv,
           DrainInv, CarriedInv, ApartInv, HeapInv, [Next]_vars
    PROVE  HeapInv'
<1> USE RuntimeAssumption DEF TypeOK, HandInv, Working, Objects,
      HeapInv, TaskHeld, TasksHeld, ResponsesHeld, DbTasksHeld, TransfersHeld,
      queues, workerVars, dispatcherVars, dbVars
<1>0. Range(requestQ) \subseteq Tasks /\ Range(responseQ) \subseteq Tasks
      /\ Range(dbQ) \subseteq Tasks \cup Commands
  BY RangeType
<1>a. ~CutShort' => ~CutShort
  <2>1. Stopped => Stopped'
    BY FateNext
  <2>2. owner = "gone" => owner' = "gone"
    BY DEF Next, vars, CreateStep, MakeQueues, SpawnDbWorker, SpawnDispatcher,
       SpawnWorker, DispatchWorker, DispatchDb, CloseRequests, DestroyStep,
       JoinWorkers, JoinDispatcher, JoinDbWorker, FreeQueues, WorkerStep, WorkerPop,
       WorkerExit, WorkerDrop, WorkerPerform, WorkerPush, WorkerCleanup,
       DispatcherStep, DispatcherPop, DispatcherExit, DispatcherForward,
       DbWorkerStep, DbPop, DbExit, DbSaveResponse, DbCommand, Ended
  <2> QED
    BY <2>1, <2>2 DEF CutShort
<1>b. ASSUME UNCHANGED <<requestQ, wtask, fate>>
      PROVE  \A u \in Tasks : TaskHeld(u)' <=> TaskHeld(u)
  BY <1>b DEF TaskHeld
<1>c. ASSUME UNCHANGED <<responseQ, dbQ, wpc, wtask, dresp, btask>>
      PROVE  \A u \in Tasks : Answered(u)' <=> Answered(u)
  BY <1>c DEF Answered
<1>1. CASE CreateStep
  <2>1. CASE SpawnWorker
    <3>1. http_worker_count + 1 \in Workers => wpc[http_worker_count + 1] = "none"
      BY DEF StageInv, Workers
    <3>2. \A w \in Workers :
             wpc'[w] = wpc[w] \/ (wpc[w] = "none" /\ wpc'[w] = "pop")
      BY <2>1, <3>1 DEF SpawnWorker
    <3>3. /\ owner # "gone" /\ owner' # "gone"
          /\ UNCHANGED <<requestQ, responseQ, dbQ, wtask, wlabel, dresp, btask, heap,
                         fate>>
      BY <2>1 DEF SpawnWorker
    <3>a. \A w \in Workers : wpc'[w] = "push" <=> wpc[w] = "push"
      BY <3>2
    <3>4. \A u \in Tasks : Answered(u)' <=> Answered(u)
      BY <3>3, <3>a DEF Answered
    <3> QED
      BY <1>a, <1>b, <3>2, <3>3, <3>4
  <2>2. CASE MakeQueues \/ SpawnDbWorker \/ SpawnDispatcher
    BY <1>a, <1>b, <1>c, <2>2 DEF MakeQueues, SpawnDbWorker, SpawnDispatcher
  <2> QED
    BY <1>1, <2>1, <2>2 DEF CreateStep
<1>2. ASSUME NEW t \in Tasks, DispatchWorker(t) PROVE HeapInv'
  <2>1. owner = "running" /\ fate[t] = "new" /\ ~Carried(t)
        /\ heap' = heap \cup {<<"task", t>>}
    BY <1>2 DEF DispatchWorker, CarriedInv
  <2>2. UNCHANGED <<owner, responseQ, dbQ, wpc, wtask, wlabel, dresp, btask>>
    BY <1>2 DEF DispatchWorker
  <2>3. CASE requestQ' = Append(requestQ, t) /\ fate' = [fate EXCEPT ![t] = "accepted"]
    <3>1. Range(requestQ') = Range(requestQ) \cup {t}
      BY <2>3, RangeAppend
    <3>2. fate'[t] = "accepted" /\ \A o \in Objects : o # t => fate'[o] = fate[o]
      BY <2>3
    <3>3. \A u \in Tasks : TaskHeld(u)' <=> TaskHeld(u) \/ u = t
      BY <2>2, <3>1, <3>2 DEF TaskHeld
    <3>4. ResponsesHeld' /\ TransfersHeld'
      BY <1>a, <2>1, <2>2 DEF Answered
    <3>5. DbTasksHeld'
      BY <1>a, <2>1, <2>2, <3>2
    <3> QED
      BY <2>1, <3>3, <3>4, <3>5
  <2>4. CASE requestQ' = requestQ /\ fate' = [fate EXCEPT ![t] = Refusal("request")]
    <3>1. Refusal("request") = "rejected"
      BY <2>1 DEF Refusal, StageInv
    <3>2. fate'[t] = "rejected" /\ \A o \in Objects : o # t => fate'[o] = fate[o]
      BY <2>4, <3>1
    <3>3. \A u \in Tasks : TaskHeld(u)' <=> TaskHeld(u) \/ u = t
      BY <2>2, <2>4, <3>2 DEF TaskHeld
    <3>4. ResponsesHeld' /\ TransfersHeld'
      BY <1>a, <2>1, <2>2 DEF Answered
    <3>5. DbTasksHeld'
      BY <1>a, <2>1, <2>2, <3>2
    <3> QED
      BY <2>1, <3>3, <3>4, <3>5
  <2> QED
    BY <1>2, <2>3, <2>4 DEF DispatchWorker
<1>3. ASSUME NEW c \in Commands, DispatchDb(c) PROVE HeapInv'
  <2>1. owner = "running" /\ fate[c] = "new" /\ c \notin Tasks
        /\ heap' = heap \cup {<<"dbtask", c>>} \cup Payload(c)
    BY <1>3 DEF DispatchDb
  <2>2. UNCHANGED <<owner, requestQ, responseQ, wpc, wtask, wlabel, dresp, btask>>
    BY <1>3 DEF DispatchDb
  <2>3. TransfersHeld'
    <3>1. ASSUME NEW k, NEW o
          PROVE  <<k, o>> \in heap' <=> \/ <<k, o>> \in heap
                                        \/ k = "dbtask" /\ o = c
                                        \/ k = "payload" /\ o = c /\ Payload(c) # {}
      <4>1. heap' = heap \cup {<<"dbtask", c>>} \cup Payload(c)
        BY <2>1
      <4> QED
        BY <4>1, PayloadKinds
    <3>2. \A o \in Objects :
             /\ <<"headers", o>> \in heap' => <<"headers", o>> \in heap
             /\ <<"curl", o>> \in heap' => <<"curl", o>> \in heap
             /\ <<"task", o>> \in heap' => <<"task", o>> \in heap
             /\ <<"response", o>> \in heap' => <<"response", o>> \in heap
             /\ <<"payload", o>> \in heap' =>
                   <<"payload", o>> \in heap \/ (o = c /\ Payload(c) # {})
      <4> HIDE DEF TypeOK, HandInv, HeapInv, TasksHeld, ResponsesHeld, DbTasksHeld,
                   TransfersHeld
      <4> QED
        BY <3>1
    <3>3. UNCHANGED <<wpc, wtask, wlabel>> /\ c \notin Tasks
      BY <2>1, <2>2
    <3>4. /\ \A o \in Objects : <<"headers", o>> \in heap' => o \in WithHeaders
          /\ \A d \in Commands : <<"task", d>> \notin heap' /\ <<"response", d>> \notin heap'
      BY <3>2
    <3>5. ASSUME NEW o \in Objects, <<"payload", o>> \in heap'
          PROVE  o \in Commands /\ Payload(o) # {}
      <4>1. CASE <<"payload", o>> \in heap
        BY <4>1
      <4>2. CASE o = c /\ Payload(c) # {}
        BY <4>2
      <4> QED
        BY <3>2, <3>5, <4>1, <4>2
    <3>6. ASSUME NEW o \in Objects, <<"curl", o>> \in heap'
          PROVE  \E w \in Workers : /\ wpc'[w] \in {"push", "cleanup"} /\ wtask'[w] = o
                                    /\ wlabel'[w] # "cleanup_task"
      <4>1. <<"curl", o>> \in heap
        BY <3>2, <3>6
      <4> QED
        BY <3>3, <4>1
    <3> QED
      BY <3>4, <3>5, <3>6
  <2>4. CASE dbQ' = Append(dbQ, c) /\ fate' = [fate EXCEPT ![c] = "accepted"]
    <3>1. Range(dbQ') = Range(dbQ) \cup {c}
      BY <2>4, RangeAppend
    <3>2. fate'[c] = "accepted" /\ \A o \in Objects : o # c => fate'[o] = fate[o]
      BY <2>4
    <3>a. \A u \in Tasks : TaskHeld(u)' <=> TaskHeld(u)
      BY <2>1, <2>2, <3>2 DEF TaskHeld
    <3>b. \A u \in Tasks : Answered(u)' <=> Answered(u)
      BY <2>1, <2>2, <3>1 DEF Answered
    <3>3. TasksHeld' /\ ResponsesHeld'
      BY <1>a, <2>1, <3>a, <3>b DEF Payload
    <3>4. DbTasksHeld'
      BY <1>a, <2>1, <2>2, <3>1, <3>2 DEF Payload
    <3> QED
      BY <2>3, <3>3, <3>4
  <2>5. CASE dbQ' = dbQ /\ fate' = [fate EXCEPT ![c] = Refusal("db")]
    <3>1. Refusal("db") = "rejected"
      BY <2>1 DEF Refusal, StageInv, AfterDispatcher
    <3>2. fate'[c] = "rejected" /\ \A o \in Objects : o # c => fate'[o] = fate[o]
      BY <2>5, <3>1
    <3>a. \A u \in Tasks : TaskHeld(u)' <=> TaskHeld(u)
      BY <2>1, <2>2, <3>2 DEF TaskHeld
    <3>3. TasksHeld' /\ ResponsesHeld'
      BY <1>a, <1>c, <2>1, <2>2, <2>5, <3>a DEF Payload
    <3>4. DbTasksHeld'
      BY <1>a, <2>1, <2>2, <2>5, <3>2 DEF Payload
    <3> QED
      BY <2>3, <3>3, <3>4
  <2> QED
    BY <1>3, <2>4, <2>5 DEF DispatchDb
<1>4. CASE CloseRequests \/ JoinWorkers \/ JoinDispatcher \/ JoinDbWorker
  BY <1>a, <1>b, <1>c, <1>4 DEF CloseRequests, JoinWorkers, JoinDispatcher, JoinDbWorker
<1>5. CASE FreeQueues
  <2>1. /\ \A w \in Workers : wpc[w] \in Resting
        /\ dpc \in Resting /\ bpc \in Resting
    BY <1>5 DEF FreeQueues, StageInv, AfterWorkers, AfterDispatcher, AfterDbWorker
  <2>2. (\A w \in Workers : ~Working(w) /\ wtask[w] = None)
        /\ dresp = None /\ btask = None
    BY <2>1 DEF Resting
  <2>3. ASSUME NEW o \in Objects, fate[o] = "accepted"
        PROVE  /\ o \notin Range(requestQ) /\ o \notin Range(responseQ)
               /\ ~Stopped => o \notin Range(dbQ)
    <3>1. wpc[1] = "done" /\ dpc = "done" /\ bpc = "done"
      BY <2>1, <2>3 DEF StartedInv, Resting, Workers
    <3>2. requestQ = <<>> /\ responseQ = <<>> /\ (Stopped \/ dbQ = <<>>)
      BY <3>1 DEF DrainInv, Workers
    <3> QED
      BY <3>2, RangeEmpty
  <2>4. Range(requestQ) = {} /\ Range(responseQ) = {} /\ (~Stopped => Range(dbQ) = {})
    BY <1>0, <2>3 DEF CarriedInv, Carried
  <2>5. /\ Range(requestQ') = {} /\ Range(responseQ') = {} /\ Range(dbQ') = {}
        /\ owner = "free_queues" /\ owner' = "gone"
        /\ UNCHANGED <<wpc, wtask, wlabel, dresp, btask, heap, fate>>
    BY <1>5, RangeEmpty DEF FreeQueues
  <2>6. Stopped' <=> Stopped
    BY <2>5 DEF Stopped
  <2>7. \A u \in Tasks : TaskHeld(u)' <=> TaskHeld(u)
    BY <2>4, <2>5 DEF TaskHeld
  <2>8. ~Stopped => \A u \in Tasks : Answered(u)' <=> Answered(u)
    BY <2>4, <2>5 DEF Answered
  <2>9. TasksHeld' /\ TransfersHeld'
    BY <2>5, <2>7
  <2>10. ResponsesHeld' /\ DbTasksHeld'
    BY <1>a, <2>4, <2>5, <2>6, <2>8 DEF CutShort
  <2> QED
    BY <2>9, <2>10
<1>6. ASSUME NEW w \in Workers, WorkerStep(w) PROVE HeapInv'
  <2>1. CASE WorkerPop(w)
    <3>1. /\ Head(requestQ) \in Range(requestQ) /\ Head(requestQ) \in Tasks
          /\ Range(Tail(requestQ)) = Range(requestQ) \ {Head(requestQ)}
      BY <2>1, RangeTail DEF WorkerPop, ApartInv, OncePerQueue
    <3>2. PICK t \in Tasks : t = Head(requestQ)
      BY <3>1
    <3>3. /\ wpc[w] = "pop" /\ wtask[w] = None /\ t \in Range(requestQ)
          /\ wtask' = [wtask EXCEPT ![w] = t] /\ wpc' = [wpc EXCEPT ![w] = "begin"]
          /\ Range(requestQ') = Range(requestQ) \ {t}
          /\ UNCHANGED <<owner, responseQ, dbQ, wlabel, dresp, btask, heap, fate>>
      BY <2>1, <3>1, <3>2 DEF WorkerPop
    <3>a. \A u \in Tasks : TaskHeld(u)' <=> TaskHeld(u)
      BY <3>3 DEF TaskHeld
    <3>b. \A u \in Tasks : Answered(u)' <=> Answered(u)
      BY <3>3 DEF Answered
    <3>4. TasksHeld'
      BY <3>3, <3>a
    <3>5. ResponsesHeld' /\ DbTasksHeld'
      BY <1>a, <3>3, <3>b
    <3>6. TransfersHeld'
      BY <3>3
    <3> QED
      BY <3>4, <3>5, <3>6
  <2>2. CASE WorkerExit(w)
    <3>1. \A u \in Tasks : Answered(u)' <=> Answered(u)
      BY <2>2 DEF WorkerExit, Answered
    <3> QED
      BY <1>a, <1>b, <2>2, <3>1 DEF WorkerExit
  <2>3. CASE WorkerDrop(w)
    <3>1. PICK t \in Tasks : t = wtask[w]
      BY <2>3 DEF WorkerDrop
    <3>2. /\ wpc[w] = "begin" /\ wpc' = [wpc EXCEPT ![w] = "cleanup"]
          /\ wlabel' = [wlabel EXCEPT ![w] = "cleanup_task"]
          /\ fate' = [fate EXCEPT ![t] = "dropped"]
          /\ UNCHANGED <<owner, requestQ, responseQ, dbQ, wtask, dresp, btask, heap>>
      BY <2>3, <3>1 DEF WorkerDrop
    <3>3. fate[t] = "accepted"
      BY <3>1, <3>2 DEF CarriedInv, Carried
    <3>a. \A u \in Tasks : TaskHeld(u)' <=> TaskHeld(u)
      BY <3>2, <3>3 DEF TaskHeld
    <3>b. \A u \in Tasks : Answered(u)' <=> Answered(u)
      BY <3>2 DEF Answered
    <3>4. TasksHeld'
      BY <3>2, <3>a
    <3>5. ResponsesHeld' /\ DbTasksHeld'
      BY <1>a, <3>2, <3>3, <3>b
    <3>c. \A v \in Workers : wpc[v] \in {"push", "cleanup"} =>
             wpc'[v] = wpc[v] /\ wlabel'[v] = wlabel[v]
      BY <3>2
    <3>6. TransfersHeld'
      BY <3>2, <3>c
    <3> QED
      BY <3>4, <3>5, <3>6
  <2>4. CASE WorkerPerform(w)
    <3>1. PICK t \in Tasks : t = wtask[w]
      BY <2>4 DEF WorkerPerform
    <3>2. PICK a \in Attempts(t) : /\ wlabel' = [wlabel EXCEPT ![w] = a.label]
                                   /\ heap' = heap \cup (a.kinds \X {t})
      BY <2>4, <3>1 DEF WorkerPerform
    <3>3. /\ wpc[w] = "begin" /\ wpc' = [wpc EXCEPT ![w] = "push"]
          /\ UNCHANGED <<owner, requestQ, responseQ, dbQ, wtask, dresp, btask, fate>>
      BY <2>4 DEF WorkerPerform
    <3>4. PICK ks, label : /\ ks = a.kinds /\ label = a.label
      OBVIOUS
    <3>c. /\ "response" \in ks /\ "task" \notin ks /\ "dbtask" \notin ks
          /\ "payload" \notin ks
          /\ "headers" \in ks => t \in WithHeaders
          /\ "curl" \in ks => label # "cleanup_task"
      BY <3>2, <3>4, AttemptKinds
    <3>d. heap' = heap \cup (ks \X {t}) /\ wlabel' = [wlabel EXCEPT ![w] = label]
      BY <3>2, <3>4
    <3>5. \A o \in Objects :
             /\ <<"task", o>> \in heap' <=> <<"task", o>> \in heap
             /\ <<"response", o>> \in heap' <=> <<"response", o>> \in heap \/ o = t
             /\ <<"dbtask", o>> \in heap' <=> <<"dbtask", o>> \in heap
             /\ <<"payload", o>> \in heap' <=> <<"payload", o>> \in heap
             /\ <<"headers", o>> \in heap' =>
                   <<"headers", o>> \in heap \/ o \in WithHeaders
             /\ <<"curl", o>> \in heap' =>
                   <<"curl", o>> \in heap \/ (label # "cleanup_task" /\ o = t)
      <4>1. ASSUME NEW k, NEW o
            PROVE  <<k, o>> \in heap' <=> <<k, o>> \in heap \/ (k \in ks /\ o = t)
        BY <3>d, HeapGains
      <4> HIDE DEF TypeOK, HandInv, HeapInv, TasksHeld, ResponsesHeld, DbTasksHeld,
                   TransfersHeld
      <4> QED
        BY <3>c, <4>1
    <3>6. TasksHeld'
      BY <1>b, <3>3, <3>5
    <3>a. \A u \in Tasks : Answered(u)' <=> Answered(u) \/ u = t
      BY <3>1, <3>3 DEF Answered
    <3>7. ResponsesHeld'
      BY <1>a, <3>5, <3>a
    <3>8. DbTasksHeld'
      BY <1>a, <3>3, <3>5
    <3>9. TransfersHeld'
      <4>1. <<"curl", t>> \notin heap
        BY <3>1, <3>3 DEF ApartInv
      <4>2. \A v \in Workers : v # w => wpc'[v] = wpc[v] /\ wlabel'[v] = wlabel[v]
        BY <3>3, <3>d
      <4>3. wpc'[w] = "push" /\ wlabel'[w] = label /\ wtask'[w] = t
        BY <3>1, <3>3, <3>d
      <4>4. ASSUME NEW o \in Objects, <<"curl", o>> \in heap'
            PROVE  \E v \in Workers : /\ wpc'[v] \in {"push", "cleanup"} /\ wtask'[v] = o
                                      /\ wlabel'[v] # "cleanup_task"
        <5>1. CASE o = t
          BY <3>5, <4>1, <4>3, <4>4, <5>1
        <5>2. CASE o # t
          <6>1. PICK v \in Workers : /\ wpc[v] \in {"push", "cleanup"} /\ wtask[v] = o
                                     /\ wlabel[v] # "cleanup_task"
            BY <3>5, <4>4, <5>2
          <6> QED
            BY <3>1, <3>3, <4>2, <5>2, <6>1
        <5> QED
          BY <5>1, <5>2
      <4> QED
        BY <3>1, <3>5, <4>4
    <3> QED
      BY <3>6, <3>7, <3>8, <3>9
  <2>5. CASE WorkerPush(w)
    <3>1. PICK t \in Tasks : t = wtask[w]
      BY <2>5 DEF WorkerPush
    <3>2. /\ wpc[w] = "push" /\ wpc' = [wpc EXCEPT ![w] = "cleanup"]
          /\ UNCHANGED <<owner, requestQ, dbQ, wtask, wlabel, dresp, btask>>
      BY <2>5 DEF WorkerPush
    <3>3. CASE /\ responseQ' = Append(responseQ, t)
               /\ heap' = heap /\ fate' = fate
      <4>1. Range(responseQ') = Range(responseQ) \cup {t}
        BY <3>1, <3>3, RangeAppend
      <4>a. \A u \in Tasks : Answered(u)' <=> Answered(u)
        BY <3>1, <3>2, <4>1 DEF Answered
      <4>2. ResponsesHeld'
        BY <1>a, <3>3, <4>a
      <4>3. TasksHeld' /\ DbTasksHeld' /\ TransfersHeld'
        BY <1>a, <1>b, <3>2, <3>3
      <4> QED
        BY <4>2, <4>3
    <3>4. CASE /\ responseQ' = responseQ /\ heap' = heap \ {<<"response", t>>}
               /\ fate' = [fate EXCEPT ![t] = IF "response" \in closed THEN "refused"
                                              ELSE "dropped"]
      <4>1. fate[t] = "accepted"
        BY <3>1, <3>2 DEF CarriedInv, Carried
      <4>a. \A u \in Tasks : Answered(u)' <=> Answered(u) /\ u # t
        BY <3>1, <3>2, <3>4 DEF Answered, ApartInv
      <4>b. \A u \in Tasks : TaskHeld(u)' <=> TaskHeld(u)
        BY <3>2, <3>4, <4>1 DEF TaskHeld
      <4>2. ResponsesHeld'
        BY <1>a, <3>4, <4>a
      <4>3. TasksHeld'
        BY <3>4, <4>b
      <4>4. DbTasksHeld'
        BY <1>a, <3>2, <3>4, <4>1
      <4>5. TransfersHeld'
        BY <3>2, <3>4
      <4> QED
        BY <4>2, <4>3, <4>4, <4>5
    <3> QED
      BY <2>5, <3>1, <3>3, <3>4 DEF WorkerPush
  <2>6. CASE WorkerCleanup(w)
    <3>1. PICK t \in Tasks : t = wtask[w]
      BY <2>6 DEF WorkerCleanup
    <3>2. /\ wpc[w] = "cleanup" /\ wpc' = [wpc EXCEPT ![w] = "pop"]
          /\ wtask' = [wtask EXCEPT ![w] = None]
          /\ heap' = heap \ (Freed(wlabel[w]) \X {t})
          /\ UNCHANGED <<owner, requestQ, responseQ, dbQ, wlabel, dresp, btask, fate>>
      BY <2>6, <3>1 DEF WorkerCleanup
    <3>3. PICK ks : ks = Freed(wlabel[w])
      OBVIOUS
    <3>c. /\ "task" \in ks /\ "response" \notin ks /\ "dbtask" \notin ks
          /\ "payload" \notin ks
          /\ wlabel[w] # "cleanup_task" => "curl" \in ks
      BY <3>3, FreedKinds
    <3>d. heap' = heap \ (ks \X {t})
      BY <3>2, <3>3
    <3>4. \A o \in Objects :
             /\ <<"task", o>> \in heap' <=> <<"task", o>> \in heap /\ o # t
             /\ <<"response", o>> \in heap' <=> <<"response", o>> \in heap
             /\ <<"dbtask", o>> \in heap' <=> <<"dbtask", o>> \in heap
             /\ <<"payload", o>> \in heap' <=> <<"payload", o>> \in heap
             /\ <<"headers", o>> \in heap' => <<"headers", o>> \in heap
             /\ <<"curl", o>> \in heap' =>
                   <<"curl", o>> \in heap /\ (wlabel[w] = "cleanup_task" \/ o # t)
      BY <3>c, <3>d, HeapLoses
    <3>5. fate[t] # "rejected" /\ t \notin Range(requestQ)
          /\ \A v \in Workers : wtask[v] = t => v = w
      BY <3>1 DEF CarriedInv, ApartInv
    <3>a. \A u \in Tasks : TaskHeld(u)' <=> TaskHeld(u) /\ u # t
      BY <3>1, <3>2, <3>5 DEF TaskHeld
    <3>b. \A u \in Tasks : Answered(u)' <=> Answered(u)
      BY <3>1, <3>2 DEF Answered
    <3>6. TasksHeld'
      BY <3>3, <3>4, <3>a
    <3>7. ResponsesHeld'
      BY <1>a, <3>3, <3>4, <3>b
    <3>8. DbTasksHeld'
      BY <1>a, <3>2, <3>3, <3>4
    <3>9. TransfersHeld'
      <4>1. ASSUME NEW o \in Objects, <<"curl", o>> \in heap'
            PROVE  \E v \in Workers : /\ wpc'[v] \in {"push", "cleanup"} /\ wtask'[v] = o
                                      /\ wlabel'[v] # "cleanup_task"
        <5>1. PICK v \in Workers : /\ wpc[v] \in {"push", "cleanup"} /\ wtask[v] = o
                                   /\ wlabel[v] # "cleanup_task"
          BY <3>4, <4>1
        <5>2. ASSUME v = w PROVE FALSE
          <6>1. o = t /\ wlabel[w] # "cleanup_task"
            BY <3>1, <5>1, <5>2
          <6> QED
            BY <3>4, <4>1, <6>1
        <5> QED
          BY <3>2, <5>1, <5>2
      <4> QED
        BY <3>4, <4>1
    <3> QED
      BY <3>6, <3>7, <3>8, <3>9
  <2> QED
    BY <1>6, <2>1, <2>2, <2>3, <2>4, <2>5, <2>6 DEF WorkerStep
<1>7. CASE DispatcherStep
  <2>1. CASE DispatcherPop
    <3>1. /\ Head(responseQ) \in Range(responseQ)
          /\ Range(Tail(responseQ)) = Range(responseQ) \ {Head(responseQ)}
      BY <2>1, RangeTail DEF DispatcherPop, ApartInv, OncePerQueue
    <3>2. dresp = None /\ UNCHANGED <<owner, requestQ, dbQ, wpc, wtask, wlabel, btask,
                                      heap, fate>>
      BY <2>1 DEF DispatcherPop
    <3>a. \A u \in Tasks : Answered(u)' <=> Answered(u)
      BY <1>0, <2>1, <3>1, <3>2 DEF DispatcherPop, Answered
    <3>3. ResponsesHeld'
      BY <1>a, <3>2, <3>a
    <3>4. TasksHeld' /\ DbTasksHeld' /\ TransfersHeld'
      BY <1>a, <1>b, <3>2
    <3> QED
      BY <3>3, <3>4
  <2>2. CASE DispatcherExit
    BY <1>a, <1>b, <1>c, <2>2 DEF DispatcherExit
  <2>3. CASE DispatcherForward
    <3>1. PICK t \in Tasks : t = dresp
      BY <2>3 DEF DispatcherForward
    <3>2. dresp' = None
          /\ UNCHANGED <<owner, requestQ, responseQ, wpc, wtask, wlabel, btask>>
      BY <2>3 DEF DispatcherForward
    <3>3. CASE /\ dbQ' = Append(dbQ, t) /\ fate' = fate
               /\ heap' = heap \cup {<<"dbtask", t>>}
      <4>1. Range(dbQ') = Range(dbQ) \cup {t}
        BY <3>1, <3>3, RangeAppend
      <4>a. \A u \in Tasks : Answered(u)' <=> Answered(u)
        BY <3>1, <3>2, <4>1 DEF Answered
      <4>2. ResponsesHeld'
        BY <1>a, <3>3, <4>a
      <4>3. DbTasksHeld'
        BY <1>a, <3>1, <3>2, <3>3, <4>1
      <4>4. TasksHeld' /\ TransfersHeld'
        BY <1>b, <3>2, <3>3
      <4> QED
        BY <4>2, <4>3, <4>4
    <3>4. CASE /\ dbQ' = dbQ /\ heap' = heap \ {<<"response", t>>}
               /\ fate' = [fate EXCEPT ![t] = IF "db" \in closed THEN "refused"
                                              ELSE "dropped"]
      <4>1. fate[t] = "accepted"
        BY <3>1 DEF CarriedInv, Carried
      <4>a. \A u \in Tasks : Answered(u)' <=> Answered(u) /\ u # t
        BY <3>1, <3>2, <3>4 DEF Answered, ApartInv
      <4>b. \A u \in Tasks : TaskHeld(u)' <=> TaskHeld(u)
        BY <3>2, <3>4, <4>1 DEF TaskHeld
      <4>2. ResponsesHeld'
        BY <1>a, <3>4, <4>a
      <4>3. TasksHeld'
        BY <3>4, <4>b
      <4>4. DbTasksHeld'
        BY <1>a, <3>2, <3>4, <4>1
      <4>5. TransfersHeld'
        BY <3>2, <3>4
      <4> QED
        BY <4>2, <4>3, <4>4, <4>5
    <3> QED
      BY <2>3, <3>1, <3>3, <3>4 DEF DispatcherForward
  <2> QED
    BY <1>7, <2>1, <2>2, <2>3 DEF DispatcherStep
<1>8. CASE DbWorkerStep
  <2>1. CASE DbPop
    <3>1. /\ Head(dbQ) \in Range(dbQ)
          /\ Range(Tail(dbQ)) = Range(dbQ) \ {Head(dbQ)}
      BY <2>1, RangeTail DEF DbPop, ApartInv, OncePerQueue
    <3>2. btask = None /\ UNCHANGED <<owner, requestQ, responseQ, wpc, wtask, wlabel,
                                      dresp, heap, fate>>
      BY <2>1 DEF DbPop
    <3>a. \A u \in Tasks : Answered(u)' <=> Answered(u)
      BY <1>0, <2>1, <3>1, <3>2 DEF DbPop, Answered
    <3>3. ResponsesHeld' /\ DbTasksHeld'
      BY <1>0, <1>a, <2>1, <3>1, <3>2, <3>a DEF DbPop
    <3>4. TasksHeld' /\ TransfersHeld'
      BY <1>b, <3>2
    <3> QED
      BY <3>3, <3>4
  <2>2. CASE DbExit
    BY <1>a, <1>b, <1>c, <2>2 DEF DbExit
  <2>3. CASE DbSaveResponse
    <3>1. PICK t \in Tasks : t = btask
      BY <2>3 DEF DbSaveResponse
    <3>2. /\ btask' = None
          /\ heap' = heap \ {<<"response", t>>, <<"dbtask", t>>}
          /\ UNCHANGED <<owner, requestQ, responseQ, dbQ, wpc, wtask, wlabel, dresp>>
          /\ \A o \in Objects : o # t => fate'[o] = fate[o]
          /\ fate'[t] \in {"saved", "save_failed"}
      BY <2>3, <3>1 DEF DbSaveResponse
    <3>3. fate[t] = "accepted"
      BY <3>1 DEF CarriedInv, Carried
    <3>a. \A u \in Tasks : TaskHeld(u)' <=> TaskHeld(u)
      BY <3>2, <3>3 DEF TaskHeld
    <3>b. \A u \in Tasks : Answered(u)' <=> Answered(u) /\ u # t
      BY <3>1, <3>2 DEF Answered, ApartInv
    <3>4. TasksHeld'
      BY <3>2, <3>a
    <3>5. ResponsesHeld'
      BY <1>a, <3>2, <3>b
    <3>6. DbTasksHeld'
      <4>1. <<"payload", t>> \notin heap'
        BY <3>2
      <4> QED
        BY <1>a, <3>1, <3>2, <3>3, <4>1
    <3>7. TransfersHeld'
      BY <3>2
    <3> QED
      BY <3>4, <3>5, <3>6, <3>7
  <2>4. CASE DbCommand
    <3>1. PICK c \in Commands : c = btask
      BY <2>4 DEF DbCommand
    <3>2. /\ btask' = None
          /\ heap' = heap \ ({<<"dbtask", c>>} \cup (IF CommandType[c] = "unknown" THEN {}
                                                    ELSE Payload(c)))
          /\ UNCHANGED <<owner, requestQ, responseQ, dbQ, wpc, wtask, wlabel, dresp>>
          /\ \A o \in Objects : o # c => fate'[o] = fate[o]
      BY <2>4, <3>1 DEF DbCommand
    <3>a. \A u \in Tasks : TaskHeld(u)' <=> TaskHeld(u)
      BY <3>2 DEF TaskHeld
    <3>b. \A u \in Tasks : Answered(u)' <=> Answered(u)
      BY <3>1, <3>2 DEF Answered
    <3>3. TasksHeld'
      BY <3>2, <3>a DEF Payload
    <3>4. ResponsesHeld'
      BY <1>a, <3>2, <3>b DEF Payload
    <3>5. DbTasksHeld'
      <4>1. <<"dbtask", c>> \notin heap'
        BY <3>2
      <4>2. <<"payload", c>> \in heap' => CommandType[c] = "unknown" \/ Payload(c) = {}
        BY <3>2 DEF Payload
      <4> QED
        BY <1>a, <3>1, <3>2, <4>1, <4>2 DEF Payload
    <3>6. TransfersHeld'
      BY <3>2 DEF Payload
    <3> QED
      BY <3>3, <3>4, <3>5, <3>6
  <2> QED
    BY <1>8, <2>1, <2>2, <2>3, <2>4 DEF DbWorkerStep
<1>9. CASE UNCHANGED vars
  BY <1>a, <1>b, <1>c, <1>9 DEF vars
<1> QED
  BY <1>1, <1>2, <1>3, <1>4, <1>5, <1>6, <1>7, <1>8, <1>9
     DEF Next, DestroyStep, Ended

-----------------------------------------------------------------------------
(* orchestrator.c:12-135 and worker.c:105-362: the invariant of creation and  *)
(* destruction holds for any number of workers, tasks and failures.           *)
THEOREM RuntimeInvariant == SafeSpec => []RuntimeInv
<1>1. RuntimeInv /\ [Next]_vars => RuntimeInv'
  BY RuntimeAssumption, TypeNext, HandNext, StageNext, RefusedNext, StartedNext,
     DrainNext, CarriedNext, ApartNext, HeapNext DEF RuntimeInv
<1> QED
  BY <1>1, RuntimeInit, PTL DEF SafeSpec

(* Every thread of the runtime holds what its place in the code says. *)
THEOREM RuntimeTypeCorrect == SafeSpec => []TypeOK
<1>1. RuntimeInv => TypeOK
  BY DEF RuntimeInv
<1> QED
  BY <1>1, RuntimeInvariant, PTL

(* No accepted task loses its response to a closed queue: destroy_runtime     *)
(* closes each queue after joining the threads that fill it                   *)
(* (orchestrator.c:105-125).                                                  *)
THEOREM RuntimeNothingRefused == SafeSpec => []NothingRefused
<1>1. RuntimeInv => NothingRefused
  BY DEF RuntimeInv
<1> QED
  BY <1>1, RuntimeInvariant, PTL

(* No thread uses a queue after it was freed, nor fills one after it was      *)
(* closed (orchestrator.c:105-134).                                           *)
THEOREM RuntimeQueuesOutliveTheirUsers == SafeSpec => []QueuesOutliveTheirUsers
<1>1. RuntimeInv => QueuesOutliveTheirUsers
  BY DEF RuntimeInv, StageInv, QueuesOutliveTheirUsers, AfterWorkers,
     AfterDispatcher, AfterDbWorker
<1> QED
  BY <1>1, RuntimeInvariant, PTL

-----------------------------------------------------------------------------
(* What is left when destroy_runtime returns                                 *)

LEMMA NothingOnTheWay ==
    ASSUME RuntimeAssumption, RuntimeInv, owner \in AfterDbWorker, ~Stopped
    PROVE  \A o \in Objects : ~Carried(o) /\ fate[o] # "accepted"
<1> USE RuntimeAssumption DEF RuntimeInv, TypeOK, Objects
<1>1. /\ \A w \in Workers : wpc[w] \in Resting
      /\ dpc \in Resting /\ bpc \in Resting
  BY DEF StageInv, AfterWorkers, AfterDispatcher, AfterDbWorker
<1>2. (\A w \in Workers : ~Working(w)) /\ dresp = None /\ btask = None
  BY <1>1 DEF HandInv, Working, Resting
<1>3. ASSUME NEW o \in Objects, fate[o] = "accepted" PROVE FALSE
  <2>1. wpc[1] = "done" /\ dpc = "done" /\ bpc = "done"
    BY <1>1, <1>3 DEF StartedInv, Resting, Workers
  <2>2. requestQ = <<>> /\ responseQ = <<>> /\ dbQ = <<>>
    BY <2>1 DEF DrainInv, Workers
  <2>3. ~Carried(o)
    BY <1>2, <2>2, RangeEmpty DEF Carried
  <2> QED
    BY <1>3, <2>3 DEF CarriedInv, CutShort
<1> QED
  BY <1>3 DEF CarriedInv

(* destroy_runtime returns with every accepted task and command settled,     *)
(* however many there are and whatever failed (orchestrator.c:105-131,       *)
(* queue.c:77-80).                                                           *)
THEOREM RuntimeNothingAbandoned == SafeSpec => []NothingAbandoned
<1>1. RuntimeInv => NothingAbandoned
  BY RuntimeAssumption, NothingOnTheWay DEF NothingAbandoned, Objects, AfterDbWorker
<1> QED
  BY <1>1, RuntimeInvariant, PTL

(* What is still allocated then is what the caller kept, the header lists of *)
(* half-configured requests and the data of unknown commands                 *)
(* (worker.c:169-236, 354-359).                                              *)
THEOREM RuntimeOnlyKnownLeaks == SafeSpec => []OnlyKnownLeaks
<1>1. ASSUME RuntimeInv PROVE OnlyKnownLeaks
  <2> SUFFICES ASSUME owner = "gone", ~Stopped, NEW p \in heap
               PROVE  \/ fate[p[2]] = "rejected"
                      \/ p[1] = "headers" /\ p[2] \in WithHeaders
                      \/ p[1] = "payload" /\ CommandType[p[2]] = "unknown"
    BY DEF OnlyKnownLeaks, CallersOwn
  <2>a. PICK k \in Kinds, o \in Objects : p = <<k, o>>
    BY <1>1 DEF RuntimeInv, TypeOK, Objects
  <2>1. ~Carried(o) /\ ~CutShort
    BY RuntimeAssumption, <1>1, NothingOnTheWay DEF CutShort, AfterDbWorker
  <2>2. \A w \in Workers : wtask[w] = None /\ wpc[w] \in Resting
    BY <1>1 DEF RuntimeInv, HandInv, StageInv, AfterWorkers, Resting
  <2>3. o # None /\ (o \in Tasks <=> o \notin Commands)
    BY RuntimeAssumption DEF Objects
  <2>4. TasksHeld /\ ResponsesHeld /\ DbTasksHeld /\ TransfersHeld
    BY <1>1 DEF RuntimeInv, HeapInv
  <2>5. CASE k = "task"
    BY <2>a, <2>1, <2>2, <2>3, <2>4, <2>5 DEF TasksHeld, TaskHeld, TransfersHeld, Carried
  <2>6. CASE k = "response"
    BY <2>a, <2>1, <2>2, <2>3, <2>4, <2>6
       DEF ResponsesHeld, Answered, TransfersHeld, Carried, Resting
  <2>7. CASE k \in {"dbtask", "payload"}
    BY <2>a, <2>1, <2>4, <2>7 DEF DbTasksHeld, Carried
  <2>8. CASE k = "headers"
    BY <2>a, <2>4, <2>8 DEF TransfersHeld
  <2>9. CASE k = "curl"
    BY <2>a, <2>2, <2>4, <2>9 DEF TransfersHeld, Resting
  <2> QED
    BY <2>a, <2>5, <2>6, <2>7, <2>8, <2>9 DEF Kinds
<1> QED
  BY <1>1, RuntimeInvariant, PTL

-----------------------------------------------------------------------------
(* One owner                                                                 *)

LEMMA CountAtMostOne ==
    ASSUME NEW S, \A x, y \in S : x = y
    PROVE  Cardinality(S) = IF S = {} THEN 0 ELSE 1
<1>1. CASE S = {}
  BY <1>1, FS_EmptySet
<1>2. CASE S # {}
  <2>1. PICK x : x \in S
    BY <1>2
  <2>2. S = {x}
    BY <2>1
  <2> QED
    BY <1>2, <2>2, FS_Singleton
<1> QED
  BY <1>1, <1>2

(* A task and its response have exactly one owner while they are allocated   *)
(* and none afterwards (worker.c:23-37, 103-288, orchestrator.c:146-176).    *)
THEOREM RuntimeHeldOnce == SafeSpec => []HeldOnce
<1>1. ASSUME RuntimeInv PROVE HeldOnce
  <2> SUFFICES ASSUME owner # "gone", NEW t \in Tasks
               PROVE  /\ Cardinality(ResponseHolders(t)) =
                            IF <<"response", t>> \in heap THEN 1 ELSE 0
                      /\ Cardinality(TaskHolders(t)) =
                            IF <<"task", t>> \in heap THEN 1 ELSE 0
    BY DEF HeldOnce
  <2>1. /\ ApartInv /\ HandInv /\ CarriedInv
        /\ <<"task", t>> \in heap <=> TaskHeld(t)
        /\ <<"response", t>> \in heap <=> Answered(t)
        /\ t # None /\ t \in Objects
    BY <1>1, RuntimeAssumption DEF RuntimeInv, HeapInv, TasksHeld, ResponsesHeld, CutShort,
       Objects
  <2>2. \A x \in ResponseHolders(t) :
           \/ \E w \in Workers : x = <<"worker", w>> /\ wpc[w] = "push" /\ wtask[w] = t
           \/ \E i \in DOMAIN responseQ : x = <<"responseQ", i>> /\ responseQ[i] = t
           \/ x = <<"dispatcher", 1>> /\ dresp = t
           \/ \E i \in DOMAIN dbQ : x = <<"dbQ", i>> /\ dbQ[i] = t
           \/ x = <<"dbworker", 1>> /\ btask = t
    BY DEF ResponseHolders
  <2>3. \A x, y \in ResponseHolders(t) : x = y
    BY <2>1, <2>2 DEF ApartInv, OncePerQueue, IsInjective, Range, Working
  <2>4. ResponseHolders(t) # {} <=> Answered(t)
    BY DEF ResponseHolders, Answered, Range
  <2>5. \A x \in TaskHolders(t) :
           \/ \E i \in DOMAIN requestQ : x = <<"requestQ", i>> /\ requestQ[i] = t
           \/ \E w \in Workers : x = <<"worker", w>> /\ wtask[w] = t
           \/ x = <<"caller", 1>> /\ fate[t] = "rejected"
    BY DEF TaskHolders
  <2>6. \A x, y \in TaskHolders(t) : x = y
    BY <2>1, <2>5
       DEF ApartInv, OncePerQueue, IsInjective, CarriedInv, Carried, Range
  <2>7. TaskHolders(t) # {} <=> TaskHeld(t)
    BY DEF TaskHolders, TaskHeld, Range
  <2> QED
    BY <2>1, <2>3, <2>4, <2>6, <2>7, CountAtMostOne
<1> QED
  BY <1>1, RuntimeInvariant, PTL

-----------------------------------------------------------------------------
(* Refinement: the runtime implements the pipeline                           *)

(* DB_TASK_SHUTDOWN is handled in worker.c:327 and sent by no code in the     *)
(* repository.                                                               *)
NoShutdownSent == \A c \in Commands : CommandType[c] # "shutdown"

LEMMA PipelineInit == Init => Abstract!Init
<1> SUFFICES ASSUME Init PROVE Phase = "starting" /\ Status = [t \in Tasks |-> "new"]
  BY DEF Abstract!Init
<1> QED
  BY DEF Init, Phase, Status

(* A thread that settles an accepted task does so while the runtime exists. *)
LEMMA SettleStep ==
    ASSUME RuntimeAssumption, RuntimeInv, NEW t \in Tasks, fate[t] = "accepted",
           NEW end \in {"dropped", "saved", "save_failed"},
           fate' = [fate EXCEPT ![t] = end], owner' = owner,
           ~(/\ \A w \in Workers : wpc[w] \in Resting
             /\ dpc \in Resting /\ bpc \in Resting)
    PROVE  Abstract!Settle(t)
<1>1. owner # "gone"
  BY DEF RuntimeInv, StageInv, AfterWorkers, AfterDispatcher, AfterDbWorker
<1>2. owner \notin Creating
  BY DEF RuntimeInv, StageInv, StartedInv, Objects, Creating, Workers
<1>3. Phase \in {"open", "closing"} /\ Phase' = Phase
  BY <1>1, <1>2 DEF Phase, Creating
<1>4. t \in Tasks \cup Commands /\ DOMAIN fate = Tasks \cup Commands
  BY DEF RuntimeInv, TypeOK
<1>5. PICK s \in {"saved", "lost"} :
         s = IF end \in {"dropped", "save_failed"} THEN "lost" ELSE end
  OBVIOUS
<1>6. Status[t] = "accepted" /\ Status' = [Status EXCEPT ![t] = s]
  BY <1>4, <1>5 DEF Status
<1> QED
  BY <1>3, <1>6 DEF Abstract!Settle

LEMMA PipelineNext ==
    ASSUME RuntimeAssumption, NoShutdownSent, RuntimeInv, RuntimeInv', [Next]_vars
    PROVE  [Abstract!Next]_Abstract!vars
<1> USE RuntimeAssumption DEF queues, workerVars, dispatcherVars, dbVars
<1>0. TypeOK /\ HandInv /\ CarriedInv
  BY DEF RuntimeInv
<1>1. ASSUME fate' = fate, Phase' = Phase PROVE UNCHANGED Abstract!vars
  BY <1>1 DEF Abstract!vars, Status
<1>2. CASE CreateStep
  <2>1. Phase = "starting" /\ Phase' \in {"starting", "open", "closing", "gone"}
        /\ fate' = fate
    BY <1>2 DEF CreateStep, MakeQueues, SpawnDbWorker, SpawnDispatcher, SpawnWorker,
       Phase
  <2>2. CASE Phase' = "starting"
    BY <1>1, <2>1, <2>2
  <2>3. CASE Phase' # "starting"
    BY <2>1, <2>3 DEF Abstract!Next, Abstract!Start, Status
  <2> QED
    BY <2>2, <2>3
<1>3. ASSUME NEW t \in Tasks, DispatchWorker(t) PROVE [Abstract!Next]_Abstract!vars
  <2>1. Phase = "open" /\ Phase' = "open" /\ Status[t] = "new"
    BY <1>3 DEF DispatchWorker, Phase, Status
  <2>2. DOMAIN fate = Tasks \cup Commands
    BY <1>0 DEF TypeOK
  <2>3. CASE fate' = [fate EXCEPT ![t] = "accepted"]
    <3>1. Status' = [Status EXCEPT ![t] = "accepted"]
      BY <2>2, <2>3 DEF Status
    <3> QED
      BY <2>1, <3>1 DEF Abstract!Next, Abstract!Accept
  <2>4. CASE fate' = [fate EXCEPT ![t] = Refusal("request")]
    <3>1. "request" \notin closed
      BY <1>3 DEF DispatchWorker, RuntimeInv, StageInv
    <3>2. Status' = [Status EXCEPT ![t] = "rejected"]
      BY <2>2, <2>4, <3>1 DEF Status, Refusal
    <3> QED
      BY <2>1, <3>2 DEF Abstract!Next, Abstract!Reject
  <2> QED
    BY <1>3, <2>3, <2>4 DEF DispatchWorker
<1>4. ASSUME NEW c \in Commands, DispatchDb(c) PROVE UNCHANGED Abstract!vars
  <2>1. \A t \in Tasks : fate'[t] = fate[t]
    BY <1>0, <1>4 DEF DispatchDb, TypeOK
  <2> QED
    BY <1>4, <2>1 DEF DispatchDb, Abstract!vars, Phase, Status
<1>5. CASE CloseRequests
  <2>1. CASE owner = "running"
    BY <1>5, <2>1 DEF CloseRequests, Phase, Status, Abstract!Next, Abstract!Close
  <2>2. CASE owner = "destroy"
    BY <1>1, <1>5, <2>2 DEF CloseRequests, Phase
  <2> QED
    BY <1>5, <2>1, <2>2 DEF CloseRequests
<1>6. CASE JoinWorkers \/ JoinDispatcher \/ JoinDbWorker
  BY <1>1, <1>6 DEF JoinWorkers, JoinDispatcher, JoinDbWorker, Phase
<1>7. CASE FreeQueues
  <2>1. ~Stopped
    BY DEF Stopped, NoShutdownSent
  <2>2. \A o \in Objects : fate[o] # "accepted"
    BY <1>7, <2>1, NothingOnTheWay DEF FreeQueues, AfterDbWorker
  <2>3. \A t \in Tasks : Status[t] # "accepted"
    BY <2>2 DEF Status, Objects
  <2> QED
    BY <1>7, <2>3 DEF FreeQueues, Phase, Status, Abstract!Next, Abstract!Finish
<1>8. ASSUME NEW w \in Workers, WorkerStep(w) PROVE [Abstract!Next]_Abstract!vars
  <2>1. CASE WorkerDrop(w)
    <3>1. PICK t \in Tasks : t = wtask[w]
      BY <1>0, <2>1 DEF WorkerDrop, HandInv
    <3>2. fate[t] = "accepted"
      BY <1>0, <2>1, <3>1 DEF WorkerDrop, CarriedInv, Carried, Working, Objects
    <3>3. Abstract!Settle(t)
      BY <2>1, <3>1, <3>2, SettleStep DEF WorkerDrop, Resting
    <3> QED
      BY <3>3 DEF Abstract!Next
  <2>2. CASE WorkerPush(w)
    <3>1. PICK t \in Tasks : t = wtask[w]
      BY <1>0, <2>2 DEF WorkerPush, HandInv
    <3>2. fate[t] = "accepted"
      BY <1>0, <2>2, <3>1 DEF WorkerPush, CarriedInv, Carried, Working, Objects
    <3>3. CASE fate' = fate
      BY <1>1, <2>2, <3>3 DEF WorkerPush, Phase
    <3>4. CASE fate' # fate
      <4>1. "response" \notin closed
        BY <2>2 DEF WorkerPush, RuntimeInv, StageInv, AfterWorkers, Resting
      <4>2. fate' = [fate EXCEPT ![t] = "dropped"]
        BY <2>2, <3>1, <3>4, <4>1 DEF WorkerPush
      <4>3. Abstract!Settle(t)
        BY <2>2, <3>2, <4>2, SettleStep DEF WorkerPush, Resting
      <4> QED
        BY <4>3 DEF Abstract!Next
    <3> QED
      BY <3>3, <3>4
  <2>3. CASE WorkerPop(w) \/ WorkerExit(w) \/ WorkerPerform(w) \/ WorkerCleanup(w)
    BY <1>1, <2>3 DEF WorkerPop, WorkerExit, WorkerPerform, WorkerCleanup, Phase
  <2> QED
    BY <1>8, <2>1, <2>2, <2>3 DEF WorkerStep
<1>9. CASE DispatcherStep
  <2>1. CASE DispatcherForward /\ fate' # fate
    <3>1. PICK t \in Tasks : t = dresp
      BY <1>0, <2>1 DEF DispatcherForward, HandInv
    <3>2. fate[t] = "accepted"
      BY <1>0, <3>1 DEF CarriedInv, Carried, Objects
    <3>3. "db" \notin closed
      BY <2>1 DEF DispatcherForward, RuntimeInv, StageInv, AfterDispatcher, Resting
    <3>4. fate' = [fate EXCEPT ![t] = "dropped"]
      BY <2>1, <3>1, <3>3 DEF DispatcherForward
    <3>5. Abstract!Settle(t)
      BY <2>1, <3>2, <3>4, SettleStep DEF DispatcherForward, Resting
    <3> QED
      BY <3>5 DEF Abstract!Next
  <2>2. CASE DispatcherForward /\ fate' = fate
    BY <1>1, <2>2 DEF DispatcherForward, Phase
  <2>3. CASE DispatcherPop \/ DispatcherExit
    BY <1>1, <2>3 DEF DispatcherPop, DispatcherExit, Phase
  <2> QED
    BY <1>9, <2>1, <2>2, <2>3 DEF DispatcherStep
<1>10. CASE DbWorkerStep
  <2>1. CASE DbSaveResponse
    <3>1. PICK t \in Tasks : t = btask
      BY <2>1 DEF DbSaveResponse
    <3>2. fate[t] = "accepted"
      BY <1>0, <3>1 DEF CarriedInv, Carried, Objects
    <3>3. PICK end \in {"saved", "save_failed"} : fate' = [fate EXCEPT ![t] = end]
      BY <2>1, <3>1 DEF DbSaveResponse
    <3>4. Abstract!Settle(t)
      BY <2>1, <3>2, <3>3, SettleStep DEF DbSaveResponse, Resting
    <3> QED
      BY <3>4 DEF Abstract!Next
  <2>2. CASE DbCommand
    <3>1. \A t \in Tasks : fate'[t] = fate[t]
      BY <1>0, <2>2 DEF DbCommand, TypeOK
    <3> QED
      BY <2>2, <3>1 DEF DbCommand, Abstract!vars, Phase, Status
  <2>3. CASE DbPop \/ DbExit
    BY <1>1, <2>3 DEF DbPop, DbExit, Phase
  <2> QED
    BY <1>10, <2>1, <2>2, <2>3 DEF DbWorkerStep
<1>11. CASE UNCHANGED vars
  BY <1>1, <1>11 DEF vars, Phase
<1> QED
  BY <1>2, <1>3, <1>4, <1>5, <1>6, <1>7, <1>8, <1>9, <1>10, <1>11
     DEF Next, DestroyStep, Ended

(* Creation, dispatch, settling and destruction with any number of workers,  *)
(* tasks and failures are steps of the pipeline: the safety part of          *)
(* ImplementsPipeline (orchestrator.c:12-180, worker.c:105-362).             *)
THEOREM RuntimeImplementsPipeline ==
    NoShutdownSent => (SafeSpec => Abstract!SafeSpec)
<1>1. ASSUME NoShutdownSent PROVE SafeSpec => Abstract!SafeSpec
  <2>1. RuntimeInv /\ RuntimeInv' /\ [Next]_vars => [Abstract!Next]_Abstract!vars
    BY <1>1, PipelineNext, RuntimeAssumption
  <2> QED
    BY <2>1, PipelineInit, RuntimeInvariant, PTL DEF SafeSpec, Abstract!SafeSpec
<1> QED
  BY <1>1
=============================================================================
