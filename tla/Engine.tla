------------------------------- MODULE Engine -------------------------------
(***************************************************************************)
(* run_plan of src/core/engine.c, run again and again on one SQLite file:  *)
(* it saves and dispatches the cases of a plan, polls the responses table  *)
(* for each of them (wait_for_response, orchestrator.c), scores what it    *)
(* finds and destroys the runtime.  The process may be killed at any time; *)
(* the tables of src/core/db_manager.c survive.                            *)
(*                                                                         *)
(* The runtime is the abstract module Pipeline, which module Runtime       *)
(* implements; saving a response here also inserts its row.  A request row *)
(* is its identity (collection, method, url, body), the key of the UNIQUE  *)
(* constraint, so a key stands for the row's id too.                       *)
(***************************************************************************)
EXTENDS Integers, Sequences, FiniteSets, Functions

CONSTANTS NumCases,   \* plan->case_count
          Keys,       \* request identities
          KeyOf,      \* the identity of each case
          WithBody,   \* the identities whose body is not empty
          Asserted,   \* the cases with an assertion
          Polls,      \* timeout_ms in units of the 100 ms sleep
          MaxRuns     \* how often the program is started

Cases == 1 .. NumCases
Values == {"good", "error"}   \* what a response holds, as assertions see it

ASSUME EngineAssumption ==
    /\ NumCases \in Nat \ {0}
    /\ KeyOf \in [Cases -> Keys]
    /\ WithBody \subseteq Keys
    /\ Asserted \subseteq Cases
    /\ Polls \in Nat \ {0}
    /\ MaxRuns \in Nat

VARIABLES
    requests, responses,             \* the tables: a set of keys, rows by id
    run,                             \* how many times the program was started
    pc, case, elapsed,               \* run_plan: place, case i, polls so far
    owned,                           \* req and task while run_plan owns them
    found,                           \* case_results[i].response
    request_ok, assertions_ok,       \* case_results[i]
    all_requests_ok, all_assertions_ok, exit_code,
    phase, status                    \* the runtime of this run

tables == <<requests, responses>>
results == <<found, request_ok, assertions_ok>>
flags == <<all_requests_ok, all_assertions_ok, exit_code>>
vars == <<tables, run, pc, case, elapsed, owned, results, flags, phase, status>>

RT == INSTANCE Pipeline WITH Tasks <- Cases

NoRow == [key |-> "none"]
Row == [key : Keys, run : 1 .. MaxRuns, case : Cases, value : Values]

TypeOK ==
    /\ requests \subseteq Keys
    /\ responses \in Seq(Row)
    /\ run \in 0 .. MaxRuns
    /\ pc \in {"off", "setup", "save", "dispatch", "poll", "score", "cleanup",
               "destroy", "ended"}
    /\ case \in Cases
    /\ elapsed \in 0 .. Polls
    /\ owned \subseteq {"req", "task"} \X Cases
    /\ found \in [Cases -> Row \cup {NoRow}]
    /\ request_ok \in [Cases -> BOOLEAN]
    /\ assertions_ok \in [Cases -> BOOLEAN]
    /\ all_requests_ok \in BOOLEAN
    /\ all_assertions_ok \in BOOLEAN
    /\ exit_code \in {0, 1}
    /\ phase \in {"starting", "open", "closing", "gone"}
    /\ status \in [Cases -> {"new", "rejected", "accepted", "saved", "lost"}]

\* init_run_result, and the runtime not yet created.
Fresh ==
    /\ case' = 1 /\ elapsed' = 0 /\ owned' = {}
    /\ found' = [c \in Cases |-> NoRow]
    /\ request_ok' = [c \in Cases |-> FALSE]
    /\ assertions_ok' = [c \in Cases |-> FALSE]
    /\ all_requests_ok' = FALSE /\ all_assertions_ok' = FALSE
    /\ exit_code' = 1
    /\ phase' = "starting"
    /\ status' = [c \in Cases |-> "new"]

Init ==
    /\ requests = {} /\ responses = <<>>
    /\ run = 0 /\ pc = "off"
    /\ case = 1 /\ elapsed = 0 /\ owned = {}
    /\ found = [c \in Cases |-> NoRow]
    /\ request_ok = [c \in Cases |-> FALSE]
    /\ assertions_ok = [c \in Cases |-> FALSE]
    /\ all_requests_ok = FALSE /\ all_assertions_ok = FALSE
    /\ exit_code = 1
    /\ RT!Init

-----------------------------------------------------------------------------
StartRun ==
    /\ pc \in {"off", "ended"}
    /\ run < MaxRuns
    /\ run' = run + 1
    /\ pc' = "setup"
    /\ Fresh
    /\ UNCHANGED tables

\* db_init, create_collection, db_save_collection and create_runtime.
Setup ==
    /\ pc = "setup"
    /\ \/ /\ RT!Start /\ phase' = "open"
          /\ all_requests_ok' = TRUE /\ all_assertions_ok' = TRUE
          /\ pc' = "save"
          /\ UNCHANGED exit_code
       \/ /\ RT!Start /\ phase' = "gone"
          /\ pc' = "cleanup"
          /\ UNCHANGED flags
    /\ UNCHANGED <<tables, run, case, elapsed, owned, results>>

\* What "SELECT id ... AND body = ?" finds: a request without a body binds
\* NULL, which equals no column (db_manager.c:257-275), although the insert
\* stored the empty blob (db_manager.c:240-249).
SelectFinds(key) == key \in requests' /\ key \in WithBody

Fail ==
    /\ all_requests_ok' = FALSE
    /\ pc' = "cleanup"
    /\ UNCHANGED <<all_assertions_ok, exit_code, case>>

\* create_request, db_save_request (INSERT OR IGNORE, then SELECT the id) and
\* create_http_worker_task; the cleanup frees the request if one of them fails.
SaveRequest ==
    /\ pc = "save"
    /\ \/ UNCHANGED requests       \* no memory for the request, or no insert
       \/ requests' = requests \cup {KeyOf[case]}
    /\ \/ /\ SelectFinds(KeyOf[case])
          /\ owned' = {<<"req", case>>, <<"task", case>>}
          /\ pc' = "dispatch"
          /\ UNCHANGED <<flags, case>>
       \/ Fail /\ UNCHANGED owned
    /\ UNCHANGED <<responses, run, elapsed, results, phase, status>>

\* req is set to NULL before the dispatch (engine.c:103): if the queue refuses
\* the task, the cleanup frees the task and not the request.
Dispatch ==
    /\ pc = "dispatch"
    /\ \/ /\ RT!Accept(case)
          /\ owned' = {}
          /\ case' = IF case = NumCases THEN 1 ELSE case + 1
          /\ pc' = IF case = NumCases THEN "poll" ELSE "save"
          /\ UNCHANGED flags
       \/ /\ RT!Reject(case)
          /\ owned' = owned \ {<<"task", case>>}
          /\ Fail
    /\ UNCHANGED <<tables, run, elapsed, results>>

-----------------------------------------------------------------------------
(* The polling loop of wait_for_response, for one case after the other. *)

\* Mutant of RowsOf: the query has no WHERE.
RowsOfAnyRequest(key) == {n \in DOMAIN responses : key \in Keys}

RowsOf(key) == {n \in DOMAIN responses : responses[n].key = key}

\* db_get_latest_response_by_request_id: ORDER BY id DESC LIMIT 1.
Latest(key) ==
    responses[CHOOSE n \in RowsOf(key) : \A m \in RowsOf(key) : m <= n]

NextCase ==
    /\ elapsed' = 0
    /\ case' = IF case = NumCases THEN 1 ELSE case + 1
    /\ pc' = IF case = NumCases THEN "score" ELSE "poll"

PollFinds ==
    /\ pc = "poll"
    /\ elapsed < Polls
    /\ RowsOf(KeyOf[case]) # {}
    /\ LET row == Latest(KeyOf[case])
           pass == case \notin Asserted \/ row.value = "good"
       IN /\ found' = [found EXCEPT ![case] = row]
          /\ request_ok' = [request_ok EXCEPT ![case] = TRUE]
          /\ assertions_ok' = [assertions_ok EXCEPT ![case] = pass]
          /\ all_assertions_ok' = (all_assertions_ok /\ pass)
    /\ NextCase
    /\ UNCHANGED <<tables, run, owned, all_requests_ok, exit_code, phase, status>>

\* Mutant of PollMisses: the sleep is not counted.
PollMissesUncounted ==
    /\ pc = "poll"
    /\ elapsed < Polls
    /\ UNCHANGED vars

\* There is no row yet, or the look failed: the two look alike to the caller.
PollMisses ==
    /\ pc = "poll"
    /\ elapsed < Polls
    /\ elapsed' = elapsed + 1
    /\ UNCHANGED <<tables, run, pc, case, owned, results, flags, phase, status>>

\* Mutant of TimeOut: the plan's flags are left alone.
TimeOutUnnoticed ==
    /\ pc = "poll"
    /\ elapsed = Polls
    /\ NextCase
    /\ UNCHANGED <<tables, run, owned, results, flags, phase, status>>

\* There is no look at the table after the last sleep.
TimeOut ==
    /\ pc = "poll"
    /\ elapsed = Polls
    /\ all_requests_ok' = FALSE /\ all_assertions_ok' = FALSE
    /\ NextCase
    /\ UNCHANGED <<tables, run, owned, results, exit_code, phase, status>>

Score ==
    /\ pc = "score"
    /\ exit_code' = IF all_requests_ok /\ all_assertions_ok THEN 0 ELSE 1
    /\ pc' = "cleanup"
    /\ UNCHANGED <<tables, run, case, elapsed, owned, results, all_requests_ok,
                   all_assertions_ok, phase, status>>

\* destroy_runtime, if there is a runtime: it settles what was accepted.
Cleanup ==
    /\ pc = "cleanup"
    /\ \/ RT!Close /\ pc' = "destroy"
       \/ phase = "gone" /\ pc' = "ended" /\ UNCHANGED <<phase, status>>
    /\ UNCHANGED <<tables, run, case, elapsed, owned, results, flags>>

\* Mutant of Destroyed: destroy_runtime joins nobody.
DestroyedAtOnce ==
    /\ pc = "destroy"
    /\ phase' = "gone"
    /\ pc' = "ended"
    /\ UNCHANGED <<status, tables, run, case, elapsed, owned, results, flags>>

Destroyed ==
    /\ pc = "destroy"
    /\ RT!Finish
    /\ pc' = "ended"
    /\ UNCHANGED <<tables, run, case, elapsed, owned, results, flags>>

-----------------------------------------------------------------------------
\* The runtime settles a task meanwhile; db_save_response inserts its row.
Settle(c) ==
    /\ RT!Settle(c)
    /\ \/ /\ status'[c] = "saved"
          /\ \E v \in Values : responses' = Append(responses,
                [key |-> KeyOf[c], run |-> run, case |-> c, value |-> v])
       \/ status'[c] = "lost" /\ UNCHANGED responses
    /\ UNCHANGED <<requests, run, pc, case, elapsed, owned, results, flags>>

\* The process is killed: its tasks are lost with it.
Crash ==
    /\ pc \notin {"off", "ended"}
    /\ pc' = "off"
    /\ phase' = "gone"
    /\ status' = [c \in Cases |-> IF status[c] = "accepted" THEN "lost"
                                  ELSE status[c]]
    /\ owned' = {}
    /\ UNCHANGED <<tables, run, case, elapsed, results, flags>>

MainStep ==
    \/ Setup \/ SaveRequest \/ Dispatch
    \/ PollFinds \/ PollMisses \/ TimeOut \/ Score
    \/ Cleanup \/ Destroyed

\* Nobody starts the program again.
Over == pc \in {"off", "ended"} /\ run = MaxRuns /\ UNCHANGED vars

Next ==
    \/ StartRun \/ MainStep \/ Crash \/ Over
    \/ \E c \in Cases : Settle(c)

\* The main thread runs (usleep returns) and the runtime settles its tasks, as
\* module Runtime shows; nobody has to start the program or to kill it.
Fairness == WF_vars(MainStep) /\ \A c \in Cases : WF_vars(Settle(c))

SafeSpec == Init /\ [][Next]_vars
Spec == SafeSpec /\ Fairness

-----------------------------------------------------------------------------
(* Properties *)

\* The exit code tells the truth: 0 if and only if every case of the plan was
\* accepted by the runtime, found a response and passed its assertions
\* (engine.c:63-64, 82-108, 132-169).
ExitCodeTells ==
    pc = "ended" =>
        (exit_code = 0 <=>
            \A c \in Cases : /\ status[c] \in {"saved", "lost"}
                             /\ found[c] # NoRow
                             /\ request_ok[c] /\ assertions_ok[c])

RowsFrom(r, c) ==
    {n \in DOMAIN responses : responses[n].run = r /\ responses[n].case = c}

\* A case leaves one row per run if the runtime saved it and none otherwise,
\* also when run_plan gave up waiting for it or never waited; a killed run
\* leaves at most one (engine.c:130-139, 180-182, orchestrator.c:102-135).
OneRowPerSavedTask ==
    /\ \A r \in 1 .. run, c \in Cases : Cardinality(RowsFrom(r, c)) <= 1
    /\ run > 0 => \A c \in Cases :
          RowsFrom(run, c) # {} <=> status[c] = "saved"
    /\ pc = "ended" => \A c \in Cases : status[c] # "accepted"

\* A case is scored by a row of its own request, and by its own answer of this
\* run unless the table had rows for that identity from an earlier run or
\* another case of the plan has the same identity (orchestrator.c:183-197,
\* db_manager.c:493-524).
AnswerIsOwnUnlessShared ==
    \A c \in Cases : found[c] # NoRow =>
        \/ found[c].run = run /\ found[c].case = c
        \/ \E n \in RowsOf(KeyOf[c]) : responses[n].run < run
        \/ \E d \in Cases \ {c} : KeyOf[d] = KeyOf[c]

\* run_plan returns, whatever becomes of the responses (engine.c:118-169).
RunEnds == pc = "setup" ~> pc \in {"ended", "off"}

\* README.md:103 has every run's results flow through the worker pool and
\* SQLite into RunResult: a result is this run's answer to its own case.
ResultsAreOfThisRun ==
    \A c \in Cases : found[c] # NoRow => found[c].run = run /\ found[c].case = c

\* tests/test_db_request_reuse.c:53 expects db_save_request to return SQLITE_OK
\* for a request without a body: a save whose row is in the table, with memory
\* for the task, goes on to the dispatch.
SavedRequestIsFound ==
    [][SaveRequest /\ KeyOf[case] \in requests' => SelectFinds(KeyOf[case])]_vars

\* orchestrator.c:97 says "if fail caller has ownership" and run_plan is the
\* caller: when it ends it has freed everything it owned.
CallerFreesWhatItOwns == pc = "ended" => owned = {}

-----------------------------------------------------------------------------
(* The inductive invariant *)

\* How far run_plan is says what runtime there is (engine.c:53-64, 164-190).
StageInv ==
    /\ pc = "off" => phase = IF run = 0 THEN "starting" ELSE "gone"
    /\ pc = "setup" => phase = "starting"
    /\ pc \in {"save", "dispatch", "poll", "score"} => phase = "open"
    /\ pc = "cleanup" => phase \in {"open", "gone"}
    /\ pc = "destroy" => phase = "closing"
    /\ pc = "ended" => phase = "gone"
    /\ pc # "off" => run > 0
    /\ phase = "starting" => \A c \in Cases : status[c] = "new"
    /\ phase = "gone" => \A c \in Cases : status[c] # "accepted"

Dispatched(c) == status[c] \notin {"new", "rejected"}

\* The plan's flags are about the cases polled so far (engine.c:118-160).
FlagsTell(polled) ==
    /\ all_requests_ok <=> \A c \in polled : request_ok[c]
    /\ all_assertions_ok <=> \A c \in polled : assertions_ok[c]
    /\ exit_code = 1

ResultsInv ==
    /\ \A c \in Cases : /\ request_ok[c] <=> found[c] # NoRow
                        /\ assertions_ok[c] => request_ok[c]
    /\ pc = "setup" => case = 1
    /\ pc \in {"setup", "save", "dispatch"} =>
          exit_code = 1 /\ \A c \in Cases : found[c] = NoRow
    /\ pc \in {"save", "dispatch"} =>
          /\ \A c \in Cases : IF c < case THEN Dispatched(c) ELSE status[c] = "new"
          /\ FlagsTell({})
    /\ pc = "poll" =>
          /\ \A c \in Cases : Dispatched(c) /\ (c >= case => found[c] = NoRow)
          /\ FlagsTell(1 .. case - 1)
    /\ pc = "score" => (\A c \in Cases : Dispatched(c)) /\ FlagsTell(Cases)
    /\ pc \in {"cleanup", "destroy", "ended"} =>
          (exit_code = 0 <=> \A c \in Cases : Dispatched(c) /\ assertions_ok[c])

\* The table remembers whose answer each row is, once per run and case.
RowsInv ==
    /\ \A n \in DOMAIN responses : /\ responses[n].run <= run
                                   /\ responses[n].key = KeyOf[responses[n].case]
    /\ \A r \in 1 .. run, c \in Cases : \A m, n \in RowsFrom(r, c) : m = n
    /\ run > 0 => \A c \in Cases : RowsFrom(run, c) # {} <=> status[c] = "saved"

\* A result is a row of the request it is the result of.
FoundInv ==
    \A c \in Cases : found[c] # NoRow =>
        \E n \in RowsOf(KeyOf[c]) : found[c] = responses[n]

EngineInv == TypeOK /\ StageInv /\ ResultsInv /\ RowsInv /\ FoundInv
=============================================================================
