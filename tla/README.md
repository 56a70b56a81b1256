# A verification project for HttpRuntime

HttpRuntime (the program is called FMAN in its documentation) is an HTTP test
runner in C. It turns a command line or a plan file into a `RunPlan`, sends the
requests of the plan from a pool of threads, stores the responses in SQLite,
evaluates assertions on them and ends with an exit code. This directory holds
TLA+ models of its concurrent core, the TLC configurations that check them, and
proofs that TLAPS checks. Paths below are relative to `src/` of the repository.

## 1. Inventory

| Component | State it keeps | Operations | Interacts with |
|---|---|---|---|
| Queue (`core/queue.c`) | linked list, `size`, `is_shutdown`, mutex, condition variable | create, push, pop, shutdown, destroy | every thread of the runtime |
| Orchestrator (`core/orchestrator.c`) | `Runtime`: three queues, thread handles, which threads were started | `create_runtime`, `dispatch_task`, `destroy_runtime`, `dispatcher_routine`, `wait_for_response` | queues, workers, DB manager |
| Workers (`core/worker.c`) | what is in hand: task, response, curl handle, header list, DBTask | `http_worker_routine`, `db_worker_routine`, curl callbacks | request, response and db queue, libcurl, DB manager |
| DB manager (`core/db_manager.c`) | one global SQLite connection; tables collections, requests, responses | init, save collection/request/response, latest response, pending request (a transaction), status update, counts, close, clear | called by the main thread and by the DB worker |
| Engine (`core/engine.c`) | `RunResult`, the request ids, what it owns at the moment | `run_plan` | DB manager, orchestrator, assertions |
| Run plan and models (`core/run_plan.c`, `core/models.c`) | plain records | init, free, constructors | all |
| Assertions (`core/assertion.c`) | none | `eval_assertion` (status, body contains, header contains) | engine |
| DSL (`dsl/`) | lexer position, token, partial plan | tokenize, parse, load | CLI |
| CLI (`cli/main.c`, `cli/cli_parser.c`, `cli/commands.c`) | `CliOptions`, the plan | parse options, build the plan, run, free | DSL, engine |
| Printed output, logger, benchmark tool, scripts, tests | - | - | - |

How they interact:

    main thread (run_plan)
      | db_save_request, then dispatch_task          (SQLite, request queue)
      v
    request queue -> HTTP workers -> response queue -> dispatcher -> db queue
                                                          -> DB worker -> SQLite
      ^                                                                    |
      +-------------- wait_for_response polls the responses table ---------+

The hard behaviours are the wakeups of one mutex and one condition variable
under several producers and consumers; the order in which `destroy_runtime`
closes queues and joins threads; the ownership of a request and its response on
every error path; a poll with a deadline racing a late answer; a table that
survives the process and is read by the next run; and one SQLite connection used
by two threads. `PROJECT.json` lists them as hazards with their lines.

What makes each component correct:

* Queue: no wakeup is lost, `size` and list agree, a consumer gets NULL only from
  a closed and empty queue, and every accepted pointer reaches one consumer.
* Runtime: an accepted task is settled before `destroy_runtime` returns, no
  response is thrown away because a queue was closed too early, every object has
  one owner until it is freed, and `destroy_runtime` returns.
* Engine: the exit code tells what happened; the tables hold one row per saved
  response; a case is scored by an answer to its own request; `run_plan` returns.
* DB manager: what a save reported is in the file, a response never gets to the
  row of another request and, with foreign keys on, has its request; a pending
  request is claimed once and not forgotten, whatever fails, crashes or uses the
  file at the same time.
* One transfer: no write leaves its buffer; RESPONSE_OK means a whole response.
* Assertions, DSL: the functions compute what their reference definitions say;
  on every error path the memory is left where it is freed.
* CLI: exit code 0 means that every expectation given was checked; each block has
  one owner that frees it.

## 2. The modules

| Module | Models | Role |
|---|---|---|
| `FifoQueue` | - | abstract: a closable FIFO whose calls are atomic |
| `Queue` | `core/queue.c` | detailed, one step per shared access; implements `FifoQueue` |
| `QueueProofs` | - | theorems about `Queue` |
| `Pipeline` | - | abstract: what the runtime promises its owner |
| `Runtime` | `core/orchestrator.c`, `core/worker.c` | three atomic queues and all threads; implements `Pipeline` |
| `RuntimeProofs` | - | theorems about `Runtime` |
| `Engine` | `core/engine.c`, `wait_for_response`, the tables of `core/db_manager.c` | uses `Pipeline` as its runtime |
| `EngineProofs` | - | theorems about `Engine` |
| `Transfer` | `http_worker_routine` with its callbacks and header list, `core/worker.c` | one transfer, sizes included |
| `TransferProofs` | - | theorems about `Transfer` |
| `WorkList` | - | abstract: the requests table as a list of work, a claim in one step |
| `DbManager` | `core/db_manager.c`, `db_worker_routine` | both threads of a program and a rival program on one file; implements `WorkList` |
| `DbManagerProofs` | - | theorems about `DbManager` |
| `DslLexer` | `dsl/dsl_lexer.c` | the lexer on every short text |
| `DslParser` | `dsl/dsl_parser.c`, `free_run_plan` of `core/run_plan.c` | the parser on every token sequence |
| `DslProofs` | - | theorems about `DslLexer` and `DslParser`, and that the two fit together |
| `Assertion` | `core/assertion.c` | the assertions on every short text |
| `AssertionProofs` | - | theorems about `Assertion` |
| `Cli` | `cli/main.c`, `cli/cli_parser.c`, `cli/commands.c`, `dsl/dsl.c` | from argv to the exit code, on every short command line |
| `CliProofs` | - | theorems about `Cli` |
| `MCQueue`, `MCRuntime`, `MCEngine`, `MCTransfer`, `MCDbManager`, `MCDslLexer`, `MCDslParser`, `MCAssertion`, `MCCli` | - | instances for TLC |

The three layers are a chain: `Runtime` takes its queues to be atomic, which
`Queue` justifies by implementing `FifoQueue`; `Engine` takes its runtime to be
`Pipeline`, which `Runtime` implements. So each layer is checked against small
instances of the one below it, and never against all of its interleavings.
The others stand beside the chain and fill in what it leaves open. `Transfer` is
what `Runtime` calls one step of a worker, `DbManager` is the tables of `Engine`
statement by statement. `DslLexer` makes the tokens that `DslParser` chooses,
`DslParser` and `Cli` make the plan that `Engine` runs, and `Assertion` gives the
verdicts that `Engine` leaves open.

### Queue

`items` is the list from `head` to `tail` (the data of its nodes), `size` and
`is_shutdown` are the fields of the same name, `lock` is the holder of the mutex
and `pc` says where each thread is. `queue_push` is seven steps (allocate, lock,
refuse or link, count, signal, unlock), `queue_pop` six, `queue_shutdown` four.
`size` is a variable of its own because the code tests `size` and then
dereferences `head`. A waiting thread may also wake without a signal, as POSIX
allows, and an allocation may fail at any time. `outcome` is a history variable.

### Runtime

`owner` is where the owning thread is, from the first allocation of
`create_runtime` to the `free` at the end of `destroy_runtime`; each allocation and
`pthread_create` may fail, and the cleanup then runs on what exists. A worker is a
program counter, the task in its hand and the label it will jump to. `heap` is the
set of allocated objects, named by kind and task, so that a leak is an element left
in it and a double free or a use after free is a holder without an element. `fate`
is a history variable. `Attempts` lists what `http_worker_routine` may have
allocated when it pushes a response and the label it continues at; `Freed` is what
the labels free, falling through. The tests of `worker.c` on a closed queue are
in the model although, as `NothingRefused` says, they never succeed.

### Engine

`requests` is the set of identities in the requests table (collection, method, url,
body: the UNIQUE constraint) and stands for their ids too; `responses` is the
sequence of rows in insertion order, each with the run and the case that caused it,
which the table itself does not know. `pc` follows `run_plan`; the runtime beside it
is `Pipeline`, and settling a task as saved also inserts the row. `Crash` kills the
process at any point: memory is lost, the tables stay. `owned` is what the local
variables `req` and `task` own.

### Transfer

`curl` is what the options of the handle amount to, `nodes` the length of the
`curl_slist`, `body` and `headers` the two growing buffers with their length, their
capacity and the block behind them. libcurl is external: it calls the callbacks with
any chunks in any order and ends when it likes, with or without an error. Sums and
products of sizes wrap at `Word`; bytes are counted and not stored. `arrived` counts
what libcurl received, so that a dropped chunk shows. `SentAsAsked` names the two
requests that are not sent as they say: a GET drops its body, and a POST without a
body makes libcurl read standard input.

### DbManager

One step per SQLite statement. `disk` is what the file holds; `work` is the open
transaction of the program `writer`. The main thread and the DB worker share one
connection, so `View` and `Write` go through the transaction of either. A statement
may fail at any time; then it has no effect, or the transaction is rolled back. A
request row keeps its identity and whether it is pending; its id is its position.
Two programs may use the file. Of a program, the DB worker alone claims requests and
updates their status (`Calls`), as in `core/worker.c:288-345`: two claims of one program
cannot overlap.

`unchecked` are the programs whose connection runs without foreign keys, because
`db_init` only prints when its PRAGMAs fail (`core/db_manager.c:18-22`) and goes on; each
start of a program may be such a one. `db_clear_all` may be called whenever no other
thread of its program is in a call: the tests do so before `create_runtime` and after
`destroy_runtime` (`tests/test_db_worker.c:44-50`, `64-74`), with ids in their memory.

`told` is what `db_save_request` returned, with the fate of the transaction the save
fell into: `open`, `saved` by its COMMIT (or at once, outside any transaction) or `undone`
by its rollback. A response keeps whether its id was `undone` when it was stored (`sure`).

The result of COMMIT is not looked at (`core/db_manager.c:454`). A COMMIT that fails leaves
its transaction open (`leftOpen`) or rolls it back, and a failed statement of the other
thread may roll back the transaction of a claim under it (`robbed`); either way the
request is handed out and the row may be pending still. A request to which this happens,
or whose reset to pending goes into a transaction left open, is `spoiled`. The model goes
on with all of these, and the properties hold for every request that is not spoiled.

`WorkList` is what the requests table is to the programs that share it: a claim takes
one pending request, whatever number of statements it needs, and nothing but a claim
or `db_clear_all` takes one from the list. `RowStates` maps the committed rows to it
and `ClaimedIds` the requests between the COMMIT and the callback. The step of a claim
is its COMMIT; saves that fell into its transaction appear with it, and a rollback, an
UPDATE that is not committed and the statements of the other thread inside the
transaction change nothing. `Spoil` is what a failed COMMIT does to the list: one
request, the one of that claim, is `spoiled` and stays so.

### DslLexer

The text is a sequence of classes of characters, as far as the code tells them apart;
`BODY` is one of them, a word of one letter. Every scanning loop is one step per
character. `tokens`, `capacity` and `strings` are the array of
`dsl_lexer_get_tokens` and the copies on the heap, each of which may fail.
`TokensAreTheInput` says from the text alone what the tokens are.

### DslParser

The source is chosen token by token while the parser asks for tokens; `read` keeps
what it got, so its last element is `parser->current` and the one before it
`parser->previous`. The call stack of the recursive descent is `stage`, one value per
place at which a token is consumed or a string copied, so that every `strdup` can fail
by itself. `plan` is the part of the `RunPlan` that the parser writes. A string is
named by the position of the token it copies (0 is NULL) and `copied` is the set of
strings on the heap, so that a leak is an element that no case has and a string freed
twice one that a case still has. An error is placed at the position of a token, which
stands for its line and column. The language is defined a second time without a
parser: `Viable` says line by line which token sequences begin a program, `Means` says
of a plan that its cases are the request lines and that each has the last BODY line
and, in their order, the EXPECT lines below it; the properties compare the two. Not in
the model: the text of tokens, and so the status number and what the header and body
assertions expect. Of the lexer it has the rule that `BODY` makes the next token raw.

### Assertion

Each iteration of a search is a step and each pointer an index. `Holds` and
`SaysSomewhere` say without pointers what the searches look for. The type of the
expected value may be a wrong one, as in `tests/test_assertion.c`, although no plan
has such an assertion. Of `check_equal` only the case of integers is there, since
`eval_assertion` calls it for the status alone.

### Cli

`argv` is one of `CommandLines`, `i` the index of `parse_cli_options`. A block of the
heap has a name, so that `live` is what is allocated and `wild` a free of anything
else; a pointer of an assertion is such a block, a word of argv, or NULL. Each copy
may fail, and the loop over the assertions goes on with a NULL in its place
(`commands.c:84-102`). `AreOptions` and `Expected` read the command line
without an index, from the positions of the option words. `run_plan` and the parser of the file are their results. Not everything the
program does here is what its texts say, and the model has what it does: `post` is
accepted and does nothing (`commands.c:211-213`), `run` parses options and ignores
them (`commands.c:170-197`), and commands are lower case although the usage text
shows GET (`main.c:12`).

## 3. The runs

| Run | Instance | Shows |
|---|---|---|
| `queue` | 2 producers, 3 consumers, 3 pointers | the safety invariants, delivery, release of the consumers, refinement of `FifoQueue` with its fairness |
| `runtime` | 2 workers, 2 tasks, one with headers, a save command and an unknown one | teardown order, single ownership, nothing abandoned, the known leaks, `destroy_runtime` returns, refinement of `Pipeline` with its fairness |
| `engine_safety` | 3 cases, 2 of one identity, 2 runs, 2 polls | exit code, rows, own answers, `run_plan` returns |
| `engine_stale` | 2 cases, 2 runs | violation, finding 1 |
| `engine_bodiless` | 2 cases, one without a body | violation, finding 2 |
| `engine_leak` | 2 cases | violation, finding 3 |
| `transfer` | 4 methods, up to 2 header lines, word of 64, blocks of up to 24, chunks of up to 4 | no write outside a block, RESPONSE_OK is a whole transfer, the header list |
| `db_manager` | a program with both threads, a rival with its DB worker, 2 ids, 2 identities, 1 response, 1 remembered id, 1 spoiled request | durable saves, responses at their request under foreign keys, claims made once and accounted for, refinement of `WorkList` |
| `dsl_lexer` | texts of up to 5 characters of 9 classes, an array for 2 tokens | the tokens and their places, no lost string, termination |
| `dsl_parser` | 2 methods, 2 cases, 2 assertions, 15 tokens | the language, the plan, the place of the error, no lost string, the inductive invariant `ParserInv`, termination |
| `assertions` | texts of up to 5 characters out of 5, 5 words | the verdicts, reads inside the text, termination |
| `cli` | `get` with up to 6 words of 6, two places for assertions; the other commands with up to 2 | success means checked, each block freed once |

Why the bounds are enough. A lost wakeup needs two sleepers and two pushes, or a
sleeper, a late consumer and a push: three consumers and three pointers have both,
and a pointer left over. The teardown is a chain of three queues, so two workers (one
slow, one done) with a task each, in different places of the chain at one time, reach
each of its orders; the commands put DBTasks of the owner beside those of the
dispatcher. Two runs are what a stale row needs, and two polls distinguish the first
look, a later look and the deadline. With a word of 64 and blocks of at most 24 a
buffer takes its first capacity, is doubled, needs more than the double, and is
refused (`2 * MaxAlloc < Word` is what the code relies on, with 2^63 for the largest
block of a 64-bit system). Two ids, one response and one rival are what the database
needs for a save inside the transaction of a claim, an id given out again after a
rollback with a late response to it, and two claims that race; one remembered id
(`MaxTold`) is the one that is given out again, and one request may be spoiled
(`MaxSpoiled`) while the other must not suffer from it. Five characters
(`MaxLength`) hold `BODY` with a blank, a raw part and the end of its line, a quoted
string, or a comment with a token behind it; an array for two tokens grows twice.
Fifteen tokens (`MaxTokens`) hold a request with three EXPECT lines or three requests,
so that both limits, which the code sets to 32 and 128, are reached and passed; from
the limit of tokens on, the lexer returns the end of the file. For the assertions, five
characters hold two header lines, a name or value with blanks on either side, and a
carriage return before the newline. Six words hold three options, one more than
`MaxAssertion` of the instance allows, and an option word where a value belongs.

`db_manager` uses symmetry of the identities (`KeysAlike`), which the specification
only compares; it checks invariants and steps, and no liveness. No other run uses symmetry.

Deadlock is checked in every run. `Finished`, `Ended`, `Over` and `Returned` are the
states in which the program may stop. Each module's type invariant is a conjunct
of its inductive invariant; only `TypeOK` of `Cli` is in neither. `RuntimeInv`
and `ParserInv` are in their runs. The other inductive invariants (`QueueInv`,
`EngineInv`, `TransferInv`, `WorkInv` and with it `DbInv`, `LexerInv`, `AssertionInv`,
`CliInv`, `SuccessInv`) hold on the same instances; section 5 has the proofs of all.

### Fairness

* `Queue`: each thread that has something to do runs (the threads are created by
  `create_runtime` and scheduled by the kernel). A blocked `pthread_mutex_lock` is
  only weakly fair; that is enough, because a critical section here is short and
  a state in which the mutex is free keeps returning only while others still have
  work. No fairness is assumed of new pushes, of the call to `queue_shutdown` or of
  spurious wakeups.
* `Runtime`: each thread runs; a transfer ends because `CURLOPT_TIMEOUT` is 30
  seconds (`core/worker.c:210`). The owner need not dispatch or destroy.
* `Engine`: the main thread runs (`usleep` returns) and the runtime settles its
  tasks, which is the liveness `Runtime` shows. Nobody starts or kills the program.
* `DslLexer`, `DslParser`, `Assertion`: a called function runs until it returns.
* `Transfer`, `DbManager`, `Cli` have safety properties only and no fairness.

## 4. The findings

1. `core/orchestrator.c:188`: on a database file that was used before, a case whose
   request is identical to an earlier run's is scored by the earlier run's response.
   `AnswerIsOwnUnlessShared` shows that this happens for no other reason than a
   shared identity.
2. `core/db_manager.c:273`: a request without a body is inserted with the empty
   string and looked up with NULL, so saving it fails although its row is there.
3. `core/engine.c:103`: a refused dispatch leaks the request.

The properties that hold name some more behaviour as their exceptions: a failing
`curl_easy_setopt` loses the header list (`core/worker.c:169-236`; `OnlyKnownLeaks`
and `HeaderListFreed` show that this, and the data of unknown DBTasks, which
nothing sends, are all that can leak in the runtime); a claim whose COMMIT fails is handed out all the same
(`core/db_manager.c:454`; `HandedOutOnce`, `ClaimsAreAccountedFor` and
`ImplementsWorkList` show that no other request is touched); a save that falls into the
DB worker's transaction is lost with its rollback (`core/db_manager.c:412`; nothing in
`src/` asks the DB worker for a pending request today) and its id may be given out again
(`AcknowledgedIsDurable` shows that only then); a connection whose PRAGMAs failed can
leave responses without a request (`core/db_manager.c:18-22`;
`ResponsesFindTheirRequest` speaks of files where no such connection writes); a request
whose program is killed between the COMMIT of its claim and the callback stays running,
and nothing resets it.

## 5. The proofs

`QueueProofs` proves for any sets of producers, consumers (finite) and pointers:
`QueueInv` and, from it, every safety property of the run `queue`, and that every
step of `Queue` is a step of `FifoQueue` or a stutter (`QueueImplementsFifo`).
`ListHoldsExactlyTheQueued` is a consequence of `QueueInv` that is proved and not
checked by itself.
`QueueInv` is `TypeOK` with: who is in a critical section holds the mutex
(`LockInv`); `size` is the length of the list but for the one update in progress
(`SizeInv`); an undecided push owns its pointer (`OfferInv`); the flag follows the
closer (`ShutInv`); the list is duplicate free and holds the queued pointers;
and the counting argument for wakeups (`WakeInv`): while somebody sleeps, there are
at most as many queued pointers as awake consumers, and one more between a push's
link and its signal. The counting is why the consumers must be finite. `NoLostWakeup`
is not inductive alone: it needs `SizeInv` (a consumer sleeps on `size`, not on the
list) and `LockInv`.

`RuntimeProofs` proves for any number of workers, tasks and commands `RuntimeInv` and,
from it, every safety property of the run `runtime`: the queues outlive their users,
nothing is refused or abandoned, every object has one holder, and what is left after
`destroy_runtime` are the known leaks. `RuntimeInv` is `TypeOK` with

* `StageInv`: the owner's place says which queues are open and which threads rest;
  without it a resting thread could be created or a closed queue refilled;
* `HandInv` and `NothingRefused`: a busy thread has a task, a push finds its queue open;
* `StartedInv`: nothing is dispatched before every thread runs;
* `DrainInv`: a thread ends only with its queue closed and empty, unless the DB worker
  obeyed DB_TASK_SHUTDOWN;
* `CarriedInv` and `ApartInv`: an accepted task is somewhere between the request queue
  and the database, and in one place only;
* `HeapInv`: who holds an object has it on the heap, and what is on the heap is held
  or known to leak.

`NothingAbandoned` needs all of them: that no queue is freed with a task in it follows
from where an accepted task can be (`CarriedInv`), who has ended (`StageInv`) and what
an ended thread left behind (`DrainInv`). `RuntimeImplementsPipeline` says that every
step of `Runtime` is a step of `Pipeline` or a stutter. It assumes `NoShutdownSent`,
that no command is a DB_TASK_SHUTDOWN: no code in `src/` sends one, and with one the
runtime would not keep what `Pipeline` promises.

`EngineProofs` proves for any number of cases, identities, runs and polls `EngineInv`
and, from it, `ExitCodeTells`, `OneRowPerSavedTask` and `AnswerIsOwnUnlessShared`.
`EngineInv` is `TypeOK` with `StageInv` (what runtime there is at each place of
`run_plan`), `ResultsInv` (the two flags of the plan are about the cases polled so far,
and so is the exit code at the end), `RowsInv` (at most one row per run and case, with
the identity of its case, and of this run one for each saved task) and `FoundInv` (a
result is a row of the request it is the result of). `ExitCodeTells` speaks of the end
only, so it needs the flags at every poll.

`DbManagerProofs` proves for any sets of programs, threads and identities, and any
number of rows and answers, `DbInv` and, from it, the five properties of the run
`db_manager`. `DbInv` is `TypeOK` with

* `PlaceInv`: a thread knows what it works on, and while one clears the tables no
  other of its program runs;
* `TablesInv`: a transaction is an extension of the file it started from; so its
  COMMIT takes no acknowledged row away;
* `AnswersInv`: what a program was told is found, in the file or in the open transaction,
  and so is the request of every response that is sure; a connection that checks foreign
  keys has added no response without its request in its transaction (`NoNewOrphans`),
  which is what its COMMIT will show;
* `RobbedInv`: a claim has the write lock unless it was robbed; so a COMMIT is always that
  of the thread's own claim;
* `TransactionHasItsClaim` and `ClaimInv`: but for what is spoiled, what is held is not
  pending in the file nor in the transaction of a claim, and what is marked as running is
  held or about to be committed. `HandedOutOnce` and `ClaimsAreAccountedFor` are about the
  file alone and need what `ClaimInv` says of the transaction; a transaction that was left
  open belongs to no claim (`Owner`), and nothing of it reaches the file any more.

`ResponsesFindTheirRequest` is an action property; it follows from `Kept`, what every change
of the database keeps (`ChangeKeeps`): a statement or a COMMIT adds no orphan as long as the
connections that write check foreign keys. Nothing is assumed of which do.

It also proves that every step of `DbManager` is a step of `WorkList` or a stutter
(`DbImplementsWorkList`), failed COMMITs and robbed claims included. `DbInv` is too weak for
that: it would let a transaction hold any change of the other rows, and the COMMIT of a
claim would show them all at once. `WorkInv` adds `TransactionInv`, row by row what a
transaction holds: the rows of the file as they are, new rows that are pending, and the one
row that its claim has marked as running, which was pending before. The lemmas `SaveAdds`
and `OthersWait` are why: of the other thread's statements only saves can fall into a
transaction, since who updates a status is the thread that claims, and no claim is open
while the tables are cleared.

`TransferProofs` proves for every word size, largest block, chunk size, first capacity
and set of methods `TransferInv`, and from it the three properties of the run
`transfer`. `TransferInv` is `TypeOK`, `BuffersHold`, `HeaderListFreed`, `OkSoFar`
(while the result is RESPONSE_OK, the handle is as asked and no byte was dropped) and
`ListSoFar` (how long the header list is at each stage). The lemma `StoredFits` has
the arithmetic: neither the sum nor the doubled capacity wraps, and what `max_size`
returns leaves room. `OkMeansDone` is not inductive because it speaks of the end only.

`DslProofs` proves for every alphabet and texts of any length `LexerInv` and, from
it, `TokensAreTheInput` and `StringsHaveTheirToken`. `LexerInv` is `TypeOK` with:
`line` and `column` are those of `pos` (`IsPlace`, which steps back to the line end
instead of choosing it; the lemma `PlaceIsCounted` has that it is the same); the flag
for the raw rest of a line follows the last token (`ModeInv`); each scanner knows where
its token started and what it passed since (`ScanInv`); each token fits behind the one
before it (`TokenInv`); and the array has room before a token is made (`RoomInv`). The
lemma `StepKeeps` covers every step that makes no token and `TakeKeeps` every step that
makes one. `LexerReturnsWhatTheParserReads` connects the two modules: what `NextTokens`
of `DslParser` assumes of the lexer is true of `DslLexer`.

`DslProofs` also proves for sources of any length, any set of methods and any limits of
cases and assertions `ParserInv` and, from it, `PlanIsMeaning`, `ErrorAtFirstBadToken`
and `NoStringLost`. `ParserInv` is `ParserTypeOK`, these three properties, and, while
the parser runs,

* `ErrorInv`: an error so far is an error token, and it is the current one; so the first
  error stays where it was put;
* `StatementInv`: what is consumed of the statement is the beginning of one line of the
  language, and everything before the current token is `Viable`; at the end of a
  statement the current token is viable exactly if it ends the line. Without it an error
  could not be seen to be at the first bad token, nor the assertion to have room;
* `PlanInv`: the plan is what the finished statements say (`Means` of the tokens before
  the statement), which is how `PlanIsMeaning`, which speaks of the end only, is reached;
* `CopiedInv`: which tokens the strings copy. A body is a copy of a raw token and nothing
  else is, so that no other case loses its string when a BODY line replaces a body
  (`BodyIsAlone`); a header name that is dropped is in no case (`NameDropped`).

`CurrentViable` says for each stage which current tokens a program can have there, from
the lines as a tree of tokens (`LineTokens`). `MeansRequest`, `MeansBody` and
`MeansExpect` say for each kind of line that `Means` holds with it if it held above it.

`AssertionProofs` proves for texts and words of any length over any characters
`AssertionInv`, and from it `VerdictIsMeaning` and `ReadsStayInside`. `AssertionInv` is
the loop invariant of the two searches: nothing before the position matches, and the
position is that of a line (`SearchedBody`, `SearchedHeaders`). Its lemmas say that the
pointer loops of `assertion.c` decide what the definitions without pointers say of a
line: `Find` is its first colon or end, `RtrimEnd` the end of what is not blank.

`CliProofs` proves for every set of command lines and every number of assertions
`CliInv`, and from it `EachBlockFreedOnce`. `CliInv` is `OptionsInv` (the decoded
bytes are numbered through, so each has one owner), `PlanInv` (a plan points to its
own copies or NULL, never to the options' bytes or to argv) and `OwnersInv`: what is
allocated is what the options and the plan own, and the plan is empty wherever the
code does not free it (`post`, a refused option). The property alone says nothing of
what the cleanup labels will find. `SuccessInv` adds `ReadInv`, that the options so far
are what the words up to `i` say (the lemma `OneOptionMore` has one step of
`parse_cli_options`), and `CheckedInv`, that the plan's assertions are the options';
`SuccessMeansChecked` follows.

The assumptions, each named in the module that declares its constants and evaluated by
TLC in the runs, are:

* `ThreadsAssumption`, `RuntimeAssumption`: the sets of threads and of pointers are
  apart, NULL is no pointer, there is at least one worker;
* `EngineAssumption`: a plan has at least one case and each case one identity; a
  result is polled at least once;
* `DbAssumption`: the threads are a main thread and a DB worker per program, and the
  DB worker alone claims and updates;
* `RequestAssumption` (the methods are those of `enum Method`) and `SizeAssumption`:
  twice the largest block, and the largest block with a chunk and a byte, are below
  `Word`;
* `LexerAssumption`: the characters are the classes that the code tells apart, the
  array has room for one token at least;
* `ParserAssumption`: a method is none of the other tokens, and the limits are positive;
* `AssertionAssumption`: texts and words are sequences of characters, and lower case
  maps characters to characters;
* `CliAssumption`: command lines are sequences of words, digits are digits.

Only model-checked: the liveness properties and the refinements with fairness, which are
out of the prover's reach. Every safety invariant of the runs that pass, and
the steps of every refinement, are proved; the runs that find a violation are counterexamples and have nothing to prove.

## 6. Plan

Done: the chain queue, runtime, engine; one transfer; the database manager; the lexer,
the parser and the assertions; the command line; the abstract queue, pipeline and list
of work with their refinements; the theorems above. Nothing of the plan is open.

Not modelled, and why:

* the printed output (`cli/cli_output.c`, `print_usage`, `print_run_result`) and the
  logger: layout and text, no state that anything reads;
* the benchmark tool, the scripts and the tests: not part of the program;
* `read_file` (`dsl/dsl.c`): I/O, represented by its failure;
* `core/models.c` but for allocation, ownership and failure: copies of fields;
* libcurl and SQLite: external, modelled by the results their callers see; of SQLite
  that includes its lock, its transactions and its foreign keys, on or off;
* the clock: a poll that does or does not reach its deadline stands for it, and the up
  to 99 ms by which a timeout may be late (`core/orchestrator.c:193`) are not there;
* header lines of redirects, which go into one buffer with those of the last response
  (`core/worker.c:94`): `Assertion` takes the text as it is.
