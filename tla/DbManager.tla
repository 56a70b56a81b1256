----------------------------- MODULE DbManager -----------------------------
(***************************************************************************)
(* src/core/db_manager.c, one step per SQLite statement, as the two        *)
(* threads of a program that know the connection use it: the main thread   *)
(* (run_plan) and the DB worker (db_worker_routine).  They share ONE       *)
(* connection, so a transaction of db_get_next_pending_request is open for *)
(* the statements of both.  Several programs may use one file, each with a *)
(* connection of its own; SQLite gives the write lock to one of them, and  *)
(* without a busy timeout the statements of the others fail at once.       *)
(*                                                                         *)
(* A request row is its identity and its status (0 is pending, 1 stands    *)
(* for every other: the code tells no more of them apart); its id is its   *)
(* position, as AUTOINCREMENT counts on from the highest id ever committed.*)
(* created_at has a resolution of one second: which of the pending rows is *)
(* the first is left open.  Requests here have a body (see Engine).        *)
(*                                                                         *)
(* db_init goes on when its PRAGMAs fail (db_manager.c:18-22): such a      *)
(* connection does not check foreign keys.                                 *)
(***************************************************************************)
EXTENDS Integers, Sequences, FiniteSets

CONSTANTS Processes,  \* running programs that opened the file
          Threads,    \* those of their threads that call the DB manager
          Calls,      \* what each of them calls it for: only the DB worker
                      \* of a program claims requests and updates them
                      \* (worker.c:326-352)
          Keys,       \* request identities (collection, method, url, body)
          Gone,       \* stands for the key of a deleted row
          None,       \* no process, no argument
          MaxRows,    \* bound: ids that are given out
          MaxAnswers, \* bound: response rows
          MaxTold,    \* bound: saved requests that a program remembers
          MaxSpoiled  \* bound: requests whose claim or reset goes wrong

ASSUME DbAssumption ==
    /\ Threads \subseteq Processes \X {"main", "db"}
    /\ Calls \in [Threads -> SUBSET {"save", "respond", "claim", "status", "clear"}]
    /\ \A t \in Threads : Calls[t] \cap {"claim", "status"} # {} => t[2] = "db"
    /\ Gone \notin Keys
    /\ None \notin Processes
    /\ MaxRows \in Nat \ {0}
    /\ MaxAnswers \in Nat /\ MaxTold \in Nat /\ MaxSpoiled \in Nat

VARIABLES
    disk,           \* what the file holds
    work, writer,   \* the open transaction: the tables in it, and whose it is
    pc, arg,        \* where a thread is in its call, and the key or id there
    leftOpen,       \* a COMMIT failed and left that transaction open
    unchecked,      \* programs whose connection runs without foreign keys
    told,           \* what db_save_request returned: ids in a program's memory,
                    \* and what became of the transaction it was told in
    handed,         \* ids handed out, or lost in a crash before they were,
                    \* since their last reset
    robbed,         \* threads whose claim lost its transaction to a failed
                    \* statement of the other thread
    spoiled         \* ids whose claim was robbed or failed to COMMIT, or whose
                    \* reset went into a transaction left open

database == <<disk, work, writer, leftOpen, told>>
history == <<handed, robbed, spoiled>>
vars == <<database, unchecked, pc, arg, history>>

ThreadsOf(p) == {t \in Threads : t[1] = p}
Ids == 1 .. MaxRows
Rows == [key : Keys \cup {Gone}, status : {0, 1}]
Told == [id : Ids, key : Keys, fate : {"open", "saved", "undone"}]
Answers == [id : Ids, key : Keys, sure : BOOLEAN]
Tables == [collection : BOOLEAN, requests : Seq(Rows), responses : SUBSET Answers]
\* For the others it makes no difference: they insert and delete nothing.
Writers == {p \in Processes : \E t \in ThreadsOf(p) :
               Calls[t] \cap {"save", "respond", "clear"} # {}}
Claiming == {"begun", "selected", "updated", "failed"}
InTransaction == Claiming \ {"failed"}
Clearing == {"clear_requests", "clear_collections"}

TypeOK ==
    /\ disk \in Tables /\ work \in Tables
    /\ writer \in Processes \cup {None}
    /\ pc \in [Threads -> {"idle", "inserted", "claimed"}
                              \cup Claiming \cup Clearing]
    /\ arg \in [Threads -> Keys \cup Ids \cup {None}]
    /\ leftOpen \in BOOLEAN
    /\ unchecked \subseteq Writers
    /\ told \in [Processes -> SUBSET Told]
    /\ handed \subseteq Ids /\ robbed \subseteq Threads /\ spoiled \subseteq Ids

EmptyTables == [collection |-> FALSE, requests |-> <<>>, responses |-> {}]

\* db_init of every program: the first one creates the tables; where the
\* PRAGMAs fail (the file is busy, say) it prints and goes on without them.
Init ==
    /\ disk = EmptyTables /\ work = EmptyTables
    /\ writer = None /\ leftOpen = FALSE
    /\ unchecked \in SUBSET Writers
    /\ pc = [t \in Threads |-> "idle"]
    /\ arg = [t \in Threads |-> None]
    /\ told = [p \in Processes |-> {}]
    /\ handed = {} /\ robbed = {} /\ spoiled = {}

-----------------------------------------------------------------------------
(* SQLite, as its callers see it *)

\* The tables a connection reads: its own transaction's, or the file's.
View(p) == IF writer = p THEN work ELSE disk

\* A statement that writes: into the open transaction of its own connection,
\* or, when nobody has the write lock, straight to the file.
Write(p, tables) ==
    /\ \/ writer = p /\ work' = tables /\ UNCHANGED disk
       \/ writer = None /\ disk' = tables /\ UNCHANGED work
    /\ UNCHANGED <<writer, leftOpen, told>>

Checked(p) == p \notin unchecked

\* What p was told in its transaction is settled when the transaction ends.
Settled(p, fate) ==
    {IF answer.fate = "open" THEN [answer EXCEPT !.fate = fate] ELSE answer :
        answer \in told[p]}
EndTransaction(p, fate) ==
    /\ writer' = None /\ work' = EmptyTables /\ leftOpen' = FALSE
    /\ told' = [told EXCEPT ![p] = Settled(p, fate)]

Rollback(p) == writer = p /\ EndTransaction(p, "undone") /\ UNCHANGED disk

\* A statement that fails (busy, full, out of memory, a constraint) changes
\* nothing; some of these errors also roll back the open transaction.
Fails(p) == UNCHANGED database \/ Rollback(p)

IdsOf(tables, key) == {i \in DOMAIN tables.requests : tables.requests[i].key = key}
Exists(tables, i) == i \in DOMAIN tables.requests /\ tables.requests[i].key # Gone

\* UPDATE requests SET status = ? WHERE id = ?: no such row is no error.
WithStatus(tables, i, status) ==
    IF Exists(tables, i) THEN [tables EXCEPT !.requests[i].status = status] ELSE tables

Goto(t, label, value) ==
    pc' = [pc EXCEPT ![t] = label] /\ arg' = [arg EXCEPT ![t] = value]
Return(t) == Goto(t, "idle", None)

\* The tests call db_clear_all while no worker runs.
MayCall(t, call) ==
    /\ pc[t] = "idle" /\ call \in Calls[t]
    /\ \A u \in ThreadsOf(t[1]) : pc[u] \notin Clearing

-----------------------------------------------------------------------------
(* Saving: by the main thread directly, or by the DB worker for a DBTask *)

\* INSERT OR IGNORE INTO collections; the SELECT of its id changes nothing.
SaveCollection(t) ==
    /\ MayCall(t, "save")
    /\ Write(t[1], [View(t[1]) EXCEPT !.collection = TRUE])
    /\ UNCHANGED <<unchecked, pc, arg, history>>

\* INSERT OR IGNORE INTO requests; the collection is a foreign key.
InsertRequest(t, key) ==
    /\ MayCall(t, "save")
    /\ LET tables == View(t[1]) IN
          IF IdsOf(tables, key) # {} THEN Write(t[1], tables)
          ELSE /\ Checked(t[1]) => tables.collection
               /\ Len(tables.requests) < MaxRows
               /\ Write(t[1], [tables EXCEPT
                      !.requests = Append(@, [key |-> key, status |-> 0])])
    /\ Goto(t, "inserted", key)
    /\ UNCHANGED <<unchecked, history>>

\* Any statement of a call that is not inside a transaction of its own may
\* fail, and the call returns SQLITE_ERROR.
StatementFails(t) ==
    /\ pc[t] \in {"idle", "inserted"}
    /\ Fails(t[1]) /\ Return(t)
    /\ robbed' = IF writer' = writer THEN robbed
                 ELSE robbed \cup {u \in ThreadsOf(t[1]) : pc[u] \in InTransaction}
    /\ UNCHANGED <<unchecked, handed, spoiled>>

\* req->id = i.
Tell(t, i) ==
    /\ Cardinality(told[t[1]]) < MaxTold
    /\ told' = [told EXCEPT ![t[1]] = @ \cup {[id |-> i, key |-> arg[t],
                   fate |-> IF writer = t[1] THEN "open" ELSE "saved"]}]
    /\ Return(t)
    /\ UNCHANGED <<disk, work, writer, leftOpen, unchecked, history>>

\* Mutant of SelectRequest: the id is taken from the last insert instead.
SelectLastInserted(t) ==
    /\ pc[t] = "inserted"
    /\ View(t[1]).requests # <<>>
    /\ Tell(t, Len(View(t[1]).requests))

\* SELECT id FROM requests WHERE the identity matches: SQLITE_OK.
SelectRequest(t) ==
    /\ pc[t] = "inserted"
    /\ \E i \in IdsOf(View(t[1]), arg[t]) : Tell(t, i)

ResponseRow(answer) ==
    [id |-> answer.id, key |-> answer.key, sure |-> answer.fate # "undone"]

\* Mutant of InsertResponse: PRAGMA foreign_keys=ON is never executed.
InsertResponseUnchecked(t, answer) ==
    /\ MayCall(t, "respond")
    /\ answer \in told[t[1]]
    /\ Cardinality(View(t[1]).responses) < MaxAnswers
    /\ Write(t[1], [View(t[1]) EXCEPT !.responses = @ \cup {ResponseRow(answer)}])
    /\ UNCHANGED <<unchecked, pc, arg, history>>

\* db_save_response for a transfer of the request that was saved under its id;
\* the request is a foreign key.  The row id it reads back is only logged.
InsertResponse(t, answer) ==
    /\ MayCall(t, "respond")
    /\ answer \in told[t[1]]
    /\ Checked(t[1]) => Exists(View(t[1]), answer.id)
    /\ Cardinality(View(t[1]).responses) < MaxAnswers
    /\ Write(t[1], [View(t[1]) EXCEPT !.responses = @ \cup {ResponseRow(answer)}])
    /\ UNCHANGED <<unchecked, pc, arg, history>>

-----------------------------------------------------------------------------
(* db_get_next_pending_request and db_update_request_status (DB worker) *)

\* Mutant of Begin: every statement commits by itself.
BeginNothing(t) ==
    /\ MayCall(t, "claim")
    /\ Goto(t, "begun", None)
    /\ UNCHANGED <<database, unchecked, history>>

\* BEGIN IMMEDIATE takes the write lock or fails: the call returns NULL.
Begin(t) ==
    /\ MayCall(t, "claim")
    /\ writer = None
    /\ writer' = t[1] /\ work' = disk
    /\ Goto(t, "begun", None)
    /\ UNCHANGED <<disk, leftOpen, told, unchecked, history>>

Pending(p) ==
    {i \in DOMAIN View(p).requests : Exists(View(p), i) /\ View(p).requests[i].status = 0}

\* Mutant of ClaimSelect: no ROLLBACK on the way out with nothing to do.
ClaimSelectLeaves(t) ==
    /\ pc[t] = "begun"
    /\ \/ \E i \in Pending(t[1]) : Goto(t, "selected", i) /\ UNCHANGED database
       \/ Fails(t[1]) /\ Return(t)
    /\ UNCHANGED <<unchecked, history>>

\* One pending row, copied to the heap; no row, or no memory for the copy.
ClaimSelect(t) ==
    /\ pc[t] = "begun"
    /\ \/ \E i \in Pending(t[1]) : Goto(t, "selected", i) /\ UNCHANGED database
       \/ Fails(t[1]) /\ Goto(t, "failed", None)
    /\ UNCHANGED <<unchecked, history>>

\* Mutant of ClaimUpdate: the status is left alone.
ClaimUpdateNothing(t) ==
    /\ pc[t] = "selected"
    /\ Goto(t, "updated", arg[t])
    /\ UNCHANGED <<database, unchecked, history>>

\* The file no longer shows whether request i is free.
Spoil(i) ==
    /\ spoiled' = spoiled \cup {i}
    /\ Cardinality(spoiled') <= MaxSpoiled

SpoilIfRobbed(t) == IF t \in robbed THEN Spoil(arg[t]) ELSE UNCHANGED spoiled

\* Mutant of ClaimUpdate: without WHERE id = ?.
ClaimUpdateAll(t) ==
    /\ pc[t] = "selected"
    /\ \/ /\ Write(t[1], [View(t[1]) EXCEPT !.requests =
                            [i \in DOMAIN @ |-> [@[i] EXCEPT !.status = 1]]])
          /\ Goto(t, "updated", arg[t])
          /\ SpoilIfRobbed(t)
       \/ Fails(t[1]) /\ Goto(t, "failed", None) /\ UNCHANGED spoiled
    /\ UNCHANGED <<unchecked, handed, robbed>>

\* Without its transaction, ended under it by a failed statement of the other
\* thread, the UPDATE commits by itself.
ClaimUpdate(t) ==
    /\ pc[t] = "selected"
    /\ \/ /\ Write(t[1], WithStatus(View(t[1]), arg[t], 1))
          /\ Goto(t, "updated", arg[t])
          /\ SpoilIfRobbed(t)
       \/ Fails(t[1]) /\ Goto(t, "failed", None) /\ UNCHANGED spoiled
    /\ UNCHANGED <<unchecked, handed, robbed>>

Committed(p) == writer = p /\ disk' = work /\ EndTransaction(p, "saved")

\* A COMMIT that fails leaves the transaction open or rolls it back.
CommitFails(p) ==
    \/ writer = p /\ leftOpen' = TRUE /\ UNCHANGED <<disk, work, writer, told>>
    \/ Rollback(p)

\* The result of COMMIT is not looked at, be it that there is no transaction any
\* more: the call returns the request.
ClaimCommit(t) ==
    /\ pc[t] = "updated"
    /\ \/ Committed(t[1]) /\ UNCHANGED spoiled
       \/ CommitFails(t[1]) /\ Spoil(arg[t])
       \/ writer # t[1] /\ UNCHANGED database /\ SpoilIfRobbed(t)
    /\ Goto(t, "claimed", arg[t])
    /\ robbed' = robbed \ {t}
    /\ UNCHANGED <<unchecked, handed>>

ClaimRollback(t) ==
    /\ pc[t] = "failed"
    /\ IF writer = t[1] THEN Rollback(t[1]) ELSE UNCHANGED database
    /\ Return(t)
    /\ robbed' = robbed \ {t}
    /\ UNCHANGED <<unchecked, handed, spoiled>>

\* db_worker_routine gives the request to the callback, or frees it.
Deliver(t) ==
    /\ pc[t] = "claimed"
    /\ handed' = handed \cup {arg[t]}
    /\ Return(t)
    /\ UNCHANGED <<database, unchecked, robbed, spoiled>>

\* DB_TASK_UPDATE_STATUS, sent by who was handed the request: back to pending,
\* or done.
UpdateStatus(t, i, status) ==
    /\ MayCall(t, "status")
    /\ i \in handed
    /\ Write(t[1], WithStatus(View(t[1]), i, status))
    /\ IF status = 1 THEN UNCHANGED history
       ELSE /\ handed' = handed \ {i}
            /\ IF leftOpen THEN Spoil(i) ELSE UNCHANGED spoiled
            /\ UNCHANGED robbed
    /\ UNCHANGED <<unchecked, pc, arg>>

-----------------------------------------------------------------------------
(* db_clear_all: three DELETEs, whose results are not looked at *)

\* The main thread calls it before create_runtime or after destroy_runtime
\* (tests/test_db_worker.c:44-50, 64-74): its program has no DB worker then.
ClearResponses(t) ==
    /\ MayCall(t, "clear")
    /\ \A u \in ThreadsOf(t[1]) : pc[u] = "idle"
    /\ Write(t[1], [View(t[1]) EXCEPT !.responses = {}]) \/ Fails(t[1])
    /\ Goto(t, "clear_requests", None)
    /\ UNCHANGED <<unchecked, history>>

\* Refused as a whole while a response refers to one of the rows.
ClearRequests(t) ==
    /\ pc[t] = "clear_requests"
    /\ \/ /\ Checked(t[1]) =>
                \A row \in View(t[1]).responses : ~ Exists(View(t[1]), row.id)
          /\ Write(t[1], [View(t[1]) EXCEPT !.requests =
                             [i \in DOMAIN @ |-> [key |-> Gone, status |-> 0]]])
       \/ Fails(t[1])
    /\ Goto(t, "clear_collections", None)
    /\ UNCHANGED <<unchecked, history>>

ClearCollections(t) ==
    /\ pc[t] = "clear_collections"
    /\ \/ /\ Checked(t[1]) =>
                \A i \in DOMAIN View(t[1]).requests : ~ Exists(View(t[1]), i)
          /\ Write(t[1], [View(t[1]) EXCEPT !.collection = FALSE])
       \/ Fails(t[1])
    /\ Return(t)
    /\ UNCHANGED <<unchecked, history>>

-----------------------------------------------------------------------------
\* The connection goes, and with it the open transaction and what the program
\* knew; the program may be started again, with or without foreign keys.
Disconnect(p) ==
    /\ IF writer = p THEN writer' = None /\ work' = EmptyTables /\ leftOpen' = FALSE
       ELSE UNCHANGED <<work, writer, leftOpen>>
    /\ unchecked' \in {unchecked \ {p}, unchecked \cup ({p} \cap Writers)}
    /\ pc' = [t \in Threads |-> IF t[1] = p THEN "idle" ELSE pc[t]]
    /\ arg' = [t \in Threads |-> IF t[1] = p THEN None ELSE arg[t]]
    /\ told' = [told EXCEPT ![p] = {}]
    /\ robbed' = {t \in robbed : t[1] # p}
    /\ UNCHANGED <<disk, spoiled>>

\* db_close, after the DB worker was joined.
Close(p) ==
    /\ \A t \in ThreadsOf(p) : pc[t] = "idle"
    /\ Disconnect(p)
    /\ UNCHANGED handed

\* The request a DB worker has marked as running and not yet passed on.
InHand(t) ==
    {i \in Ids : pc[t] = "claimed" /\ arg[t] = i
                    /\ Exists(disk, i) /\ disk.requests[i].status = 1}

\* The program is killed.
Crash(p) ==
    /\ Disconnect(p)
    /\ handed' = handed \cup UNION {InHand(t) : t \in ThreadsOf(p)}

SaveStep(t) ==
    \/ SaveCollection(t)
    \/ \E key \in Keys : InsertRequest(t, key)
    \/ SelectRequest(t) \/ StatementFails(t)
    \/ \E answer \in told[t[1]] : InsertResponse(t, answer)

ClaimStep(t) ==
    ClaimSelect(t) \/ ClaimUpdate(t) \/ ClaimCommit(t) \/ ClaimRollback(t)

ClearStep(t) == ClearResponses(t) \/ ClearRequests(t) \/ ClearCollections(t)

Next ==
    \/ \E t \in Threads :
          \/ SaveStep(t) \/ Begin(t) \/ ClaimStep(t) \/ Deliver(t) \/ ClearStep(t)
          \/ \E i \in Ids, status \in {0, 1} : UpdateStatus(t, i, status)
    \/ \E p \in Processes : Close(p) \/ Crash(p)

Spec == Init /\ [][Next]_vars

-----------------------------------------------------------------------------
(* Properties *)

\* Request i of the tables is the one with this key, or db_clear_all deleted it.
Found(tables, i, key) ==
    i \in DOMAIN tables.requests /\ tables.requests[i].key \in {key, Gone}

SureFound(tables) ==
    \A row \in tables.responses : row.sure => Found(tables, row.id, row.key)

\* What db_save_request reported as saved is in the file under the id it gave,
\* whatever other threads, programs, rollbacks and crashes do; if it fell into
\* a transaction of the DB worker on the same connection, it is there until the
\* transaction ends, and in the file after its COMMIT.  A response to it, even
\* a late one, never is at the row of another request, with or without foreign
\* keys.  Only an id from a transaction that was rolled back can be given out
\* again (db_manager.c:18-22, 53, 147-306, 412-457).
AcknowledgedIsDurable ==
    /\ \A p \in Processes : \A answer \in told[p] :
          /\ answer.fate = "saved" => Found(disk, answer.id, answer.key)
          /\ answer.fate = "open" => writer = p /\ Found(work, answer.id, answer.key)
    /\ SureFound(disk)

Refers(tables, row) ==
    /\ Exists(tables, row.id)
    /\ row.sure => tables.requests[row.id].key = row.key

\* Every response of the new tables is at its request, but for the old ones
\* that were not.
NoNewOrphans(new, old) ==
    \A row \in new.responses :
        Refers(new, row) \/ (row \in old.responses /\ ~ Refers(old, row))

\* While the connections that write check foreign keys, nothing that becomes
\* visible in the file, be it a statement or a whole transaction, adds a
\* response without its request or takes the request from under one.  Where a
\* program went on without foreign keys nothing prevents it
\* (db_manager.c:18-22, 67-80, 147-206, 612-619).
ResponsesFindTheirRequest ==
    [][unchecked = {} => NoNewOrphans(disk', disk)]_disk

\* A row marked as running was handed to a callback, is on the way to one, or
\* is one of those whose own claim or reset met a failed COMMIT or a lost
\* transaction (db_manager.c:407-461, worker.c:333-352).
ClaimsAreAccountedFor ==
    \A i \in DOMAIN disk.requests \ spoiled :
        (disk.requests[i].status = 1 /\ Exists(disk, i)) =>
            i \in handed \/ \E t \in Threads : i \in InHand(t)

\* A pending request is handed out once, by whichever of the programs claims
\* it first; what a failed COMMIT does to one request does not spread to the
\* others, even while its transaction stays open (db_manager.c:412-455).
HandedOutOnce ==
    \A t \in Threads : pc[t] = "claimed" /\ arg[t] \notin spoiled =>
        /\ arg[t] \notin handed
        /\ \A u \in Threads \ {t} : pc[u] = "claimed" => arg[u] # arg[t]

\* The write lock is not kept: a transaction is open only while its claim is
\* in a call that ends it, on every error path, unless the COMMIT of just that
\* transaction failed (db_manager.c:428-460).
TransactionHasItsClaim ==
    writer # None => leftOpen \/ \E t \in ThreadsOf(writer) : pc[t] \in Claiming

-----------------------------------------------------------------------------
(* The inductive invariant *)

\* A thread knows what it works on, and nothing else of its program runs while
\* it clears the tables.
PlaceInv ==
    \A t \in Threads :
        /\ pc[t] = "inserted" => arg[t] \in Keys
        /\ pc[t] \in {"selected", "updated", "claimed"} => arg[t] \in Ids
        /\ pc[t] \in Claiming \cup {"claimed"} => "claim" \in Calls[t]
        /\ pc[t] \in Clearing =>
              \A u \in ThreadsOf(t[1]) \ {t} : pc[u] = "idle"

\* Rows are added at the end and lose their key only by deletion.
Extends(new, old) ==
    /\ Len(old.requests) <= Len(new.requests)
    /\ \A i \in DOMAIN old.requests :
          new.requests[i].key \in {old.requests[i].key, Gone}

\* A transaction starts from the file and the file waits for it.
TablesInv ==
    /\ Len(disk.requests) <= MaxRows /\ Len(work.requests) <= MaxRows
    /\ IF writer = None THEN work = EmptyTables /\ ~ leftOpen
       ELSE Extends(work, disk)

\* The same of the open transaction; a connection that checks foreign keys has
\* added no response without its request in it.
AnswersInv ==
    /\ AcknowledgedIsDurable
    /\ SureFound(work)
    /\ writer # None /\ Checked(writer) => NoNewOrphans(work, disk)

\* Somebody was given request i, or is about to be.
Held(i) == i \in handed \/ \E t \in Threads : pc[t] = "claimed" /\ arg[t] = i

Running(tables, i) == Exists(tables, i) /\ tables.requests[i].status = 1
Taken(tables, i) ==
    i \in DOMAIN tables.requests /\ (Exists(tables, i) => Running(tables, i))

\* The program whose claim the open transaction is, and the claims that have
\* not lost theirs.
Owner == IF leftOpen THEN None ELSE writer
InItsTransaction(t) == pc[t] \in InTransaction /\ t \notin robbed

\* Who was robbed has no transaction until its claim is over, who was not has.
RobbedInv ==
    \A t \in Threads :
        /\ t \in robbed => pc[t] \in Claiming /\ writer # t[1]
        /\ InItsTransaction(t) => Owner = t[1]

\* Except for what is spoiled: nobody holds what a claim has selected in its
\* transaction; what is held is not pending in the file nor in the transaction
\* of a claim, and what is marked as running is held or about to be committed.
ClaimInv ==
    /\ \A t \in Threads :
          /\ InItsTransaction(t) /\ pc[t] \in {"selected", "updated"} =>
                arg[t] \in DOMAIN work.requests
                /\ (arg[t] \notin spoiled => ~ Held(arg[t]))
          /\ InItsTransaction(t) /\ pc[t] = "updated" => Taken(work, arg[t])
          /\ pc[t] = "claimed" /\ arg[t] \notin spoiled => arg[t] \notin handed
    /\ \A t, u \in Threads :
          pc[t] = "claimed" /\ pc[u] = "claimed" /\ arg[t] = arg[u] =>
              t = u \/ arg[t] \in spoiled
    /\ \A i \in Ids \ spoiled :
          /\ Held(i) => Taken(disk, i) /\ (Owner # None => Taken(work, i))
          /\ Running(disk, i) => Held(i)
          /\ Owner # None /\ Running(work, i) =>
                Held(i) \/ \E t \in Threads :
                              InItsTransaction(t) /\ pc[t] = "updated" /\ arg[t] = i

DbInv ==
    /\ TypeOK /\ PlaceInv /\ TablesInv /\ AnswersInv /\ TransactionHasItsClaim
    /\ RobbedInv /\ ClaimInv

-----------------------------------------------------------------------------
(* The work list that the requests table is *)

StateOf(i) ==
    CASE i \in spoiled -> "spoiled"
      [] i \notin spoiled /\ i \notin DOMAIN disk.requests -> "unused"
      [] i \in DOMAIN disk.requests \ spoiled /\ ~ Exists(disk, i) -> "deleted"
      [] i \notin spoiled /\ Exists(disk, i) /\ disk.requests[i].status = 0 -> "pending"
      [] i \notin spoiled /\ Running(disk, i) -> "taken"

RowStates == [i \in Ids |-> StateOf(i)]
ClaimedIds == {arg[t] : t \in {u \in Threads : pc[u] = "claimed"}} \ spoiled

List == INSTANCE WorkList WITH state <- RowStates, held <- ClaimedIds

\* db_get_next_pending_request is one step at its COMMIT and no statement of
\* another thread, program, rollback or crash takes a pending request from the
\* list; a COMMIT that fails, or that finds its transaction gone, spoils the
\* one request of its claim and no other (db_manager.c:407-461, 464-490,
\* 612-619, worker.c:333-352).
ImplementsWorkList == List!Init /\ [][List!Next]_<<RowStates, ClaimedIds>>

\* Row i of the open transaction and what became of row i of the file in it.
RowInWork(i) ==
    LET new == i \notin DOMAIN disk.requests
        old == disk.requests[i]
        row == work.requests[i]
        updated == \E t \in Threads :
                      InItsTransaction(t) /\ pc[t] = "updated" /\ arg[t] = i
    IN /\ IF new THEN row.key # Gone ELSE row.key = old.key
       /\ row.status = IF updated THEN 1 ELSE IF new THEN 0 ELSE old.status
       /\ updated /\ ~ new => old.status = 0

\* The transaction of a claim adds rows and takes the one it claims, no more.
TransactionInv ==
    /\ Owner # None => \A i \in DOMAIN work.requests : RowInWork(i)
    /\ \A t \in Threads : InItsTransaction(t) =>
          /\ pc[t] = "selected" => Exists(work, arg[t]) /\ work.requests[arg[t]].status = 0
          /\ pc[t] = "updated" => Exists(work, arg[t])

WorkInv == DbInv /\ TransactionInv
=============================================================================
