-------------------------- MODULE DbManagerProofs --------------------------
(* Proofs about DbManager, for any number of programs and requests. *)
EXTENDS DbManager, SequenceTheorems, TLAPS

-----------------------------------------------------------------------------
(* The tables: what a statement does to the rows                             *)

LEMMA TableRows ==
    ASSUME NEW T \in Tables
    PROVE  /\ T.requests \in Seq(Rows) /\ T.responses \subseteq Answers
           /\ Len(T.requests) \in Nat /\ DOMAIN T.requests = 1 .. Len(T.requests)
           /\ \A i \in DOMAIN T.requests :
                 T.requests[i].key \in Keys \cup {Gone} /\ T.requests[i].status \in {0, 1}
<1>1. T.requests \in Seq(Rows) /\ T.responses \subseteq Answers
  BY DEF Tables
<1>2. Len(T.requests) \in Nat /\ DOMAIN T.requests = 1 .. Len(T.requests)
  BY <1>1, LenProperties
<1>3. \A i \in DOMAIN T.requests : T.requests[i] \in Rows
  BY <1>1, <1>2, ElementOfSeq
<1> QED
  BY <1>1, <1>2, <1>3 DEF Rows

LEMMA EmptyTable ==
    EmptyTables \in Tables /\ Len(EmptyTables.requests) = 0
    /\ EmptyTables.requests = <<>> /\ EmptyTables.responses = {}
<1>1. <<>> \in Seq(Rows) /\ Len(<<>>) = 0
  BY EmptySeq
<1> QED
  BY <1>1 DEF EmptyTables, Tables

(* INSERT OR IGNORE INTO collections, DELETE FROM collections *)
LEMMA CollectionTable ==
    ASSUME NEW T \in Tables, NEW b \in BOOLEAN
    PROVE  LET U == [T EXCEPT !.collection = b] IN
           U \in Tables /\ U.requests = T.requests /\ U.responses = T.responses
  BY DEF Tables

(* INSERT INTO responses, DELETE FROM responses *)
LEMMA ResponseTable ==
    ASSUME NEW T \in Tables, NEW R \in SUBSET Answers
    PROVE  LET U == [T EXCEPT !.responses = R] IN
           U \in Tables /\ U.requests = T.requests /\ U.responses = R
  BY DEF Tables

(* INSERT INTO requests *)
LEMMA AppendTable ==
    ASSUME NEW T \in Tables, NEW key \in Keys
    PROVE  LET row == [key |-> key, status |-> 0]
               U == [T EXCEPT !.requests = Append(@, row)] IN
           /\ U \in Tables /\ U.responses = T.responses
           /\ Len(U.requests) = Len(T.requests) + 1
           /\ U.requests[Len(T.requests) + 1] = row
           /\ \A i \in DOMAIN T.requests : U.requests[i] = T.requests[i]
<1> DEFINE row == [key |-> key, status |-> 0]
           q == Append(T.requests, row)
           U == [T EXCEPT !.requests = Append(@, row)]
<1>1. row \in Rows
  BY DEF Rows
<1>2. /\ q \in Seq(Rows) /\ Len(q) = Len(T.requests) + 1
      /\ q[Len(T.requests) + 1] = row
      /\ \A i \in 1 .. Len(T.requests) : q[i] = T.requests[i]
  BY <1>1, TableRows, AppendProperties
<1>3. U = [T EXCEPT !.requests = q]
  OBVIOUS
<1> HIDE DEF row, q
<1>4. U \in Tables /\ U.requests = q /\ U.responses = T.responses
  BY <1>2, <1>3 DEF Tables
<1> QED
  BY <1>2, <1>4, TableRows DEF row

(* DELETE FROM requests *)
LEMMA DeleteTable ==
    ASSUME NEW T \in Tables
    PROVE  LET U == [T EXCEPT !.requests =
                        [i \in DOMAIN @ |-> [key |-> Gone, status |-> 0]]] IN
           /\ U \in Tables /\ U.responses = T.responses
           /\ Len(U.requests) = Len(T.requests)
           /\ \A i \in DOMAIN T.requests : U.requests[i] = [key |-> Gone, status |-> 0]
<1> DEFINE row == [key |-> Gone, status |-> 0]
           n == Len(T.requests)
           q == [i \in 1 .. n |-> row]
           U == [T EXCEPT !.requests = [i \in DOMAIN @ |-> row]]
<1>1. n \in Nat /\ DOMAIN T.requests = 1 .. n
  BY TableRows
<1>2. row \in Rows
  BY DEF Rows
<1> HIDE DEF n, row
<1>3. q \in [1 .. n -> Rows]
  BY <1>2
<1>4. q \in Seq(Rows)
  BY <1>1, <1>3, SeqDef
<1>5. Len(q) = n
  BY <1>1, <1>4, LenProperties
<1>6. U = [T EXCEPT !.requests = q]
  BY <1>1
<1>7. \A i \in 1 .. n : q[i] = row
  OBVIOUS
<1> HIDE DEF q
<1>8. U \in Tables /\ U.requests = q /\ U.responses = T.responses
  BY <1>4, <1>6 DEF Tables
<1> QED
  BY <1>1, <1>5, <1>7, <1>8 DEF row, n

(* UPDATE requests SET status *)
LEMMA StatusTable ==
    ASSUME NEW T \in Tables, NEW i, NEW s \in {0, 1}
    PROVE  LET U == WithStatus(T, i, s) IN
           /\ U \in Tables /\ U.responses = T.responses
           /\ Len(U.requests) = Len(T.requests)
           /\ \A j \in DOMAIN T.requests :
                 /\ U.requests[j].key = T.requests[j].key
                 /\ U.requests[j].status =
                       IF j = i /\ Exists(T, i) THEN s ELSE T.requests[j].status
<1> DEFINE U == WithStatus(T, i, s)
<1>1. CASE ~Exists(T, i)
  BY <1>1 DEF WithStatus
<1>2. CASE Exists(T, i)
  <2> DEFINE q == [T.requests EXCEPT ![i].status = s]
             row == [T.requests[i] EXCEPT !.status = s]
  <2>1. T.requests \in Seq(Rows) /\ DOMAIN T.requests = 1 .. Len(T.requests)
        /\ i \in DOMAIN T.requests /\ T.requests[i] \in Rows
    BY <1>2, TableRows, ElementOfSeq DEF Exists
  <2>2. row \in Rows /\ row.key = T.requests[i].key /\ row.status = s
    BY <2>1 DEF Rows
  <2>3. q = [T.requests EXCEPT ![i] = row]
    OBVIOUS
  <2>4. U = [T EXCEPT !.requests = q]
    BY <1>2 DEF WithStatus
  <2> HIDE DEF row
  <2>5. /\ q \in Seq(Rows) /\ Len(q) = Len(T.requests)
        /\ \A j \in 1 .. Len(T.requests) : q[j] = IF j = i THEN row ELSE T.requests[j]
    BY <2>1, <2>2, <2>3, ExceptSeq
  <2> HIDE DEF q
  <2>6. U \in Tables /\ U.requests = q /\ U.responses = T.responses
    BY <2>4, <2>5 DEF Tables
  <2> QED
    BY <1>2, <2>1, <2>2, <2>5, <2>6
<1> QED
  BY <1>1, <1>2

-----------------------------------------------------------------------------
(* What every change of the tables keeps                                     *)

LEMMA ExtendsItself ==
    ASSUME NEW T \in Tables
    PROVE  Extends(T, T)
  BY TableRows DEF Extends

LEMMA ExtendsOn ==
    ASSUME NEW T \in Tables, NEW U \in Tables, NEW V \in Tables,
           Extends(U, T), Extends(V, U)
    PROVE  Extends(V, T)
<1>1. /\ Len(T.requests) \in Nat /\ Len(U.requests) \in Nat /\ Len(V.requests) \in Nat
      /\ DOMAIN T.requests = 1 .. Len(T.requests)
      /\ DOMAIN U.requests = 1 .. Len(U.requests)
  BY TableRows
<1>2. Len(T.requests) <= Len(U.requests) /\ Len(U.requests) <= Len(V.requests)
  BY DEF Extends
<1>3. ASSUME NEW i \in DOMAIN T.requests
      PROVE  V.requests[i].key \in {T.requests[i].key, Gone}
  <2>1. i \in DOMAIN U.requests
    BY <1>1, <1>2
  <2>2. U.requests[i].key \in {T.requests[i].key, Gone}
    BY DEF Extends
  <2>3. V.requests[i].key \in {U.requests[i].key, Gone}
    BY <2>1 DEF Extends
  <2> QED
    BY <2>2, <2>3
<1> QED
  BY <1>1, <1>2, <1>3 DEF Extends

(* What an insertion never disturbs: the request of a sure response. *)
LEMMA FoundStays ==
    ASSUME NEW T \in Tables, NEW U \in Tables, Extends(U, T), NEW i, NEW key,
           Found(T, i, key)
    PROVE  Found(U, i, key)
<1>1. DOMAIN T.requests \subseteq DOMAIN U.requests
  BY TableRows DEF Extends
<1> QED
  BY <1>1 DEF Found, Extends

LEMMA SureStays ==
    ASSUME NEW T \in Tables, NEW U \in Tables, Extends(U, T), SureFound(T),
           \A row \in U.responses \ T.responses : row.sure => Found(U, row.id, row.key)
    PROVE  SureFound(U)
<1> SUFFICES ASSUME NEW row \in U.responses, row.sure
             PROVE  Found(U, row.id, row.key)
  BY DEF SureFound
<1>1. CASE row \in T.responses
  BY <1>1, FoundStays DEF SureFound
<1> QED
  BY <1>1

LEMMA NoNewOrphansOn ==
    ASSUME NEW T, NEW U, NEW V, NoNewOrphans(U, T), NoNewOrphans(V, U)
    PROVE  NoNewOrphans(V, T)
  BY DEF NoNewOrphans

(* What is kept when no row is deleted. *)
LEMMA SameKeys ==
    ASSUME NEW T \in Tables, NEW U \in Tables,
           Len(T.requests) <= Len(U.requests),
           \A i \in DOMAIN T.requests : U.requests[i].key = T.requests[i].key,
           U.responses \subseteq T.responses, SureFound(T)
    PROVE  /\ Extends(U, T)
           /\ \A i : Exists(T, i) => Exists(U, i)
           /\ SureFound(U)
           /\ NoNewOrphans(U, T)
<1>1. DOMAIN T.requests \subseteq DOMAIN U.requests
  BY TableRows
<1>2. Extends(U, T)
  BY DEF Extends
<1>3. \A i : Exists(T, i) => Exists(U, i) /\ U.requests[i].key = T.requests[i].key
  BY <1>1 DEF Exists
<1>4. SureFound(U)
  BY <1>2, SureStays
<1>5. \A row : Refers(T, row) => Refers(U, row)
  BY <1>3 DEF Refers
<1>6. NoNewOrphans(U, T)
  BY <1>5 DEF NoNewOrphans
<1> QED
  BY <1>2, <1>3, <1>4, <1>6

Calm(U, T) ==
    \A i \in Ids : (Taken(T, i) => Taken(U, i)) /\ (Running(U, i) => Running(T, i))

LEMMA CalmRows ==
    ASSUME NEW T \in Tables, NEW U \in Tables, U.requests = T.requests
    PROVE  Calm(U, T)
  BY DEF Calm, Taken, Running, Exists

LEMMA CalmAppend ==
    ASSUME NEW T \in Tables, NEW key \in Keys
    PROVE  Calm([T EXCEPT !.requests = Append(@, [key |-> key, status |-> 0])], T)
<1> DEFINE U == [T EXCEPT !.requests = Append(@, [key |-> key, status |-> 0])]
<1>1. /\ U \in Tables
      /\ Len(U.requests) = Len(T.requests) + 1
      /\ U.requests[Len(T.requests) + 1] = [key |-> key, status |-> 0]
      /\ \A i \in DOMAIN T.requests : U.requests[i] = T.requests[i]
  BY AppendTable
<1> HIDE DEF U
<1>2. /\ Len(T.requests) \in Nat
      /\ DOMAIN T.requests = 1 .. Len(T.requests)
      /\ DOMAIN U.requests = 1 .. (Len(T.requests) + 1)
  BY <1>1, TableRows
<1>3. U.requests[Len(T.requests) + 1].status = 0
  BY <1>1
<1>4. \A i \in DOMAIN U.requests : i \in DOMAIN T.requests \/ i = Len(T.requests) + 1
  BY <1>2
<1>5. ASSUME NEW i \in Ids, Taken(T, i)
      PROVE  Taken(U, i)
  BY <1>1, <1>2, <1>5 DEF Taken, Running, Exists
<1>6. ASSUME NEW i \in Ids, Running(U, i)
      PROVE  Running(T, i)
  BY <1>1, <1>3, <1>4, <1>6 DEF Running, Exists
<1> QED
  BY <1>5, <1>6 DEF Calm, U

LEMMA CalmDelete ==
    ASSUME NEW T \in Tables, NEW U \in Tables,
           Len(U.requests) = Len(T.requests),
           \A i \in DOMAIN T.requests : U.requests[i] = [key |-> Gone, status |-> 0]
    PROVE  Calm(U, T) /\ Extends(U, T)
<1>1. DOMAIN T.requests = DOMAIN U.requests /\ Len(T.requests) \in Nat
  BY TableRows
<1>2. \A i \in DOMAIN T.requests : U.requests[i].key = Gone
  OBVIOUS
<1> QED
  BY <1>1, <1>2 DEF Calm, Taken, Running, Exists, Extends

-----------------------------------------------------------------------------
(* Every step of a program, as a change of the database                      *)

Sound(p, U) ==
    /\ U \in Tables /\ Len(U.requests) <= MaxRows
    /\ Extends(U, View(p)) /\ SureFound(U)
    /\ Checked(p) => NoNewOrphans(U, View(p))

Tells(p) ==
    /\ UNCHANGED <<disk, work, writer, leftOpen>>
    /\ \E answer \in Told :
          /\ told' = [told EXCEPT ![p] = @ \cup {answer}]
          /\ answer.fate = IF writer = p THEN "open" ELSE "saved"
          /\ Found(View(p), answer.id, answer.key)

LeavesOpen(p) == writer = p /\ leftOpen' = TRUE /\ UNCHANGED <<disk, work, writer, told>>

Goes(p) ==
    /\ IF writer = p THEN writer' = None /\ work' = EmptyTables /\ leftOpen' = FALSE
       ELSE UNCHANGED <<work, writer, leftOpen>>
    /\ told' = [told EXCEPT ![p] = {}]
    /\ UNCHANGED disk

Starts(p) ==
    /\ writer = None /\ writer' = p /\ work' = disk
    /\ UNCHANGED <<disk, leftOpen, told>>

(* What a step outside a claim does. *)
Quiet(p) ==
    \/ UNCHANGED database
    \/ Rollback(p)
    \/ Tells(p)
    \/ \E U \in Tables : Sound(p, U) /\ Calm(U, View(p)) /\ Write(p, U)

Change(p) ==
    \/ UNCHANGED database
    \/ Rollback(p) \/ Tells(p) \/ LeavesOpen(p) \/ Starts(p) \/ Committed(p) \/ Goes(p)
    \/ \E U \in Tables : Sound(p, U) /\ Write(p, U)

LEMMA ViewSound ==
    ASSUME TypeOK, TablesInv, AnswersInv, NEW p \in Processes
    PROVE  /\ View(p) \in Tables /\ Len(View(p).requests) \in Nat
           /\ Len(View(p).requests) <= MaxRows
           /\ DOMAIN View(p).requests \subseteq Ids
           /\ SureFound(View(p)) /\ Extends(View(p), disk)
<1>1. CASE writer = p
  <2>1. View(p) = work /\ writer # None
    BY <1>1, DbAssumption DEF View
  <2>2. work \in Tables /\ Len(work.requests) <= MaxRows /\ SureFound(work)
        /\ Extends(work, disk)
    BY <2>1 DEF TypeOK, TablesInv, AnswersInv
  <2> QED
    BY <2>1, <2>2, TableRows, DbAssumption DEF Ids
<1>2. CASE writer # p
  <2>1. View(p) = disk
    BY <1>2 DEF View
  <2>2. disk \in Tables /\ Len(disk.requests) <= MaxRows /\ SureFound(disk)
    BY DEF TypeOK, TablesInv, AnswersInv, AcknowledgedIsDurable
  <2> QED
    BY <2>1, <2>2, TableRows, ExtendsItself, DbAssumption DEF Ids
<1> QED
  BY <1>1, <1>2

(* What a program was told and was not rolled back is in the tables it reads. *)
LEMMA ToldIsFound ==
    ASSUME TypeOK, TablesInv, AnswersInv, NEW p \in Processes, NEW answer \in told[p]
    PROVE  /\ answer \in Told /\ ResponseRow(answer) \in Answers
           /\ ResponseRow(answer).id = answer.id /\ ResponseRow(answer).key = answer.key
           /\ ResponseRow(answer).sure => Found(View(p), answer.id, answer.key)
<1>1. answer \in Told
  BY DEF TypeOK
<1>2. ResponseRow(answer) \in Answers
  BY <1>1 DEF Told, Answers, ResponseRow
<1>3. /\ ResponseRow(answer).id = answer.id /\ ResponseRow(answer).key = answer.key
      /\ ResponseRow(answer).sure = (answer.fate # "undone")
  BY DEF ResponseRow
<1>4. CASE answer.fate = "saved"
  <2>1. Found(disk, answer.id, answer.key)
    BY <1>4 DEF AnswersInv, AcknowledgedIsDurable
  <2>2. View(p) \in Tables /\ Extends(View(p), disk) /\ disk \in Tables
    BY ViewSound DEF TypeOK
  <2> QED
    BY <1>1, <1>2, <1>3, <2>1, <2>2, FoundStays
<1>5. CASE answer.fate = "open"
  BY <1>1, <1>2, <1>3, <1>5 DEF AnswersInv, AcknowledgedIsDurable, View
<1>6. answer.fate \in {"open", "saved", "undone"}
  BY <1>1 DEF Told
<1> QED
  BY <1>1, <1>2, <1>3, <1>4, <1>5, <1>6

LEMMA SaveQuiet ==
    ASSUME TypeOK, PlaceInv, TablesInv, AnswersInv, NEW t \in Threads, SaveStep(t)
    PROVE  Quiet(t[1])
<1> DEFINE p == t[1]  V == View(p)
<1>1. p \in Processes
  BY DbAssumption
<1>2. V \in Tables /\ Len(V.requests) \in Nat /\ Len(V.requests) <= MaxRows
      /\ SureFound(V) /\ Extends(V, disk) /\ DOMAIN V.requests = 1 .. Len(V.requests)
      /\ DOMAIN V.requests \subseteq Ids
  BY <1>1, ViewSound, TableRows
<1> HIDE DEF p, V
<1>3. ASSUME NEW U \in Tables, Len(U.requests) <= MaxRows, Calm(U, V), Extends(U, V),
             SureFound(U), Checked(p) => NoNewOrphans(U, V), Write(p, U)
      PROVE  Quiet(p)
  BY <1>3 DEF Quiet, Sound, V
<1>4. CASE SaveCollection(t)
  <2> DEFINE U == [V EXCEPT !.collection = TRUE]
  <2>1. Write(p, U)
    BY <1>4 DEF SaveCollection, p, V
  <2>2. U \in Tables /\ U.requests = V.requests /\ U.responses = V.responses
    BY <1>2, CollectionTable
  <2> HIDE DEF U
  <2>3. Calm(U, V) /\ Extends(U, V) /\ SureFound(U) /\ NoNewOrphans(U, V)
    BY <1>2, <2>2, CalmRows, SameKeys
  <2> QED
    BY <1>2, <1>3, <2>1, <2>2, <2>3 DEF p
<1>5. ASSUME NEW key \in Keys, InsertRequest(t, key)
      PROVE  Quiet(p)
  <2>1. CASE IdsOf(V, key) # {}
    <3>1. Write(p, V)
      BY <1>5, <2>1 DEF InsertRequest, p, V
    <3>2. NoNewOrphans(V, V)
      BY DEF NoNewOrphans
    <3> QED
      BY <1>2, <1>3, <3>1, <3>2, CalmRows, ExtendsItself
  <2>2. CASE IdsOf(V, key) = {}
    <3> DEFINE U == [V EXCEPT !.requests = Append(@, [key |-> key, status |-> 0])]
    <3>1. Write(p, U) /\ Len(V.requests) < MaxRows
      BY <1>5, <2>2 DEF InsertRequest, p, V
    <3>2. /\ U \in Tables /\ U.responses = V.responses
          /\ Len(U.requests) = Len(V.requests) + 1
          /\ \A i \in DOMAIN V.requests : U.requests[i] = V.requests[i]
      BY <1>2, AppendTable
    <3>3. Calm(U, V)
      BY <1>2, CalmAppend
    <3> HIDE DEF U
    <3>4. Extends(U, V) /\ SureFound(U) /\ NoNewOrphans(U, V)
      BY <1>2, <3>2, SameKeys
    <3>5. Len(U.requests) <= MaxRows
      BY <1>2, <3>1, <3>2, DbAssumption
    <3> QED
      BY <1>3, <3>1, <3>2, <3>3, <3>4, <3>5
  <2> QED
    BY <2>1, <2>2
<1>6. CASE SelectRequest(t)
  <2>1. PICK i \in IdsOf(V, arg[t]) : Tell(t, i)
    BY <1>6 DEF SelectRequest, V, p
  <2> DEFINE answer == [id |-> i, key |-> arg[t],
                        fate |-> IF writer = p THEN "open" ELSE "saved"]
  <2>2. arg[t] \in Keys
    BY <1>6 DEF SelectRequest, PlaceInv
  <2>3. i \in DOMAIN V.requests /\ V.requests[i].key = arg[t]
    BY <2>1 DEF IdsOf
  <2>4. answer \in Told
    BY <1>2, <2>2, <2>3 DEF Told
  <2>5. told' = [told EXCEPT ![p] = @ \cup {answer}]
        /\ UNCHANGED <<disk, work, writer, leftOpen>>
    BY <2>1 DEF Tell, p
  <2>6. /\ answer.id = i /\ answer.key = arg[t]
        /\ answer.fate = IF writer = p THEN "open" ELSE "saved"
    OBVIOUS
  <2> HIDE DEF answer
  <2>7. Found(V, answer.id, answer.key)
    BY <2>3, <2>6 DEF Found
  <2> QED
    BY <2>4, <2>5, <2>6, <2>7 DEF Quiet, Tells, V, p
<1>7. CASE StatementFails(t)
  BY <1>7 DEF StatementFails, Fails, Quiet, p
<1>8. ASSUME NEW answer \in told[p], InsertResponse(t, answer)
      PROVE  Quiet(p)
  <2> DEFINE row == ResponseRow(answer)
             U == [V EXCEPT !.responses = @ \cup {row}]
  <2>1. Write(p, U) /\ (Checked(p) => Exists(V, answer.id))
    BY <1>8 DEF InsertResponse, p, V
  <2>2. /\ row \in Answers /\ row.id = answer.id /\ row.key = answer.key
        /\ row.sure => Found(V, answer.id, answer.key)
    BY <1>1, ToldIsFound DEF V
  <2>3. V.responses \cup {row} \in SUBSET Answers
    BY <1>2, <2>2, TableRows
  <2>4. U = [V EXCEPT !.responses = V.responses \cup {row}]
    OBVIOUS
  <2>5. U \in Tables /\ U.requests = V.requests
        /\ U.responses = V.responses \cup {row}
    BY <1>2, <2>3, <2>4, ResponseTable
  <2> HIDE DEF U, row
  <2>6. Calm(U, V) /\ Extends(U, V)
    BY <1>2, <2>5, CalmRows, ExtendsItself DEF Extends
  <2>7. \A i, key : Found(V, i, key) <=> Found(U, i, key)
    BY <2>5 DEF Found
  <2>8. SureFound(U)
    BY <1>2, <2>2, <2>5, <2>6, <2>7, SureStays
  <2>9. \A r : Refers(V, r) <=> Refers(U, r)
    BY <2>5 DEF Refers, Exists
  <2>10. Checked(p) => Refers(V, row)
    BY <2>1, <2>2 DEF Refers, Exists, Found
  <2>11. Checked(p) => NoNewOrphans(U, V)
    BY <2>5, <2>9, <2>10 DEF NoNewOrphans
  <2> QED
    BY <1>2, <1>3, <2>1, <2>5, <2>6, <2>8, <2>11
<1> QED
  BY <1>4, <1>5, <1>6, <1>7, <1>8 DEF SaveStep, p

LEMMA ClearQuiet ==
    ASSUME TypeOK, TablesInv, AnswersInv, NEW t \in Threads, ClearStep(t)
    PROVE  Quiet(t[1])
<1> DEFINE p == t[1]  V == View(p)
<1>1. p \in Processes
  BY DbAssumption
<1>2. V \in Tables /\ Len(V.requests) \in Nat /\ Len(V.requests) <= MaxRows
      /\ SureFound(V)
  BY <1>1, ViewSound
<1> HIDE DEF p, V
<1>3. ASSUME NEW U \in Tables, Len(U.requests) <= MaxRows, Calm(U, V), Extends(U, V),
             SureFound(U), Checked(p) => NoNewOrphans(U, V), Write(p, U)
      PROVE  Quiet(p)
  BY <1>3 DEF Quiet, Sound, V
<1>4. CASE Fails(p)
  BY <1>4 DEF Fails, Quiet, p
<1>5. CASE ClearResponses(t)
  <2> DEFINE U == [V EXCEPT !.responses = {}]
  <2>1. Write(p, U) \/ Fails(p)
    BY <1>5 DEF ClearResponses, p, V
  <2>2. U \in Tables /\ U.requests = V.requests /\ U.responses = {}
    BY <1>2, ResponseTable
  <2> HIDE DEF U
  <2>3. Calm(U, V) /\ Extends(U, V) /\ SureFound(U) /\ NoNewOrphans(U, V)
    BY <1>2, <2>2, CalmRows, ExtendsItself DEF Extends, SureFound, NoNewOrphans
  <2> QED
    BY <1>2, <1>3, <1>4, <2>1, <2>2, <2>3 DEF p
<1>6. CASE ClearRequests(t)
  <2> DEFINE U == [V EXCEPT !.requests =
                      [i \in DOMAIN @ |-> [key |-> Gone, status |-> 0]]]
  <2>1. \/ /\ Write(p, U)
           /\ Checked(p) => \A row \in V.responses : ~ Exists(V, row.id)
        \/ Fails(p)
    BY <1>6 DEF ClearRequests, p, V
  <2>2. /\ U \in Tables /\ U.responses = V.responses
        /\ Len(U.requests) = Len(V.requests)
        /\ \A i \in DOMAIN V.requests : U.requests[i] = [key |-> Gone, status |-> 0]
    BY <1>2, DeleteTable
  <2> HIDE DEF U
  <2>3. Calm(U, V) /\ Extends(U, V)
    BY <1>2, <2>2, CalmDelete
  <2>4. SureFound(U)
    BY <1>2, <2>2, <2>3, SureStays
  <2>5. (\A row \in V.responses : ~ Exists(V, row.id)) => NoNewOrphans(U, V)
    BY <2>2 DEF NoNewOrphans, Refers
  <2> QED
    BY <1>2, <1>3, <1>4, <2>1, <2>2, <2>3, <2>4, <2>5 DEF p
<1>7. CASE ClearCollections(t)
  <2> DEFINE U == [V EXCEPT !.collection = FALSE]
  <2>1. Write(p, U) \/ Fails(p)
    BY <1>7 DEF ClearCollections, p, V
  <2>2. U \in Tables /\ U.requests = V.requests /\ U.responses = V.responses
    BY <1>2, CollectionTable
  <2> HIDE DEF U
  <2>3. Calm(U, V) /\ Extends(U, V) /\ SureFound(U) /\ NoNewOrphans(U, V)
    BY <1>2, <2>2, CalmRows, SameKeys
  <2> QED
    BY <1>2, <1>3, <1>4, <2>1, <2>2, <2>3 DEF p
<1> QED
  BY <1>5, <1>6, <1>7 DEF ClearStep, p

LEMMA StatusSound ==
    ASSUME TypeOK, TablesInv, AnswersInv, NEW p \in Processes, NEW i, NEW s \in {0, 1}
    PROVE  Sound(p, WithStatus(View(p), i, s))
<1> DEFINE V == View(p)  U == WithStatus(V, i, s)
<1>1. V \in Tables /\ Len(V.requests) \in Nat /\ Len(V.requests) <= MaxRows
      /\ SureFound(V)
  BY ViewSound
<1> HIDE DEF V
<1>2. /\ U \in Tables /\ U.responses = V.responses
      /\ Len(U.requests) = Len(V.requests)
      /\ \A j \in DOMAIN V.requests : U.requests[j].key = V.requests[j].key
  BY <1>1, StatusTable
<1> HIDE DEF U
<1>3. Extends(U, V) /\ SureFound(U) /\ NoNewOrphans(U, V)
  BY <1>1, <1>2, SameKeys
<1> QED
  BY <1>1, <1>2, <1>3 DEF Sound, V, U

LEMMA EveryChange ==
    ASSUME TypeOK, PlaceInv, TablesInv, AnswersInv, [Next]_vars
    PROVE  UNCHANGED database \/ \E p \in Processes : Change(p)
<1>1. \A p : Quiet(p) => Change(p)
  BY DEF Quiet, Change
<1>2. \A t \in Threads : t[1] \in Processes
  BY DbAssumption
<1>3. ASSUME NEW t \in Threads, ClaimStep(t)
      PROVE  Change(t[1])
  <2>1. CASE ClaimSelect(t)
    BY <2>1 DEF ClaimSelect, Fails, Change
  <2>2. CASE ClaimUpdate(t)
    BY <1>2, <2>2, StatusSound DEF ClaimUpdate, Fails, Change, Sound
  <2>3. CASE ClaimCommit(t)
    BY <2>3 DEF ClaimCommit, CommitFails, LeavesOpen, Change
  <2>4. CASE ClaimRollback(t)
    BY <2>4 DEF ClaimRollback, Change
  <2> QED
    BY <1>3, <2>1, <2>2, <2>3, <2>4 DEF ClaimStep
<1>4. ASSUME NEW t \in Threads, Begin(t)
      PROVE  Change(t[1])
  BY <1>4 DEF Begin, Starts, Change
<1>5. ASSUME NEW t \in Threads, Deliver(t)
      PROVE  Change(t[1])
  BY <1>5 DEF Deliver, Change
<1>6. ASSUME NEW t \in Threads, NEW i \in Ids, NEW s \in {0, 1}, UpdateStatus(t, i, s)
      PROVE  Change(t[1])
  BY <1>2, <1>6, StatusSound DEF UpdateStatus, Change, Sound
<1>7. ASSUME NEW p \in Processes, Close(p) \/ Crash(p)
      PROVE  Change(p)
  BY <1>7 DEF Close, Crash, Disconnect, Goes, Change
<1>8. CASE UNCHANGED vars
  BY <1>8 DEF vars
<1>9. CASE Next
  BY <1>1, <1>2, <1>3, <1>4, <1>5, <1>6, <1>7, <1>9, SaveQuiet, ClearQuiet DEF Next
<1> QED
  BY <1>8, <1>9

(* The connection that has the write lock goes on checking foreign keys, or not. *)
LEMMA CheckedStays ==
    ASSUME TypeOK, [Next]_vars, writer' # None, NEW p \in Processes, p = writer'
    PROVE  Checked(p)' <=> Checked(p)
<1>1. CASE UNCHANGED unchecked
  BY <1>1 DEF Checked
<1>2. ASSUME NEW q \in Processes, Close(q) \/ Crash(q)
      PROVE  Checked(p)' <=> Checked(p)
  <2>1. /\ writer = q => writer' = None
        /\ writer # q => writer' = writer
        /\ unchecked' \in {unchecked \ {q}, unchecked \cup ({q} \cap Writers)}
    BY <1>2 DEF Close, Crash, Disconnect
  <2> QED
    BY <2>1 DEF Checked
<1>3. ASSUME NEW t \in Threads, SaveStep(t) \/ Begin(t) \/ ClaimStep(t)
      PROVE  UNCHANGED unchecked
  BY <1>3 DEF SaveStep, SaveCollection, InsertRequest, SelectRequest, Tell, StatementFails,
              InsertResponse, Begin, ClaimStep, ClaimSelect, ClaimUpdate, ClaimCommit,
              ClaimRollback
<1>4. ASSUME NEW t \in Threads,
             \/ Deliver(t) \/ ClearStep(t)
             \/ \E i \in Ids, s \in {0, 1} : UpdateStatus(t, i, s)
      PROVE  UNCHANGED unchecked
  BY <1>4 DEF Deliver, ClearStep, ClearResponses, ClearRequests, ClearCollections,
              UpdateStatus
<1>5. CASE UNCHANGED vars
  BY <1>1, <1>5 DEF vars
<1>6. CASE Next
  BY <1>1, <1>2, <1>3, <1>4, <1>6 DEF Next
<1> QED
  BY <1>5, <1>6

(* What every change keeps: the tables of the file and of the transaction.   *)
Kept ==
    /\ disk' \in Tables /\ work' \in Tables
    /\ writer' \in Processes \cup {None} /\ leftOpen' \in BOOLEAN
    /\ Len(disk'.requests) <= MaxRows /\ Len(work'.requests) <= MaxRows
    /\ writer' = None => work' = EmptyTables /\ ~ leftOpen'
    /\ writer' # None => Extends(work', disk')
    /\ SureFound(disk') /\ SureFound(work')
    /\ writer' # None /\ writer' \notin unchecked => NoNewOrphans(work', disk')
    /\ Extends(disk', disk)
    /\ unchecked = {} => NoNewOrphans(disk', disk)
    /\ writer' # None /\ ~ leftOpen' => ~ leftOpen

LEMMA ChangeKeeps ==
    ASSUME TypeOK, TablesInv, AnswersInv,
           UNCHANGED database \/ \E p \in Processes : Change(p)
    PROVE  Kept
<1>1. /\ disk \in Tables /\ work \in Tables /\ writer \in Processes \cup {None}
      /\ leftOpen \in BOOLEAN
      /\ Len(disk.requests) <= MaxRows /\ Len(work.requests) <= MaxRows
      /\ SureFound(disk) /\ SureFound(work)
      /\ writer = None => work = EmptyTables /\ ~ leftOpen
      /\ writer # None => Extends(work, disk)
      /\ writer # None /\ writer \notin unchecked => NoNewOrphans(work, disk)
  BY DEF TypeOK, TablesInv, AnswersInv, AcknowledgedIsDurable, Checked
<1>2. Extends(disk, disk) /\ SureFound(EmptyTables) /\ EmptyTables \in Tables
      /\ Len(EmptyTables.requests) <= MaxRows
  BY <1>1, ExtendsItself, EmptyTable, DbAssumption DEF SureFound
<1>3. NoNewOrphans(disk, disk)
  BY DEF NoNewOrphans
<1>4. CASE UNCHANGED <<disk, work, writer, leftOpen>>
  BY <1>1, <1>2, <1>3, <1>4 DEF Kept
<1>5. CASE /\ writer' = None /\ work' = EmptyTables /\ leftOpen' = FALSE
           /\ UNCHANGED disk
  BY <1>1, <1>2, <1>3, <1>5 DEF Kept
<1>6. ASSUME NEW p \in Processes, Change(p)
      PROVE  Kept
  <2>1. p # None
    BY DbAssumption
  <2>2. CASE Rollback(p)
    BY <1>5, <2>2 DEF Rollback, EndTransaction
  <2>3. CASE Tells(p)
    BY <1>4, <2>3 DEF Tells
  <2>4. CASE LeavesOpen(p)
    BY <1>1, <1>2, <1>3, <2>1, <2>4 DEF LeavesOpen, Kept
  <2>5. CASE Starts(p)
    BY <1>1, <1>2, <1>3, <2>1, <2>5 DEF Starts, Kept
  <2>6. CASE Committed(p)
    <3>1. writer = p /\ disk' = work /\ writer' = None /\ work' = EmptyTables
          /\ leftOpen' = FALSE
      BY <2>6 DEF Committed, EndTransaction
    <3>2. unchecked = {} => NoNewOrphans(work, disk)
      BY <1>1, <2>1, <3>1
    <3> QED
      BY <1>1, <1>2, <2>1, <3>1, <3>2 DEF Kept
  <2>7. CASE Goes(p)
    BY <1>4, <1>5, <2>7 DEF Goes
  <2>8. ASSUME NEW U \in Tables, Sound(p, U), Write(p, U)
        PROVE  Kept
    <3>1. Len(U.requests) <= MaxRows /\ Extends(U, View(p)) /\ SureFound(U)
          /\ (p \notin unchecked => NoNewOrphans(U, View(p)))
      BY <2>8 DEF Sound, Checked
    <3>2. CASE writer = p /\ work' = U /\ UNCHANGED <<disk, writer, leftOpen>>
      <4>1. Extends(U, work) /\ Extends(work, disk)
        BY <1>1, <2>1, <3>1, <3>2 DEF View
      <4>2. Extends(U, disk)
        BY <1>1, <4>1, ExtendsOn
      <4>3. p \notin unchecked => NoNewOrphans(U, disk)
        BY <1>1, <2>1, <3>1, <3>2, NoNewOrphansOn DEF View
      <4> QED
        BY <1>1, <1>2, <1>3, <2>1, <3>1, <3>2, <4>2, <4>3 DEF Kept
    <3>3. CASE writer = None /\ disk' = U /\ UNCHANGED <<work, writer, leftOpen>>
      <4>1. View(p) = disk
        BY <2>1, <3>3 DEF View
      <4> QED
        BY <1>1, <1>2, <2>1, <3>1, <3>3, <4>1 DEF Kept
    <3> QED
      BY <2>8, <3>2, <3>3 DEF Write
  <2>9. CASE UNCHANGED database
    BY <1>4, <2>9 DEF database
  <2> QED
    BY <1>6, <2>2, <2>3, <2>4, <2>5, <2>6, <2>7, <2>8, <2>9 DEF Change
<1> QED
  BY <1>4, <1>6 DEF database

-----------------------------------------------------------------------------
(* What the callers were told                                                *)

(* The end of a transaction settles what was told in it. *)
LEMMA SettledAnswers ==
    ASSUME TypeOK, NEW p \in Processes, NEW fate \in {"saved", "undone"}
    PROVE  /\ Settled(p, fate) \in SUBSET Told
           /\ \A answer \in Settled(p, fate) :
                 /\ answer.fate # "open"
                 /\ \E old \in told[p] : /\ old.id = answer.id /\ old.key = answer.key
                                         /\ \/ old.fate = answer.fate
                                            \/ old.fate = "open" /\ answer.fate = fate
<1>1. told[p] \subseteq Told
  BY DEF TypeOK
<1> DEFINE new(old) == IF old.fate = "open" THEN [old EXCEPT !.fate = fate] ELSE old
<1>2. ASSUME NEW old \in told[p]
      PROVE  /\ new(old) \in Told /\ new(old).id = old.id /\ new(old).key = old.key
             /\ new(old).fate = IF old.fate = "open" THEN fate ELSE old.fate
  <2>1. old \in [id : Ids, key : Keys, fate : {"open", "saved", "undone"}]
    BY <1>1 DEF Told
  <2>2. CASE old.fate = "open"
    BY <2>1, <2>2 DEF Told
  <2>3. CASE old.fate # "open"
    BY <2>1, <2>3 DEF Told
  <2> QED
    BY <2>2, <2>3
<1>3. Settled(p, fate) = {new(old) : old \in told[p]}
  BY DEF Settled
<1> HIDE DEF new
<1>4. ASSUME NEW answer \in Settled(p, fate)
      PROVE  /\ answer \in Told /\ answer.fate # "open"
             /\ \E old \in told[p] : /\ old.id = answer.id /\ old.key = answer.key
                                     /\ \/ old.fate = answer.fate
                                        \/ old.fate = "open" /\ answer.fate = fate
  <2>1. PICK old \in told[p] : answer = new(old)
    BY <1>3
  <2> QED
    BY <1>2, <2>1
<1> QED
  BY <1>4

(* Told keeps its promise when every answer in it does. *)
Promised(p, answer) ==
    /\ answer.fate = "saved" => Found(disk, answer.id, answer.key)
    /\ answer.fate = "open" => writer = p /\ Found(work, answer.id, answer.key)

LEMMA ToldNext ==
    ASSUME TypeOK, TablesInv, AnswersInv, Kept,
           UNCHANGED database \/ \E p \in Processes : Change(p)
    PROVE  told' \in [Processes -> SUBSET Told] /\ AcknowledgedIsDurable'
<1>1. told \in [Processes -> SUBSET Told] /\ disk \in Tables /\ work \in Tables
      /\ None \notin Processes
  BY DbAssumption DEF TypeOK
<1>2. disk' \in Tables /\ work' \in Tables /\ Extends(disk', disk) /\ SureFound(disk')
      /\ (writer # None => Extends(work, disk))
  BY DEF Kept, TablesInv
<1>3. \A p \in Processes : \A answer \in told[p] : Promised(p, answer)
  BY DEF AnswersInv, AcknowledgedIsDurable, Promised
<1>4. SUFFICES told' \in [Processes -> SUBSET Told]
               /\ \A p \in Processes : \A answer \in told'[p] : Promised(p, answer)'
  BY <1>2 DEF AcknowledgedIsDurable, Promised
<1>5. \A i, key : Found(disk, i, key) => Found(disk', i, key)
  BY <1>1, <1>2, FoundStays
<1>6. ASSUME writer' = writer, writer # None => work' \in Tables /\ Extends(work', work)
      PROVE  \A p \in Processes : \A answer \in told[p] : Promised(p, answer)'
  <2>1. ASSUME NEW p \in Processes, NEW answer \in told[p], answer.fate = "open"
        PROVE  writer' = p /\ Found(work', answer.id, answer.key)
    <3>1. writer = p /\ Found(work, answer.id, answer.key) /\ writer # None
      BY <1>1, <1>3, <2>1 DEF Promised
    <3> QED
      BY <1>1, <1>6, <3>1, FoundStays
  <2> QED
    BY <1>3, <1>5, <2>1 DEF Promised
<1>7. CASE UNCHANGED <<work, writer, told>>
  <2>1. Extends(work, work)
    BY <1>1, ExtendsItself
  <2> QED
    BY <1>1, <1>6, <1>7, <2>1
(* A transaction of p ends: nobody else was told anything in it. *)
<1>8. ASSUME NEW p \in Processes, writer = p, NEW A \in SUBSET Told,
             told' = [told EXCEPT ![p] = A],
             \A answer \in A : Promised(p, answer)'
      PROVE  <1>4!1
  <2>1. told' \in [Processes -> SUBSET Told]
    BY <1>1, <1>8
  <2>2. ASSUME NEW q \in Processes \ {p}, NEW answer \in told'[q]
        PROVE  Promised(q, answer)'
    <3>1. answer \in told[q]
      BY <1>1, <1>8
    <3>2. answer.fate # "open"
      BY <1>3, <1>8, <3>1 DEF Promised
    <3> QED
      BY <1>3, <1>5, <3>1, <3>2 DEF Promised
  <2>3. told'[p] = A
    BY <1>1, <1>8
  <2> QED
    BY <1>8, <2>1, <2>2, <2>3
<1>9. ASSUME NEW p \in Processes, Change(p)
      PROVE  <1>4!1
  <2>1. CASE Rollback(p)
    <3>1. writer = p /\ told' = [told EXCEPT ![p] = Settled(p, "undone")]
      BY <2>1 DEF Rollback, EndTransaction
    <3>2. Settled(p, "undone") \in SUBSET Told
      BY SettledAnswers
    <3>3. ASSUME NEW answer \in Settled(p, "undone")
          PROVE  Promised(p, answer)'
      <4>1. answer.fate # "open"
            /\ (answer.fate = "saved" =>
                  \E old \in told[p] : /\ old.id = answer.id /\ old.key = answer.key
                                       /\ old.fate = "saved")
        BY SettledAnswers
      <4> QED
        BY <1>3, <1>5, <4>1 DEF Promised
    <3> QED
      BY <1>8, <3>1, <3>2, <3>3
  <2>2. CASE Committed(p)
    <3>1. writer = p /\ disk' = work /\ writer # None
          /\ told' = [told EXCEPT ![p] = Settled(p, "saved")]
      BY <1>1, <2>2 DEF Committed, EndTransaction
    <3>2. Settled(p, "saved") \in SUBSET Told
      BY SettledAnswers
    <3>3. ASSUME NEW answer \in Settled(p, "saved")
          PROVE  Promised(p, answer)'
      <4>1. answer.fate # "open"
        BY SettledAnswers
      <4>2. PICK old \in told[p] :
               /\ old.id = answer.id /\ old.key = answer.key
               /\ \/ old.fate = answer.fate
                  \/ old.fate = "open" /\ answer.fate = "saved"
        BY SettledAnswers
      <4>3. answer.fate = "saved" => Found(disk', answer.id, answer.key)
        BY <1>3, <1>5, <3>1, <4>2 DEF Promised
      <4> QED
        BY <4>1, <4>3 DEF Promised
    <3> QED
      BY <1>8, <3>1, <3>2, <3>3
  <2>3. CASE Goes(p)
    <3>1. told' = [told EXCEPT ![p] = {}]
      BY <2>3 DEF Goes
    <3>2. CASE writer = p
      <4>1. {} \in SUBSET Told /\ \A answer \in {} : Promised(p, answer)'
        OBVIOUS
      <4> QED
        BY <1>8, <3>1, <3>2, <4>1
    <3>3. CASE writer # p
      <4>1. UNCHANGED <<work, writer>>
        BY <2>3, <3>3 DEF Goes
      <4>2. \A q \in Processes : \A answer \in told[q] : Promised(q, answer)'
        BY <1>1, <1>6, <4>1, ExtendsItself
      <4> QED
        BY <1>1, <3>1, <4>2
    <3> QED
      BY <3>2, <3>3
  <2>4. CASE LeavesOpen(p)
    BY <1>7, <2>4 DEF LeavesOpen
  <2>5. CASE Starts(p)
    <3>1. writer = None /\ UNCHANGED told
      BY <2>5 DEF Starts
    <3>2. \A q \in Processes : \A answer \in told[q] : answer.fate # "open"
      BY <1>1, <1>3, <3>1 DEF Promised
    <3> QED
      BY <1>1, <1>3, <1>5, <3>1, <3>2 DEF Promised
  <2>6. CASE Tells(p)
    <3>1. PICK answer \in Told :
             /\ told' = [told EXCEPT ![p] = @ \cup {answer}]
             /\ answer.fate = IF writer = p THEN "open" ELSE "saved"
             /\ Found(View(p), answer.id, answer.key)
      BY <2>6 DEF Tells
    <3>2. UNCHANGED <<disk, work, writer>>
      BY <2>6 DEF Tells
    <3>3. Promised(p, answer)'
      BY <3>1, <3>2 DEF Promised, View
    <3>4. \A q \in Processes : \A a \in told[q] : Promised(q, a)'
      BY <1>1, <1>6, <3>2, ExtendsItself
    <3>5. told' \in [Processes -> SUBSET Told]
      BY <1>1, <3>1
    <3> QED
      BY <1>1, <3>1, <3>3, <3>4, <3>5
  <2>7. ASSUME NEW U \in Tables, Sound(p, U), Write(p, U)
        PROVE  <1>4!1
    <3>1. writer' = writer /\ told' = told
      BY <2>7 DEF Write
    <3>2. writer # None => work' \in Tables /\ Extends(work', work)
      BY <1>2, <2>7 DEF Write, Sound, View
    <3> QED
      BY <1>1, <1>6, <3>1, <3>2
  <2>8. CASE UNCHANGED database
    BY <1>7, <2>8 DEF database
  <2> QED
    BY <1>9, <2>1, <2>2, <2>3, <2>4, <2>5, <2>6, <2>7, <2>8 DEF Change
<1> QED
  BY <1>7, <1>9 DEF database

-----------------------------------------------------------------------------
(* Where the threads are                                                     *)

Labels == {"idle", "inserted", "claimed"} \cup Claiming \cup Clearing
Values == Keys \cup Ids \cup {None}

(* A thread takes a step of its own: from where to where, and with what. *)
Moves(t, label, value) ==
    pc' = [pc EXCEPT ![t] = label] /\ arg' = [arg EXCEPT ![t] = value]

Step(t) ==
    \/ UNCHANGED <<pc, arg>>
    \/ pc[t] \in {"idle", "inserted", "claimed", "failed", "clear_collections"}
          /\ Moves(t, "idle", None)
    \/ \E key \in Keys : MayCall(t, "save") /\ Moves(t, "inserted", key)
    \/ MayCall(t, "claim") /\ Moves(t, "begun", None)
    \/ \E i \in Ids : pc[t] = "begun" /\ Moves(t, "selected", i)
    \/ pc[t] \in {"begun", "selected"} /\ Moves(t, "failed", None)
    \/ pc[t] = "selected" /\ Moves(t, "updated", arg[t])
    \/ pc[t] = "updated" /\ Moves(t, "claimed", arg[t])
    \/ (\A u \in ThreadsOf(t[1]) : pc[u] = "idle") /\ Moves(t, "clear_requests", None)
    \/ pc[t] = "clear_requests" /\ Moves(t, "clear_collections", None)

Restart(p) ==
    /\ pc' = [t \in Threads |-> IF t[1] = p THEN "idle" ELSE pc[t]]
    /\ arg' = [t \in Threads |-> IF t[1] = p THEN None ELSE arg[t]]

LEMMA PendingIds ==
    ASSUME TypeOK, TablesInv, AnswersInv, NEW p \in Processes
    PROVE  Pending(p) \subseteq Ids
  BY ViewSound DEF Pending

LEMMA EveryStep ==
    ASSUME TypeOK, TablesInv, AnswersInv, Next
    PROVE  (\E t \in Threads : Step(t)) \/ (\E p \in Processes : Restart(p))
<1>1. \A t \in Threads : t[1] \in Processes
  BY DbAssumption
<1> USE DEF Step, Moves, Goto, Return
<1>2. ASSUME NEW t \in Threads, SaveStep(t)
      PROVE  Step(t)
  <2>1. ASSUME NEW key \in Keys, InsertRequest(t, key)
        PROVE  Step(t)
    BY <2>1 DEF InsertRequest
  <2>2. CASE SaveCollection(t) \/ \E answer \in told[t[1]] : InsertResponse(t, answer)
    BY <2>2 DEF SaveCollection, InsertResponse
  <2>3. CASE SelectRequest(t) \/ StatementFails(t)
    BY <2>3 DEF SelectRequest, StatementFails, Tell
  <2> QED
    BY <1>2, <2>1, <2>2, <2>3 DEF SaveStep
<1>3. ASSUME NEW t \in Threads, ClaimStep(t)
      PROVE  Step(t)
  <2>1. CASE ClaimSelect(t)
    BY <1>1, <2>1, PendingIds DEF ClaimSelect
  <2>2. CASE ClaimUpdate(t) \/ ClaimCommit(t) \/ ClaimRollback(t)
    BY <2>2 DEF ClaimUpdate, ClaimCommit, ClaimRollback
  <2> QED
    BY <1>3, <2>1, <2>2 DEF ClaimStep
<1>4. ASSUME NEW t \in Threads, Begin(t) \/ Deliver(t) \/ ClearStep(t)
      PROVE  Step(t)
  <2>1. CASE Begin(t) \/ Deliver(t)
    BY <2>1 DEF Begin, Deliver
  <2>2. CASE ClearStep(t)
    BY <2>2 DEF ClearStep, ClearResponses, ClearRequests, ClearCollections
  <2> QED
    BY <1>4, <2>1, <2>2
<1>5. ASSUME NEW t \in Threads, NEW i \in Ids, NEW s \in {0, 1}, UpdateStatus(t, i, s)
      PROVE  Step(t)
  BY <1>5 DEF UpdateStatus
<1>6. ASSUME NEW p \in Processes, Close(p) \/ Crash(p)
      PROVE  Restart(p)
  BY <1>6 DEF Close, Crash, Disconnect, Restart
<1> HIDE DEF Step
<1> QED
  BY <1>2, <1>3, <1>4, <1>5, <1>6 DEF Next

LEMMA PlaceNext ==
    ASSUME TypeOK, PlaceInv, TablesInv, AnswersInv, [Next]_vars
    PROVE  /\ pc' \in [Threads -> Labels] /\ arg' \in [Threads -> Values]
           /\ PlaceInv'
<1>1. pc \in [Threads -> Labels] /\ arg \in [Threads -> Values]
  BY DEF TypeOK, Labels, Values
<1>2. CASE UNCHANGED <<pc, arg>>
  BY <1>1, <1>2 DEF PlaceInv, ThreadsOf
<1>3. ASSUME NEW t \in Threads, NEW label \in Labels, NEW value \in Values,
             Moves(t, label, value),
             label = "inserted" => value \in Keys,
             label \in {"selected", "updated", "claimed"} => value \in Ids,
             label \in Claiming \cup {"claimed"} => "claim" \in Calls[t],
             label \in Clearing => \A u \in ThreadsOf(t[1]) \ {t} : pc[u] = "idle",
             label # "idle" =>
                \A u \in ThreadsOf(t[1]) \ {t} : pc[u] \notin Clearing
      PROVE  pc' \in [Threads -> Labels] /\ arg' \in [Threads -> Values] /\ PlaceInv'
  <2>1. pc' = [pc EXCEPT ![t] = label] /\ arg' = [arg EXCEPT ![t] = value]
    BY <1>3 DEF Moves
  <2>2. pc' \in [Threads -> Labels] /\ arg' \in [Threads -> Values]
    BY <1>1, <2>1
  <2>3. /\ pc'[t] = label /\ arg'[t] = value
        /\ \A u \in Threads \ {t} : pc'[u] = pc[u] /\ arg'[u] = arg[u]
    BY <1>1, <2>1
  <2>4. ASSUME NEW u \in Threads
        PROVE  /\ pc'[u] = "inserted" => arg'[u] \in Keys
               /\ pc'[u] \in {"selected", "updated", "claimed"} => arg'[u] \in Ids
               /\ pc'[u] \in Claiming \cup {"claimed"} => "claim" \in Calls[u]
    BY <1>3, <2>3 DEF PlaceInv
  <2>5. ASSUME NEW u \in Threads, pc'[u] \in Clearing, NEW v \in ThreadsOf(u[1]) \ {u}
        PROVE  pc'[v] = "idle"
    <3>1. v \in Threads /\ v[1] = u[1] /\ v # u
      BY DEF ThreadsOf
    <3>2. CASE u = t
      BY <1>3, <2>3, <2>5, <3>1, <3>2 DEF ThreadsOf
    <3>3. CASE u # t /\ v = t
      <4>1. u \in ThreadsOf(t[1]) \ {t} /\ pc[u] \in Clearing
        BY <2>3, <2>5, <3>1, <3>3 DEF ThreadsOf
      <4> QED
        BY <1>3, <2>3, <3>3, <4>1
    <3>4. CASE u # t /\ v # t
      BY <2>3, <2>5, <3>1, <3>4 DEF PlaceInv, ThreadsOf
    <3> QED
      BY <3>2, <3>3, <3>4
  <2> QED
    BY <2>2, <2>4, <2>5 DEF PlaceInv, ThreadsOf
<1>4. ASSUME NEW t \in Threads, Step(t)
      PROVE  pc' \in [Threads -> Labels] /\ arg' \in [Threads -> Values] /\ PlaceInv'
  <2> DEFINE Alone == \A u \in ThreadsOf(t[1]) \ {t} : pc[u] \notin Clearing
  <2>1. pc[t] \in Labels /\ arg[t] \in Values
    BY <1>1
  <2>2. pc[t] # "idle" => Alone
    <3> SUFFICES ASSUME pc[t] # "idle", NEW u \in ThreadsOf(t[1]) \ {t},
                        pc[u] \in Clearing
                 PROVE  FALSE
      OBVIOUS
    <3>1. u \in Threads /\ t \in ThreadsOf(u[1]) \ {u}
      BY DEF ThreadsOf
    <3> QED
      BY <3>1 DEF PlaceInv
  <2>3. \A call : MayCall(t, call) => Alone /\ call \in Calls[t]
    BY DEF MayCall
  <2>4. CASE \/ pc[t] \in {"idle", "inserted", "claimed", "failed", "clear_collections"}
                   /\ Moves(t, "idle", None)
             \/ \E key \in Keys : MayCall(t, "save") /\ Moves(t, "inserted", key)
             \/ MayCall(t, "claim") /\ Moves(t, "begun", None)
    BY <1>3, <2>3, <2>4 DEF Labels, Values, Claiming, Clearing
  <2>5. CASE \E i \in Ids : pc[t] = "begun" /\ Moves(t, "selected", i)
    BY <1>3, <2>2, <2>5 DEF Labels, Values, Claiming, Clearing, PlaceInv
  <2>6. CASE \/ pc[t] \in {"begun", "selected"} /\ Moves(t, "failed", None)
             \/ pc[t] = "selected" /\ Moves(t, "updated", arg[t])
             \/ pc[t] = "updated" /\ Moves(t, "claimed", arg[t])
    <3>1. "claim" \in Calls[t] /\ Alone /\ (pc[t] # "begun" => arg[t] \in Ids)
      BY <2>2, <2>6 DEF PlaceInv, Claiming
    <3> QED
      BY <1>3, <2>1, <2>6, <3>1 DEF Labels, Values, Claiming, Clearing
  <2>7. CASE (\A u \in ThreadsOf(t[1]) : pc[u] = "idle") /\ Moves(t, "clear_requests", None)
    BY <1>3, <2>7 DEF Labels, Values, Claiming, Clearing
  <2>8. CASE pc[t] = "clear_requests" /\ Moves(t, "clear_collections", None)
    <3>1. Alone /\ \A u \in ThreadsOf(t[1]) \ {t} : pc[u] = "idle"
      BY <2>2, <2>8 DEF PlaceInv, Clearing
    <3> QED
      BY <1>3, <2>8, <3>1 DEF Labels, Values, Claiming, Clearing
  <2> QED
    BY <1>2, <1>4, <2>4, <2>5, <2>6, <2>7, <2>8 DEF Step
<1>5. ASSUME NEW p \in Processes, Restart(p)
      PROVE  pc' \in [Threads -> Labels] /\ arg' \in [Threads -> Values] /\ PlaceInv'
  <2>1. \A u \in Threads : /\ pc'[u] = IF u[1] = p THEN "idle" ELSE pc[u]
                           /\ arg'[u] = IF u[1] = p THEN None ELSE arg[u]
    BY <1>5 DEF Restart
  <2>2. pc' \in [Threads -> Labels] /\ arg' \in [Threads -> Values]
    BY <1>1, <1>5 DEF Restart, Labels, Values
  <2> QED
    BY <2>1, <2>2 DEF PlaceInv, ThreadsOf, Claiming, Clearing
<1>6. CASE UNCHANGED vars
  BY <1>2, <1>6 DEF vars
<1>7. CASE Next
  BY <1>4, <1>5, <1>7, EveryStep
<1> QED
  BY <1>6, <1>7

-----------------------------------------------------------------------------
(* What the history remembers                                                *)

LEMMA HistoryNext ==
    ASSUME TypeOK, PlaceInv, [Next]_vars
    PROVE  /\ handed' \subseteq Ids /\ robbed' \subseteq Threads
           /\ spoiled \subseteq spoiled' /\ spoiled' \subseteq Ids
           /\ unchecked' \subseteq Writers
<1>1. /\ handed \subseteq Ids /\ robbed \subseteq Threads /\ spoiled \subseteq Ids
      /\ unchecked \subseteq Writers
  BY DEF TypeOK
<1>2. \A t \in Threads : pc[t] \in {"selected", "updated", "claimed"} => arg[t] \in Ids
  BY DEF PlaceInv
<1>3. CASE UNCHANGED <<handed, robbed, spoiled, unchecked>>
  BY <1>1, <1>3
<1>4. ASSUME NEW t \in Threads, SaveStep(t)
      PROVE  \/ UNCHANGED <<handed, robbed, spoiled, unchecked>>
             \/ UNCHANGED <<handed, spoiled, unchecked>> /\ robbed' \subseteq Threads
  <2>1. CASE StatementFails(t)
    BY <1>1, <2>1 DEF StatementFails, ThreadsOf
  <2>2. CASE SaveCollection(t) \/ SelectRequest(t) \/ (\E key \in Keys : InsertRequest(t, key))
             \/ \E answer \in told[t[1]] : InsertResponse(t, answer)
    BY <2>2 DEF SaveCollection, InsertRequest, SelectRequest, Tell, InsertResponse, history
  <2> QED
    BY <1>4, <2>1, <2>2 DEF SaveStep
<1>5. ASSUME NEW t \in Threads, Begin(t) \/ ClearStep(t)
      PROVE  UNCHANGED <<handed, robbed, spoiled, unchecked>>
  BY <1>5 DEF Begin, ClearStep, ClearResponses, ClearRequests, ClearCollections, history
<1>6. ASSUME NEW t \in Threads, ClaimStep(t)
      PROVE  /\ UNCHANGED <<handed, unchecked>>
             /\ robbed' \subseteq robbed
             /\ spoiled' = spoiled \/ \E i \in Ids : spoiled' = spoiled \cup {i}
  <2>1. CASE ClaimSelect(t) \/ ClaimRollback(t)
    BY <2>1 DEF ClaimSelect, ClaimRollback, history
  <2>2. CASE ClaimUpdate(t)
    BY <1>2, <2>2 DEF ClaimUpdate, SpoilIfRobbed, Spoil
  <2>3. CASE ClaimCommit(t)
    BY <1>2, <2>3 DEF ClaimCommit, SpoilIfRobbed, Spoil
  <2> QED
    BY <1>6, <2>1, <2>2, <2>3 DEF ClaimStep
<1>7. ASSUME NEW t \in Threads, Deliver(t)
      PROVE  UNCHANGED <<robbed, spoiled, unchecked>> /\ handed' \subseteq Ids
  BY <1>1, <1>2, <1>7 DEF Deliver
<1>8. ASSUME NEW t \in Threads, NEW i \in Ids, NEW s \in {0, 1}, UpdateStatus(t, i, s)
      PROVE  /\ UNCHANGED <<robbed, unchecked>> /\ handed' \subseteq handed
             /\ spoiled' = spoiled \/ spoiled' = spoiled \cup {i}
  BY <1>8 DEF UpdateStatus, Spoil, history
<1>9. ASSUME NEW p \in Processes, Close(p) \/ Crash(p)
      PROVE  /\ UNCHANGED spoiled /\ robbed' \subseteq robbed /\ handed' \subseteq Ids
             /\ unchecked' \subseteq unchecked \cup Writers
  BY <1>1, <1>9 DEF Close, Crash, Disconnect, InHand
<1>10. CASE UNCHANGED vars
  BY <1>3, <1>10 DEF vars, history
<1>11. CASE Next
  <2>1. ASSUME NEW t \in Threads,
               \/ SaveStep(t) \/ Begin(t) \/ ClaimStep(t) \/ Deliver(t) \/ ClearStep(t)
               \/ \E i \in Ids, s \in {0, 1} : UpdateStatus(t, i, s)
        PROVE  /\ handed' \subseteq Ids /\ robbed' \subseteq Threads
               /\ spoiled \subseteq spoiled' /\ spoiled' \subseteq Ids
               /\ unchecked' \subseteq Writers
    BY <1>1, <1>3, <1>4, <1>5, <1>6, <1>7, <1>8, <2>1
  <2> QED
    BY <1>1, <1>9, <1>11, <2>1 DEF Next
<1> QED
  BY <1>10, <1>11

-----------------------------------------------------------------------------
(* A transaction is open only during a claim, and of that claim              *)

InClaim == {"begun", "selected", "updated", "claimed"}

(* One thread of a program claims. *)
LEMMA OneClaimer ==
    ASSUME PlaceInv, NEW t \in Threads, NEW u \in Threads, t[1] = u[1],
           pc[t] \in InClaim \cup Claiming, pc[u] \in InClaim \cup Claiming
    PROVE  t = u
<1>1. "claim" \in Calls[t] /\ "claim" \in Calls[u]
  BY DEF PlaceInv, InClaim, Claiming
<1>2. t[2] = "db" /\ u[2] = "db"
  BY <1>1, DbAssumption
<1>3. t \in Processes \X {"main", "db"} /\ u \in Processes \X {"main", "db"}
  BY DbAssumption
<1> QED
  BY <1>2, <1>3

(* While a claim of its program has the transaction, its DB worker does not  *)
(* begin another call, and nobody clears the tables.                         *)
LEMMA OneCaller ==
    ASSUME PlaceInv, NEW t \in Threads, NEW u \in Threads, t[1] = u[1],
           pc[u] \in Claiming,
           \/ pc[t] = "idle" /\ ("claim" \in Calls[t] \/ "status" \in Calls[t])
           \/ ClearStep(t)
    PROVE  FALSE
<1>1. CASE pc[t] = "idle" /\ ("claim" \in Calls[t] \/ "status" \in Calls[t])
  <2>1. "claim" \in Calls[u]
    BY DEF PlaceInv
  <2>2. u[2] = "db" /\ t[2] = "db"
    BY <1>1, <2>1, DbAssumption
  <2>3. t \in Processes \X {"main", "db"} /\ u \in Processes \X {"main", "db"}
    BY DbAssumption
  <2>4. u = t
    BY <2>2, <2>3
  <2> QED
    BY <1>1, <2>4 DEF Claiming
<1>2. CASE ClearStep(t)
  <2>1. \A v \in ThreadsOf(t[1]) : pc[v] \in {"idle"} \cup Clearing
    BY <1>2 DEF ClearStep, ClearResponses, ClearRequests, ClearCollections, PlaceInv,
                Clearing
  <2> QED
    BY <2>1 DEF ThreadsOf, Claiming, Clearing
<1> QED
  BY <1>1, <1>2

LEMMA TransactionNext ==
    ASSUME TypeOK, PlaceInv, TransactionHasItsClaim, Kept, [Next]_vars
    PROVE  TransactionHasItsClaim'
<1>1. /\ pc \in [Threads -> Labels] /\ writer \in Processes \cup {None}
      /\ None \notin Processes
  BY DbAssumption DEF TypeOK, Labels
<1>2. SUFFICES ASSUME ~ leftOpen', writer' # None
               PROVE  \E t \in Threads : t[1] = writer' /\ pc'[t] \in Claiming
  BY DEF TransactionHasItsClaim, ThreadsOf
<1>3. ~ leftOpen
  BY <1>2 DEF Kept
<1>4. writer # None => \E t \in Threads : t[1] = writer /\ pc[t] \in Claiming
  BY <1>3 DEF TransactionHasItsClaim, ThreadsOf
<1>5. CASE UNCHANGED <<writer, pc>>
  BY <1>2, <1>4, <1>5
(* The steps that leave the transaction open and the claims where they are. *)
<1>6. ASSUME NEW t \in Threads, NEW label, UNCHANGED writer,
             pc' = [pc EXCEPT ![t] = label],
             pc[t] \notin Claiming \/ label \in Claiming \/ writer # t[1]
      PROVE  \E u \in Threads : u[1] = writer' /\ pc'[u] \in Claiming
  <2>1. PICK u \in Threads : u[1] = writer /\ pc[u] \in Claiming
    BY <1>2, <1>4, <1>6
  <2>2. pc'[t] = label /\ \A v \in Threads \ {t} : pc'[v] = pc[v]
    BY <1>1, <1>6
  <2> QED
    BY <1>6, <2>1, <2>2
<1> USE DEF Goto, Return, Fails, Rollback, EndTransaction, database, Write, Claiming
<1>7. ASSUME NEW t \in Threads, SaveStep(t)
      PROVE  \E u \in Threads : u[1] = writer' /\ pc'[u] \in Claiming
  <2>1. CASE SaveCollection(t) \/ \E answer \in told[t[1]] : InsertResponse(t, answer)
    BY <1>5, <2>1 DEF SaveCollection, InsertResponse
  <2>2. CASE SelectRequest(t) \/ \E key \in Keys : InsertRequest(t, key)
    BY <1>6, <2>2 DEF SelectRequest, InsertRequest, MayCall, Tell
  <2>3. CASE StatementFails(t)
    BY <1>2, <1>6, <2>3 DEF StatementFails
  <2> QED
    BY <1>7, <2>1, <2>2, <2>3 DEF SaveStep
<1>8. ASSUME NEW t \in Threads, Begin(t)
      PROVE  \E u \in Threads : u[1] = writer' /\ pc'[u] \in Claiming
  BY <1>1, <1>8 DEF Begin
<1>9. ASSUME NEW t \in Threads, ClaimStep(t)
      PROVE  \E u \in Threads : u[1] = writer' /\ pc'[u] \in Claiming
  <2>1. CASE ClaimSelect(t)
    BY <1>2, <1>6, <2>1 DEF ClaimSelect
  <2>2. CASE ClaimUpdate(t)
    BY <1>2, <1>6, <2>2 DEF ClaimUpdate
  <2>3. CASE ClaimCommit(t)
    <3>1. CASE writer # t[1] /\ UNCHANGED writer
      BY <1>6, <2>3, <3>1 DEF ClaimCommit
    <3>2. CASE writer' = None \/ leftOpen' = TRUE
      BY <1>2, <3>2
    <3> QED
      BY <2>3, <3>1, <3>2 DEF ClaimCommit, Committed, CommitFails
  <2>4. CASE ClaimRollback(t)
    BY <1>2, <1>6, <2>4 DEF ClaimRollback
  <2> QED
    BY <1>9, <2>1, <2>2, <2>3, <2>4 DEF ClaimStep
<1>10. ASSUME NEW t \in Threads, Deliver(t) \/ ClearStep(t)
       PROVE  \E u \in Threads : u[1] = writer' /\ pc'[u] \in Claiming
  <2>1. CASE Deliver(t)
    BY <1>6, <2>1 DEF Deliver
  <2>2. CASE ClearResponses(t)
    BY <1>2, <1>6, <2>2 DEF ClearResponses, MayCall
  <2>3. CASE ClearRequests(t) \/ ClearCollections(t)
    BY <1>2, <1>6, <2>3 DEF ClearRequests, ClearCollections
  <2> QED
    BY <1>10, <2>1, <2>2, <2>3 DEF ClearStep
<1>11. ASSUME NEW t \in Threads, NEW i \in Ids, NEW s \in {0, 1}, UpdateStatus(t, i, s)
       PROVE  \E u \in Threads : u[1] = writer' /\ pc'[u] \in Claiming
  BY <1>5, <1>11 DEF UpdateStatus
<1>12. ASSUME NEW p \in Processes, Close(p) \/ Crash(p)
       PROVE  \E u \in Threads : u[1] = writer' /\ pc'[u] \in Claiming
  <2>1. /\ writer # p /\ UNCHANGED writer
        /\ pc' = [u \in Threads |-> IF u[1] = p THEN "idle" ELSE pc[u]]
    BY <1>2, <1>12 DEF Close, Crash, Disconnect
  <2>2. PICK u \in Threads : u[1] = writer /\ pc[u] \in Claiming
    BY <1>2, <1>4, <2>1
  <2> QED
    BY <2>1, <2>2
<1>13. CASE UNCHANGED vars
  BY <1>5, <1>13 DEF vars
<1>14. CASE Next
  BY <1>7, <1>8, <1>9, <1>10, <1>11, <1>12, <1>14 DEF Next
<1> QED
  BY <1>13, <1>14

LEMMA RobbedNext ==
    ASSUME TypeOK, PlaceInv, TablesInv, RobbedInv, [Next]_vars
    PROVE  RobbedInv'
<1>1. /\ pc \in [Threads -> Labels] /\ writer \in Processes \cup {None}
      /\ robbed \subseteq Threads
      /\ None \notin Processes /\ \A t \in Threads : t[1] \in Processes
      /\ writer = None => ~ leftOpen
  BY DbAssumption DEF TypeOK, Labels, TablesInv
<1> DEFINE Right(u) == /\ u \in robbed' => pc'[u] \in Claiming /\ writer' # u[1]
                       /\ pc'[u] \in InTransaction /\ u \notin robbed' =>
                             writer' = u[1] /\ ~ leftOpen'
<1>2. SUFFICES ASSUME NEW u \in Threads
               PROVE  Right(u)
  BY <1>1 DEF RobbedInv, InItsTransaction, Owner
<1>3. /\ u \in robbed => pc[u] \in Claiming /\ writer # u[1]
      /\ pc[u] \in InTransaction /\ u \notin robbed => writer = u[1] /\ ~ leftOpen
  BY <1>1 DEF RobbedInv, InItsTransaction, Owner
<1>4. InTransaction = {"begun", "selected", "updated"}
      /\ Claiming = {"begun", "selected", "updated", "failed"}
  BY DEF InTransaction, Claiming
<1>5. CASE UNCHANGED <<pc, writer, leftOpen, robbed>>
  BY <1>3, <1>5
<1>6. \A t \in Threads : \A label, value :
         Goto(t, label, value) => pc'[t] = label /\ \A v \in Threads \ {t} : pc'[v] = pc[v]
  BY <1>1 DEF Goto
<1> USE DEF Return
<1>7. ASSUME NEW t \in Threads, NEW label, NEW value, Goto(t, label, value),
             label \notin InTransaction, t \notin robbed,
             UNCHANGED <<writer, leftOpen, robbed>>
      PROVE  Right(u)
  BY <1>3, <1>4, <1>6, <1>7
<1>8. ASSUME NEW t \in Threads, SaveStep(t)
      PROVE  Right(u)
  <2>1. pc[t] \in {"idle", "inserted"} => t \notin robbed
    BY <1>4, <1>1 DEF RobbedInv
  <2>2. CASE SaveCollection(t) \/ \E answer \in told[t[1]] : InsertResponse(t, answer)
    BY <1>5, <2>2 DEF SaveCollection, InsertResponse, Write, history
  <2>3. CASE SelectRequest(t)
    BY <1>4, <1>7, <2>1, <2>3 DEF SelectRequest, Tell, history
  <2>4. ASSUME NEW key \in Keys, InsertRequest(t, key)
        PROVE  Right(u)
    BY <1>4, <1>7, <2>1, <2>4 DEF InsertRequest, Write, MayCall, history
  <2>5. CASE StatementFails(t)
    <3>1. pc[t] \in {"idle", "inserted"} /\ Goto(t, "idle", None)
      BY <2>5 DEF StatementFails
    <3>2. CASE UNCHANGED database
      <4>1. UNCHANGED <<writer, leftOpen, robbed>>
        BY <2>5, <3>2 DEF StatementFails, database
      <4> QED
        BY <1>4, <1>7, <2>1, <3>1, <4>1
    <3>3. CASE Rollback(t[1])
      <4>1. writer = t[1] /\ writer' = None /\ leftOpen' = FALSE
        BY <3>3 DEF Rollback, EndTransaction
      <4>2. robbed' = robbed \cup {v \in ThreadsOf(t[1]) : pc[v] \in InTransaction}
        BY <1>1, <2>5, <4>1 DEF StatementFails
      <4>3. u = t \/ pc'[u] = pc[u]
        BY <1>6, <3>1
      <4>4. u = t => u \notin robbed' /\ pc'[u] = "idle"
        BY <1>4, <1>6, <2>1, <3>1, <4>2
      <4> QED
        BY <1>1, <1>3, <1>4, <4>1, <4>2, <4>3, <4>4 DEF ThreadsOf
    <3> QED
      BY <2>5, <3>2, <3>3 DEF StatementFails, Fails
  <2> QED
    BY <1>8, <2>2, <2>3, <2>4, <2>5 DEF SaveStep
<1>9. ASSUME NEW t \in Threads, Begin(t)
      PROVE  Right(u)
  <2>1. /\ writer = None /\ writer' = t[1] /\ ~ leftOpen' /\ robbed' = robbed
        /\ pc[t] = "idle" /\ "claim" \in Calls[t] /\ Goto(t, "begun", None)
    BY <1>1, <1>9 DEF Begin, MayCall, history
  <2>2. u \in robbed => u[1] # t[1] /\ u # t
    BY <1>3, <1>4, <2>1, OneCaller
  <2> QED
    BY <1>1, <1>3, <1>4, <1>6, <2>1, <2>2
(* A claim fails, or its transaction ends with it. *)
<1>10. ASSUME NEW t \in Threads, NEW label, NEW value, Goto(t, label, value),
              pc[t] \in Claiming, label \notin InTransaction,
              \/ robbed' = robbed /\ label \in Claiming
              \/ robbed' = robbed \ {t},
              \/ UNCHANGED <<writer, leftOpen>>
              \/ writer = t[1] /\ writer' \in {writer, None}
       PROVE  Right(u)
  <2>1. CASE u = t
    BY <1>1, <1>3, <1>6, <1>10, <2>1
  <2>2. CASE u # t
    <3>1. pc'[u] = pc[u] /\ (u \in robbed' <=> u \in robbed)
      BY <1>6, <1>10, <2>2
    <3>2. pc[u] \in Claiming => u[1] # t[1]
      BY <1>10, <2>2, OneClaimer
    <3>3. pc[u] \in InTransaction => pc[u] \in Claiming
      BY <1>4
    <3> QED
      BY <1>1, <1>3, <1>10, <3>1, <3>2, <3>3
  <2> QED
    BY <2>1, <2>2
<1>11. ASSUME NEW t \in Threads, ClaimStep(t)
       PROVE  Right(u)
  <2>1. ASSUME pc[t] \in {"begun", "selected"}, Fails(t[1]), Goto(t, "failed", None),
               UNCHANGED robbed
        PROVE  Right(u)
    <3>1. \/ UNCHANGED <<writer, leftOpen>>
          \/ writer = t[1] /\ writer' \in {writer, None}
      BY <2>1 DEF Fails, Rollback, EndTransaction, database
    <3> QED
      BY <1>4, <1>10, <2>1, <3>1
  <2>2. ASSUME NEW label \in InTransaction, NEW value, pc[t] \in InTransaction,
               Goto(t, label, value), UNCHANGED <<writer, leftOpen, robbed>>
        PROVE  Right(u)
    BY <1>3, <1>4, <1>6, <2>2
  <2>3. CASE ClaimSelect(t)
    <3>1. pc[t] = "begun" /\ UNCHANGED robbed
      BY <2>3 DEF ClaimSelect, history
    <3>2. ASSUME NEW i \in Pending(t[1]), Goto(t, "selected", i), UNCHANGED database
          PROVE  Right(u)
      BY <1>4, <2>2, <3>1, <3>2 DEF database
    <3> QED
      BY <2>1, <2>3, <3>1, <3>2 DEF ClaimSelect
  <2>4. CASE ClaimUpdate(t)
    <3>1. pc[t] = "selected" /\ UNCHANGED robbed
      BY <2>4 DEF ClaimUpdate
    <3>2. ASSUME Write(t[1], WithStatus(View(t[1]), arg[t], 1)), Goto(t, "updated", arg[t])
          PROVE  Right(u)
      BY <1>4, <2>2, <3>1, <3>2 DEF Write
    <3> QED
      BY <2>1, <2>4, <3>1, <3>2 DEF ClaimUpdate
  <2>5. CASE ClaimCommit(t)
    <3>1. /\ pc[t] = "updated" /\ Goto(t, "claimed", arg[t]) /\ robbed' = robbed \ {t}
          /\ \/ UNCHANGED <<writer, leftOpen>>
             \/ writer = t[1] /\ writer' \in {writer, None}
      BY <2>5 DEF ClaimCommit, Committed, CommitFails, Rollback, EndTransaction, database
    <3> QED
      BY <1>4, <1>10, <3>1
  <2>6. CASE ClaimRollback(t)
    <3>1. /\ pc[t] = "failed" /\ Goto(t, "idle", None) /\ robbed' = robbed \ {t}
          /\ \/ UNCHANGED <<writer, leftOpen>>
             \/ writer = t[1] /\ writer' \in {writer, None}
      BY <2>6 DEF ClaimRollback, Rollback, EndTransaction, database
    <3> QED
      BY <1>4, <1>10, <3>1
  <2> QED
    BY <1>11, <2>3, <2>4, <2>5, <2>6 DEF ClaimStep
<1>12. ASSUME NEW t \in Threads, Deliver(t)
       PROVE  Right(u)
  <2>1. pc[t] = "claimed" /\ Goto(t, "idle", None) /\ UNCHANGED <<writer, leftOpen, robbed>>
    BY <1>12 DEF Deliver, database
  <2>2. t \notin robbed
    BY <1>4, <2>1 DEF RobbedInv
  <2> QED
    BY <1>4, <1>7, <2>1, <2>2
<1>13. ASSUME NEW t \in Threads, ClearStep(t)
       PROVE  Right(u)
  <2>1. /\ pc[t] \notin Claiming /\ UNCHANGED robbed
        /\ \E label \in {"idle", "clear_requests", "clear_collections"} : \E value :
              Goto(t, label, value)
    BY <1>4, <1>13 DEF ClearStep, ClearResponses, ClearRequests, ClearCollections,
                       MayCall, history
  <2>2. \/ UNCHANGED <<writer, leftOpen>>
        \/ writer = t[1] /\ writer' = None
    BY <1>13 DEF ClearStep, ClearResponses, ClearRequests, ClearCollections, Write,
                 Fails, Rollback, EndTransaction, database
  <2>3. pc[u] \in Claiming => u[1] # t[1] /\ pc'[u] = pc[u]
    BY <1>6, <1>13, <2>1, OneCaller
  <2>4. pc'[u] \in Claiming => pc'[u] = pc[u]
    BY <1>4, <1>6, <2>1
  <2>5. pc'[u] \in InTransaction => pc'[u] \in Claiming
    BY <1>4
  <2> QED
    BY <1>1, <1>3, <2>1, <2>2, <2>3, <2>4, <2>5
<1>14. ASSUME NEW t \in Threads, NEW i \in Ids, NEW s \in {0, 1}, UpdateStatus(t, i, s)
       PROVE  Right(u)
  BY <1>5, <1>14 DEF UpdateStatus, Write, history
<1>15. ASSUME NEW p \in Processes, Close(p) \/ Crash(p)
       PROVE  Right(u)
  <2>1. /\ pc' = [v \in Threads |-> IF v[1] = p THEN "idle" ELSE pc[v]]
        /\ robbed' = {v \in robbed : v[1] # p}
        /\ IF writer = p THEN writer' = None ELSE UNCHANGED <<writer, leftOpen>>
    BY <1>15 DEF Close, Crash, Disconnect
  <2> QED
    BY <1>1, <1>3, <1>4, <2>1
<1>16. CASE UNCHANGED vars
  BY <1>5, <1>16 DEF vars, database, history
<1>17. CASE Next
  BY <1>8, <1>9, <1>11, <1>12, <1>13, <1>14, <1>15, <1>17 DEF Next
<1> QED
  BY <1>16, <1>17

-----------------------------------------------------------------------------
(* Claims.  ClaimInv as a relation of the tables D and W, the owner o of the *)
(* transaction, the places c, the arguments a, the ids h that were handed    *)
(* out, the threads r that were robbed and the ids s that are spoiled, so    *)
(* that it can be stated of the old state and of the new one.                *)

HeldBy(c, a, h, i) == i \in h \/ \E t \in Threads : c[t] = "claimed" /\ a[t] = i
Owns(c, r, t) == c[t] \in {"begun", "selected", "updated"} /\ t \notin r

Claims(D, W, o, c, a, h, r, s) ==
    /\ \A t \in Threads :
          /\ Owns(c, r, t) /\ c[t] \in {"selected", "updated"} =>
                a[t] \in DOMAIN W.requests /\ (a[t] \notin s => ~ HeldBy(c, a, h, a[t]))
          /\ Owns(c, r, t) /\ c[t] = "updated" => Taken(W, a[t])
          /\ c[t] = "claimed" /\ a[t] \notin s => a[t] \notin h
    /\ \A t, u \in Threads :
          c[t] = "claimed" /\ c[u] = "claimed" /\ a[t] = a[u] => t = u \/ a[t] \in s
    /\ \A i \in Ids \ s :
          /\ HeldBy(c, a, h, i) => Taken(D, i) /\ (o # None => Taken(W, i))
          /\ Running(D, i) => HeldBy(c, a, h, i)
          /\ o # None /\ Running(W, i) =>
                HeldBy(c, a, h, i)
                \/ \E t \in Threads : Owns(c, r, t) /\ c[t] = "updated" /\ a[t] = i

LEMMA OwnsNow ==
    /\ \A t : InItsTransaction(t) <=> Owns(pc, robbed, t)
    /\ \A t : InItsTransaction(t)' <=> Owns(pc', robbed', t)
  BY DEF InItsTransaction, Owns, InTransaction, Claiming

LEMMA ClaimsNow ==
    /\ ClaimInv <=> Claims(disk, work, Owner, pc, arg, handed, robbed, spoiled)
    /\ ClaimInv' <=> Claims(disk', work', Owner', pc', arg', handed', robbed', spoiled')
<1>1. /\ \A i : Held(i) <=> HeldBy(pc, arg, handed, i)
      /\ \A i : Held(i)' <=> HeldBy(pc', arg', handed', i)
  BY DEF Held, HeldBy
<1>2. ClaimInv <=> Claims(disk, work, Owner, pc, arg, handed, robbed, spoiled)
  BY <1>1, OwnsNow DEF ClaimInv, Claims
<1>3. ClaimInv' <=> Claims(disk', work', Owner', pc', arg', handed', robbed', spoiled')
  BY <1>1, OwnsNow DEF ClaimInv, Claims, Owner, Taken, Running, Exists
<1> QED
  BY <1>2, <1>3

LEMMA NothingRuns == \A i : ~ Running(EmptyTables, i)
<1>1. DOMAIN EmptyTables.requests = {}
  BY EmptyTable
<1> QED
  BY <1>1 DEF Running, Exists

(* Steps that touch neither a claim nor what is held, or make a claim that   *)
(* has not updated its row fail.                                             *)
LEMMA ClaimsStay ==
    ASSUME NEW D, NEW D1, NEW W, NEW W1, NEW o, NEW c, NEW c1, NEW a, NEW a1, NEW h,
           NEW r, NEW r1, NEW s,
           Claims(D, W, o, c, a, h, r, s),
           \A t \in Threads : c[t] \in {"selected", "updated"} => a[t] \in Ids,
           \A t \in Threads : Owns(c, r, t) => o # None,
           \A t \in Threads :
              \/ c1[t] = c[t] /\ a1[t] = a[t] /\ (t \in r1 <=> t \in r)
              \/ /\ c[t] # "claimed" /\ c1[t] # "claimed"
                 /\ ~ Owns(c1, r1, t) /\ ~ (Owns(c, r, t) /\ c[t] = "updated"),
           Calm(D1, D),
           o # None => Calm(W1, W) /\ DOMAIN W.requests \subseteq DOMAIN W1.requests
    PROVE  Claims(D1, W1, o, c1, a1, h, r1, s)
<1>1. \A i : HeldBy(c1, a1, h, i) <=> HeldBy(c, a, h, i)
  BY DEF HeldBy
<1>2. \A t \in Threads : Owns(c1, r1, t) =>
         Owns(c, r, t) /\ c1[t] = c[t] /\ a1[t] = a[t] /\ o # None
  BY DEF Owns
<1>3. \A t \in Threads : Owns(c, r, t) /\ c[t] = "updated" =>
         Owns(c1, r1, t) /\ c1[t] = "updated" /\ a1[t] = a[t]
  BY DEF Owns
<1>4. \A t \in Threads : c1[t] = "claimed" <=> c[t] = "claimed"
  OBVIOUS
<1>5. \A t \in Threads : c[t] = "claimed" => a1[t] = a[t]
  OBVIOUS
<1>6. \A i \in Ids : /\ Taken(D, i) => Taken(D1, i)
                     /\ Running(D1, i) => Running(D, i)
  BY DEF Calm
<1>7. o # None => \A i \in Ids : /\ Taken(W, i) => Taken(W1, i)
                                 /\ Running(W1, i) => Running(W, i)
  BY DEF Calm
<1>8. ASSUME NEW t \in Threads
      PROVE  /\ Owns(c1, r1, t) /\ c1[t] \in {"selected", "updated"} =>
                   a1[t] \in DOMAIN W1.requests
                   /\ (a1[t] \notin s => ~ HeldBy(c1, a1, h, a1[t]))
             /\ Owns(c1, r1, t) /\ c1[t] = "updated" => Taken(W1, a1[t])
             /\ c1[t] = "claimed" /\ a1[t] \notin s => a1[t] \notin h
  BY <1>1, <1>2, <1>4, <1>5, <1>7 DEF Claims
<1>9. \A t, u \in Threads :
         c1[t] = "claimed" /\ c1[u] = "claimed" /\ a1[t] = a1[u] => t = u \/ a1[t] \in s
  BY <1>4, <1>5 DEF Claims
<1>10. ASSUME NEW i \in Ids \ s
       PROVE  /\ HeldBy(c1, a1, h, i) => Taken(D1, i) /\ (o # None => Taken(W1, i))
              /\ Running(D1, i) => HeldBy(c1, a1, h, i)
              /\ o # None /\ Running(W1, i) =>
                    HeldBy(c1, a1, h, i)
                    \/ \E t \in Threads : Owns(c1, r1, t) /\ c1[t] = "updated" /\ a1[t] = i
  BY <1>1, <1>3, <1>6, <1>7 DEF Claims
<1> QED
  BY <1>8, <1>9, <1>10 DEF Claims

(* The transaction of a claim ends without a COMMIT. *)
LEMMA ClaimsLetGo ==
    ASSUME NEW D, NEW W, NEW W1, NEW o, NEW c, NEW c1, NEW a, NEW a1, NEW h,
           NEW r, NEW r1, NEW s,
           Claims(D, W, o, c, a, h, r, s),
           \A t \in Threads : /\ ~ Owns(c1, r1, t)
                              /\ c1[t] = "claimed" <=> c[t] = "claimed"
                              /\ c[t] = "claimed" => a1[t] = a[t]
    PROVE  Claims(D, W1, None, c1, a1, h, r1, s)
<1>1. \A i : HeldBy(c1, a1, h, i) <=> HeldBy(c, a, h, i)
  BY DEF HeldBy
<1> QED
  BY <1>1 DEF Claims

LEMMA ClaimsBegin ==
    ASSUME NEW D, NEW W, NEW o, NEW c, NEW c1, NEW a, NEW a1, NEW h, NEW r, NEW s,
           NEW t \in Threads,
           Claims(D, W, None, c, a, h, r, s),
           \A u \in Threads : ~ Owns(c, r, u),
           \A u \in Threads \ {t} : c1[u] = c[u] /\ a1[u] = a[u],
           c[t] = "idle", c1[t] = "begun"
    PROVE  Claims(D, D, o, c1, a1, h, r, s)
<1>1. \A u \in Threads \ {t} : ~ Owns(c1, r, u)
  BY DEF Owns
<1>2. \A i : HeldBy(c1, a1, h, i) <=> HeldBy(c, a, h, i)
  BY DEF HeldBy
<1> QED
  BY <1>1, <1>2 DEF Claims

LEMMA ClaimsSelect ==
    ASSUME NEW D, NEW W, NEW o, NEW c, NEW c1, NEW a, NEW a1, NEW h, NEW r, NEW s,
           NEW t \in Threads, NEW i \in Ids,
           Claims(D, W, o, c, a, h, r, s),
           \A u \in Threads \ {t} : c1[u] = c[u] /\ a1[u] = a[u],
           c[t] = "begun", c1[t] = "selected", a1[t] = i,
           o # None, Exists(W, i), W.requests[i].status = 0
    PROVE  Claims(D, W, o, c1, a1, h, r, s)
<1>1. i \in DOMAIN W.requests /\ ~ Taken(W, i)
  BY DEF Taken, Running, Exists
<1>2. \A j : HeldBy(c1, a1, h, j) <=> HeldBy(c, a, h, j)
  BY DEF HeldBy
<1>3. i \notin s => ~ HeldBy(c, a, h, i)
  BY <1>1 DEF Claims
<1>4. \A u \in Threads \ {t} : Owns(c1, r, u) <=> Owns(c, r, u)
  BY DEF Owns
<1>5. \A u \in Threads : Owns(c, r, u) /\ c[u] = "updated" =>
         Owns(c1, r, u) /\ c1[u] = "updated" /\ a1[u] = a[u]
  BY <1>4
<1> QED
  BY <1>1, <1>2, <1>3, <1>4, <1>5 DEF Claims

LEMMA ClaimsUpdate ==
    ASSUME NEW D, NEW W \in Tables, NEW o, NEW c, NEW c1, NEW a, NEW a1, NEW h,
           NEW r, NEW s, NEW t \in Threads, Claims(D, W, o, c, a, h, r, s),
           \A u \in Threads \ {t} : c1[u] = c[u] /\ a1[u] = a[u] /\ ~ Owns(c, r, u),
           c[t] = "selected", Owns(c, r, t), c1[t] = "updated", a1[t] = a[t], a[t] \in Ids
    PROVE  Claims(D, WithStatus(W, a[t], 1), o, c1, a1, h, r, s)
<1> DEFINE U == WithStatus(W, a[t], 1)
<1>1. /\ U \in Tables /\ Len(U.requests) = Len(W.requests)
      /\ \A j \in DOMAIN W.requests :
            /\ U.requests[j].key = W.requests[j].key
            /\ U.requests[j].status =
                  IF j = a[t] /\ Exists(W, a[t]) THEN 1 ELSE W.requests[j].status
  BY StatusTable
<1> HIDE DEF U
<1>2. DOMAIN U.requests = DOMAIN W.requests
  BY <1>1, TableRows
<1>3. \A j : Exists(U, j) <=> Exists(W, j)
  BY <1>1, <1>2 DEF Exists
<1>4. \A j : Taken(W, j) => Taken(U, j)
  BY <1>1, <1>2, <1>3 DEF Taken, Running, Exists
<1>5. \A j : Running(U, j) => Running(W, j) \/ j = a[t]
  BY <1>1, <1>2, <1>3 DEF Running, Exists
<1>6. a[t] \in DOMAIN W.requests /\ (a[t] \notin s => ~ HeldBy(c, a, h, a[t]))
  BY DEF Claims
<1>7. Taken(U, a[t])
  BY <1>1, <1>2, <1>3, <1>6 DEF Taken, Running, Exists
<1>8. \A j : HeldBy(c1, a1, h, j) <=> HeldBy(c, a, h, j)
  BY DEF HeldBy
<1>9. Owns(c1, r, t) /\ \A u \in Threads \ {t} : ~ Owns(c1, r, u)
  BY DEF Owns
<1>10. \A u \in Threads : c1[u] = "claimed" => c[u] = "claimed" /\ a1[u] = a[u]
  OBVIOUS
<1> QED
  BY <1>2, <1>4, <1>5, <1>6, <1>7, <1>8, <1>9, <1>10 DEF Claims, U

LEMMA ClaimsCommit ==
    ASSUME NEW D, NEW W, NEW W1, NEW o, NEW c, NEW c1, NEW a, NEW a1, NEW h,
           NEW r, NEW r1, NEW s,
           NEW t \in Threads, Claims(D, W, o, c, a, h, r, s), o # None,
           \A u \in Threads \ {t} : c1[u] = c[u] /\ a1[u] = a[u] /\ ~ Owns(c, r, u)
                                    /\ ~ Owns(c1, r1, u),
           c[t] = "updated", Owns(c, r, t), c1[t] = "claimed", a1[t] = a[t]
    PROVE  Claims(W, W1, None, c1, a1, h, r1, s)
<1>1. /\ a[t] \notin s => ~ HeldBy(c, a, h, a[t])
      /\ Taken(W, a[t])
      /\ \A i \in Ids \ s : HeldBy(c, a, h, i) => Taken(W, i)
      /\ \A i \in Ids \ s : Running(W, i) => HeldBy(c, a, h, i) \/ i = a[t]
  BY DEF Claims
<1>2. \A i : HeldBy(c1, a1, h, i) <=> HeldBy(c, a, h, i) \/ i = a[t]
  BY DEF HeldBy
<1>3. \A u \in Threads : ~ Owns(c1, r1, u)
  BY DEF Owns
<1>4. a[t] \notin s => a[t] \notin h /\ \A u \in Threads : c[u] = "claimed" => a[u] # a[t]
  BY <1>1 DEF HeldBy
<1>5. \A u \in Threads : c1[u] = "claimed" <=> c[u] = "claimed" \/ u = t
  OBVIOUS
<1>6. \A u \in Threads : a1[u] = a[u]
  OBVIOUS
<1>7. \A u, v \in Threads :
         c1[u] = "claimed" /\ c1[v] = "claimed" /\ a1[u] = a1[v] => u = v \/ a1[u] \in s
  BY <1>4, <1>5, <1>6 DEF Claims
<1>8. \A u \in Threads : c1[u] = "claimed" /\ a1[u] \notin s => a1[u] \notin h
  BY <1>4, <1>5, <1>6 DEF Claims
<1>9. \A i \in Ids \ s : /\ HeldBy(c1, a1, h, i) => Taken(W, i)
                         /\ Running(W, i) => HeldBy(c1, a1, h, i)
  BY <1>1, <1>2
<1> QED
  BY <1>3, <1>7, <1>8, <1>9 DEF Claims

LEMMA ClaimsDeliver ==
    ASSUME NEW D, NEW W, NEW o, NEW c, NEW c1, NEW a, NEW a1, NEW h, NEW r, NEW s,
           NEW t \in Threads, Claims(D, W, o, c, a, h, r, s),
           \A u \in Threads \ {t} : c1[u] = c[u] /\ a1[u] = a[u],
           c[t] = "claimed", c1[t] = "idle"
    PROVE  Claims(D, W, o, c1, a1, h \cup {a[t]}, r, s)
<1>1. \A i : HeldBy(c1, a1, h \cup {a[t]}, i) <=> HeldBy(c, a, h, i)
  BY DEF HeldBy
<1>2. \A u \in Threads : Owns(c1, r, u) <=> Owns(c, r, u)
  BY DEF Owns
<1>3. \A u \in Threads : Owns(c, r, u) => c1[u] = c[u] /\ a1[u] = a[u]
  BY DEF Owns
<1>4. \A u \in Threads : c1[u] = "claimed" => c[u] = "claimed" /\ a1[u] = a[u] /\ u # t
  OBVIOUS
<1>5. ASSUME NEW u \in Threads
      PROVE  /\ Owns(c1, r, u) /\ c1[u] \in {"selected", "updated"} =>
                   a1[u] \in DOMAIN W.requests
                   /\ (a1[u] \notin s => ~ HeldBy(c1, a1, h \cup {a[t]}, a1[u]))
             /\ Owns(c1, r, u) /\ c1[u] = "updated" => Taken(W, a1[u])
             /\ c1[u] = "claimed" /\ a1[u] \notin s => a1[u] \notin h \cup {a[t]}
  BY <1>1, <1>2, <1>3, <1>4 DEF Claims
<1>6. \A u, v \in Threads :
         c1[u] = "claimed" /\ c1[v] = "claimed" /\ a1[u] = a1[v] => u = v \/ a1[u] \in s
  BY <1>4 DEF Claims
<1>7. ASSUME NEW i \in Ids \ s
      PROVE  /\ HeldBy(c1, a1, h \cup {a[t]}, i) => Taken(D, i) /\ (o # None => Taken(W, i))
             /\ Running(D, i) => HeldBy(c1, a1, h \cup {a[t]}, i)
             /\ o # None /\ Running(W, i) =>
                   HeldBy(c1, a1, h \cup {a[t]}, i)
                   \/ \E u \in Threads : Owns(c1, r, u) /\ c1[u] = "updated" /\ a1[u] = i
  BY <1>1, <1>2, <1>3 DEF Claims
<1> QED
  BY <1>5, <1>6, <1>7 DEF Claims

(* Request i is spoiled: what becomes of it no longer matters. *)
LEMMA ClaimsSpoil ==
    ASSUME NEW D, NEW D1, NEW W, NEW W1, NEW o, NEW c, NEW a, NEW h, NEW h1, NEW r, NEW s,
           NEW i, Claims(D, W, o, c, a, h, r, s),
           \A t \in Threads : Owns(c, r, t) => o # None,
           o # None => W1 = W,
           \A j : j # i => (j \in h1 <=> j \in h),
           \A j \in Ids : j # i => /\ Taken(D, j) => Taken(D1, j)
                                   /\ Running(D1, j) => Running(D, j)
    PROVE  Claims(D1, W1, o, c, a, h1, r, s \cup {i})
<1>1. \A j : j # i => (HeldBy(c, a, h1, j) <=> HeldBy(c, a, h, j))
  BY DEF HeldBy
<1>2. ASSUME NEW t \in Threads
      PROVE  /\ Owns(c, r, t) /\ c[t] \in {"selected", "updated"} =>
                   a[t] \in DOMAIN W1.requests
                   /\ (a[t] \notin s \cup {i} => ~ HeldBy(c, a, h1, a[t]))
             /\ Owns(c, r, t) /\ c[t] = "updated" => Taken(W1, a[t])
             /\ c[t] = "claimed" /\ a[t] \notin s \cup {i} => a[t] \notin h1
  BY <1>1 DEF Claims
<1>3. ASSUME NEW j \in Ids \ (s \cup {i})
      PROVE  /\ HeldBy(c, a, h1, j) => Taken(D1, j) /\ (o # None => Taken(W1, j))
             /\ Running(D1, j) => HeldBy(c, a, h1, j)
             /\ o # None /\ Running(W1, j) =>
                   HeldBy(c, a, h1, j)
                   \/ \E t \in Threads : Owns(c, r, t) /\ c[t] = "updated" /\ a[t] = j
  BY <1>1 DEF Claims
<1> QED
  BY <1>2, <1>3 DEF Claims

(* A claim returns its spoiled request although nothing was committed. *)
LEMMA ClaimsLost ==
    ASSUME NEW D, NEW W, NEW W1, NEW o, NEW o1, NEW c, NEW c1, NEW a, NEW a1, NEW h,
           NEW r, NEW r1, NEW s, NEW t \in Threads,
           Claims(D, W, o, c, a, h, r, s), a[t] \in s,
           \A u \in Threads \ {t} : c1[u] = c[u] /\ a1[u] = a[u] /\ (u \in r1 <=> u \in r),
           c[t] = "updated", c1[t] = "claimed", a1[t] = a[t],
           \/ o1 = o /\ W1 = W
           \/ o1 = None /\ \A u \in Threads : ~ Owns(c1, r1, u)
    PROVE  Claims(D, W1, o1, c1, a1, h, r1, s)
<1>1. \A i : i \notin s => (HeldBy(c1, a1, h, i) <=> HeldBy(c, a, h, i))
  BY DEF HeldBy
<1>2. \A u \in Threads : Owns(c1, r1, u) => Owns(c, r, u) /\ u # t /\ o1 = o /\ W1 = W
  BY DEF Owns
<1>3. \A u \in Threads \ {t} : Owns(c, r, u) => Owns(c1, r1, u)
  BY DEF Owns
<1>4. ASSUME NEW u \in Threads
      PROVE  /\ Owns(c1, r1, u) /\ c1[u] \in {"selected", "updated"} =>
                   a1[u] \in DOMAIN W1.requests
                   /\ (a1[u] \notin s => ~ HeldBy(c1, a1, h, a1[u]))
             /\ Owns(c1, r1, u) /\ c1[u] = "updated" => Taken(W1, a1[u])
             /\ c1[u] = "claimed" /\ a1[u] \notin s => a1[u] \notin h
  BY <1>1, <1>2 DEF Claims
<1>5. \A u, v \in Threads :
         c1[u] = "claimed" /\ c1[v] = "claimed" /\ a1[u] = a1[v] => u = v \/ a1[u] \in s
  BY DEF Claims
<1>6. ASSUME NEW i \in Ids \ s
      PROVE  /\ HeldBy(c1, a1, h, i) => Taken(D, i) /\ (o1 # None => Taken(W1, i))
             /\ Running(D, i) => HeldBy(c1, a1, h, i)
             /\ o1 # None /\ Running(W1, i) =>
                   HeldBy(c1, a1, h, i)
                   \/ \E u \in Threads : Owns(c1, r1, u) /\ c1[u] = "updated" /\ a1[u] = i
  BY <1>1, <1>3 DEF Claims
<1> QED
  BY <1>4, <1>5, <1>6 DEF Claims

(* No claim has a transaction, and who was handed request i gives it back or *)
(* is done with it.                                                          *)
LEMMA ClaimsReset ==
    ASSUME NEW D \in Tables, NEW W, NEW c, NEW a, NEW h, NEW r, NEW s, NEW i \in h,
           NEW status \in {0, 1}, Claims(D, W, None, c, a, h, r, s),
           \A t \in Threads : ~ Owns(c, r, t)
    PROVE  Claims(WithStatus(D, i, status), W, None, c, a,
                  IF status = 0 THEN h \ {i} ELSE h, r, s)
<1> DEFINE U == WithStatus(D, i, status)
           h1 == IF status = 0 THEN h \ {i} ELSE h
<1>1. /\ U \in Tables /\ Len(U.requests) = Len(D.requests)
      /\ \A j \in DOMAIN D.requests :
            /\ U.requests[j].key = D.requests[j].key
            /\ U.requests[j].status =
                  IF j = i /\ Exists(D, i) THEN status ELSE D.requests[j].status
  BY StatusTable
<1> HIDE DEF U
<1>2. DOMAIN U.requests = DOMAIN D.requests
  BY <1>1, TableRows
<1>3. \A j : Exists(U, j) <=> Exists(D, j)
  BY <1>1, <1>2 DEF Exists
<1>4. \A j : j # i => (Running(U, j) <=> Running(D, j)) /\ (Taken(U, j) <=> Taken(D, j))
  BY <1>1, <1>2, <1>3 DEF Taken, Running, Exists
<1>5. status = 0 => ~ Running(U, i)
  BY <1>1, <1>2, <1>3 DEF Running, Exists
<1>6. status = 1 /\ Taken(D, i) => Taken(U, i)
  BY <1>1, <1>2, <1>3 DEF Taken, Running, Exists
<1>7. /\ i \notin s => \A t \in Threads : c[t] = "claimed" => a[t] # i
      /\ HeldBy(c, a, h, i)
  BY DEF Claims, HeldBy
<1>8. /\ \A j : j # i => (HeldBy(c, a, h1, j) <=> HeldBy(c, a, h, j))
      /\ status = 0 /\ i \notin s => ~ HeldBy(c, a, h1, i)
      /\ status = 1 => h1 = h
  BY <1>7 DEF HeldBy
<1>9. h1 \subseteq h
  OBVIOUS
<1> HIDE DEF h1
<1>10. status = 0 \/ status = 1
  OBVIOUS
<1>11. Claims(U, W, None, c, a, h1, r, s)
  <2>1. \A t \in Threads : c[t] = "claimed" /\ a[t] \notin s => a[t] \notin h1
    BY <1>9 DEF Claims
  <2>2. \A j \in Ids \ s : HeldBy(c, a, h1, j) => Taken(U, j)
    BY <1>4, <1>6, <1>8, <1>10 DEF Claims
  <2>3. \A j \in Ids \ s : Running(U, j) => HeldBy(c, a, h1, j)
    BY <1>4, <1>5, <1>7, <1>8, <1>10 DEF Claims
  <2>4. \A t, u \in Threads :
           c[t] = "claimed" /\ c[u] = "claimed" /\ a[t] = a[u] => t = u \/ a[t] \in s
    BY DEF Claims
  <2> QED
    BY <2>1, <2>2, <2>3, <2>4 DEF Claims
<1> QED
  BY <1>11 DEF U, h1

LEMMA ClaimNext ==
    ASSUME DbInv, [Next]_vars
    PROVE  ClaimInv'
<1> DEFINE Now == Claims(disk', work', Owner', pc', arg', handed', robbed', spoiled')
<1>1. SUFFICES Now
  BY ClaimsNow
<1>2. Claims(disk, work, Owner, pc, arg, handed, robbed, spoiled)
  BY ClaimsNow DEF DbInv
<1>3. TypeOK /\ PlaceInv /\ TablesInv /\ AnswersInv /\ TransactionHasItsClaim /\ RobbedInv
  BY DEF DbInv
<1>4. /\ disk \in Tables /\ work \in Tables /\ writer \in Processes \cup {None}
      /\ pc \in [Threads -> Labels] /\ arg \in [Threads -> Values]
      /\ None \notin Processes
      /\ \A t \in Threads : t[1] \in Processes
  BY <1>3, DbAssumption DEF TypeOK, Labels, Values
<1>5. /\ \A t \in Threads : pc[t] \in {"selected", "updated", "claimed"} => arg[t] \in Ids
      /\ writer = None => ~ leftOpen
      /\ writer # None => Extends(work, disk)
      /\ writer # None => leftOpen \/ \E t \in Threads : t[1] = writer /\ pc[t] \in Claiming
  BY <1>3 DEF PlaceInv, TablesInv, TransactionHasItsClaim, ThreadsOf
<1>6. \A t \in Threads : Owns(pc, robbed, t) => /\ Owner # None /\ Owner = writer
                                                /\ writer = t[1] /\ ~ leftOpen
  BY <1>3, <1>4, OwnsNow DEF RobbedInv, Owner
<1>7. \A t \in Threads : Owns(pc', robbed', t) => Owner' # None
  <2>1. RobbedInv'
    BY <1>3, RobbedNext
  <2> QED
    BY <1>4, <2>1, OwnsNow DEF RobbedInv
<1>8. Calm(disk, disk) /\ Calm(work, work)
  BY <1>4, CalmRows
<1>9. /\ UNCHANGED <<writer, leftOpen>> => Owner' = Owner
      /\ writer' = None => Owner' = None
      /\ leftOpen' = TRUE => Owner' = None
      /\ Owner # None => Owner = writer
  BY DEF Owner
(* Where a claim has the transaction, no other claim has it. *)
<1>10. ASSUME NEW t \in Threads, Owns(pc, robbed, t), NEW u \in Threads \ {t}
       PROVE  ~ Owns(pc, robbed, u)
  <2> SUFFICES ASSUME Owns(pc, robbed, u)
               PROVE  FALSE
    OBVIOUS
  <2>1. u[1] = t[1]
    BY <1>6, <1>10
  <2>2. pc[t] \in InClaim /\ pc[u] \in InClaim
    BY <1>10 DEF Owns, InClaim
  <2> QED
    BY <1>3, <2>1, <2>2, OneClaimer
<1> DEFINE Apart == \A t \in Threads :
              \/ pc'[t] = pc[t] /\ arg'[t] = arg[t] /\ (t \in robbed' <=> t \in robbed)
              \/ /\ pc[t] # "claimed" /\ pc'[t] # "claimed"
                 /\ ~ Owns(pc', robbed', t)
                 /\ ~ (Owns(pc, robbed, t) /\ pc[t] = "updated")
           Alike == \A t \in Threads : /\ pc'[t] = "claimed" <=> pc[t] = "claimed"
                                       /\ pc[t] = "claimed" => arg'[t] = arg[t]
<1>11. ASSUME UNCHANGED <<disk, work, writer, leftOpen, handed, spoiled>>, Apart
       PROVE  Now
  BY <1>2, <1>5, <1>6, <1>8, <1>9, <1>11, ClaimsStay
<1>12. ASSUME NEW p \in Processes, NEW U \in Tables, Sound(p, U), Calm(U, View(p)),
              Write(p, U), UNCHANGED <<handed, spoiled>>, Apart
       PROVE  Now
  <2>1. CASE writer = p /\ work' = U /\ UNCHANGED <<disk, writer, leftOpen>>
    <3>1. View(p) = work /\ Extends(U, work)
      BY <1>12, <2>1 DEF View, Sound
    <3>2. DOMAIN work.requests \subseteq DOMAIN U.requests
      BY <1>4, <3>1, TableRows DEF Extends
    <3> QED
      BY <1>2, <1>5, <1>6, <1>8, <1>9, <1>12, <2>1, <3>1, <3>2, ClaimsStay
  <2>2. CASE writer = None /\ disk' = U /\ UNCHANGED <<work, writer, leftOpen>>
    <3>1. View(p) = disk
      BY <1>4, <2>2 DEF View
    <3> QED
      BY <1>2, <1>5, <1>6, <1>8, <1>9, <1>12, <2>2, <3>1, ClaimsStay
  <2> QED
    BY <1>12, <2>1, <2>2 DEF Write
(* The transaction is gone, and the claim that had it. *)
<1>13. ASSUME UNCHANGED <<disk, handed, spoiled>>, Owner' = None, Alike
       PROVE  Now
  BY <1>2, <1>7, <1>13, ClaimsLetGo
<1>14. ASSUME NEW p \in Processes, Rollback(p), UNCHANGED <<handed, spoiled>>, Alike
       PROVE  Now
  BY <1>9, <1>13, <1>14 DEF Rollback, EndTransaction
<1>15. \A t \in Threads : \A label, value :
          Goto(t, label, value) =>
             /\ pc'[t] = label /\ arg'[t] = value
             /\ \A u \in Threads \ {t} : pc'[u] = pc[u] /\ arg'[u] = arg[u]
  BY <1>4 DEF Goto
(* A statement outside the claims *)
<1>16. ASSUME NEW t \in Threads, Quiet(t[1]), UNCHANGED <<handed, spoiled>>,
              UNCHANGED robbed \/ Rollback(t[1]),
              \/ UNCHANGED <<pc, arg>>
              \/ /\ pc[t] \notin InClaim
                 /\ \E label \in Labels \ InClaim : \E value : Goto(t, label, value)
       PROVE  Now
  <2>1. Alike /\ (UNCHANGED robbed => Apart)
    BY <1>15, <1>16 DEF InClaim, Owns
  <2>2. CASE Rollback(t[1])
    BY <1>4, <1>14, <1>16, <2>1, <2>2
  <2>3. CASE UNCHANGED database /\ UNCHANGED robbed
    BY <1>11, <1>16, <2>1, <2>3 DEF database
  <2>4. CASE Tells(t[1]) /\ UNCHANGED robbed
    BY <1>11, <1>16, <2>1, <2>4 DEF Tells
  <2>5. ASSUME NEW U \in Tables, Sound(t[1], U), Calm(U, View(t[1])), Write(t[1], U),
               UNCHANGED robbed
        PROVE  Now
    BY <1>4, <1>12, <1>16, <2>1, <2>5
  <2> QED
    BY <1>16, <2>2, <2>3, <2>4, <2>5 DEF Quiet
<1>17. ASSUME NEW t \in Threads, SaveStep(t)
       PROVE  Now
  <2>1. Quiet(t[1])
    BY <1>3, <1>17, SaveQuiet
  <2>2. UNCHANGED <<handed, spoiled>> /\ (UNCHANGED robbed \/ Rollback(t[1]))
    <3>1. CASE StatementFails(t)
      <4>1. UNCHANGED database => UNCHANGED robbed
        BY <3>1 DEF StatementFails, database
      <4> QED
        BY <3>1, <4>1 DEF StatementFails, Fails
    <3>2. CASE SaveCollection(t) \/ SelectRequest(t)
               \/ (\E key \in Keys : InsertRequest(t, key))
               \/ \E answer \in told[t[1]] : InsertResponse(t, answer)
      BY <3>2 DEF SaveCollection, InsertRequest, SelectRequest, Tell, InsertResponse,
                  history
    <3> QED
      BY <1>17, <3>1, <3>2 DEF SaveStep
  <2>3. \/ UNCHANGED <<pc, arg>>
        \/ /\ pc[t] \in {"idle", "inserted"}
           /\ \E label \in {"idle", "inserted"} : \E value : Goto(t, label, value)
    BY <1>17 DEF SaveStep, SaveCollection, InsertRequest, SelectRequest, StatementFails,
                 InsertResponse, Tell, MayCall, Return
  <2>4. {"idle", "inserted"} \subseteq Labels \ InClaim
    BY DEF Labels, InClaim
  <2> QED
    BY <1>16, <2>1, <2>2, <2>3, <2>4
<1>18. ASSUME NEW t \in Threads, ClearStep(t)
       PROVE  Now
  <2>1. Quiet(t[1]) /\ UNCHANGED <<handed, spoiled, robbed>>
    BY <1>3, <1>18, ClearQuiet DEF ClearStep, ClearResponses, ClearRequests,
                         ClearCollections, history
  <2>2. /\ pc[t] \in {"idle", "clear_requests", "clear_collections"}
        /\ \E label \in {"idle", "clear_requests", "clear_collections"} : \E value :
              Goto(t, label, value)
    BY <1>18 DEF ClearStep, ClearResponses, ClearRequests, ClearCollections, MayCall, Return
  <2>3. {"idle", "clear_requests", "clear_collections"} \subseteq Labels \ InClaim
    BY DEF Labels, InClaim, Clearing
  <2> QED
    BY <1>16, <2>1, <2>2, <2>3
<1>19. ASSUME NEW t \in Threads, Begin(t)
       PROVE  Now
  <2>1. /\ writer = None /\ work' = disk /\ UNCHANGED <<disk, handed, robbed, spoiled>>
        /\ pc[t] = "idle" /\ Goto(t, "begun", None)
    BY <1>19 DEF Begin, MayCall, history
  <2>2. Owner = None /\ \A u \in Threads : ~ Owns(pc, robbed, u)
    BY <1>6, <2>1 DEF Owner
  <2>3. Claims(disk, work, None, pc, arg, handed, robbed, spoiled)
    BY <1>2, <2>2
  <2>4. Claims(disk, disk, Owner', pc', arg', handed, robbed, spoiled)
    BY <1>15, <2>1, <2>2, <2>3, ClaimsBegin
  <2> QED
    BY <2>1, <2>4
(* A claim fails, with its transaction or without. *)
<1>20. ASSUME NEW t \in Threads, NEW label \in {"failed", "idle"}, NEW value,
              pc[t] \in {"begun", "selected", "failed"}, Goto(t, label, value),
              UNCHANGED database \/ Rollback(t[1]), UNCHANGED <<handed, spoiled>>,
              robbed' \in {robbed, robbed \ {t}}
       PROVE  Now
  <2>1. Alike
    BY <1>15, <1>20
  <2>2. Apart
    BY <1>15, <1>20 DEF Owns
  <2> QED
    BY <1>4, <1>11, <1>14, <1>20, <2>1, <2>2 DEF database
<1>21. ASSUME NEW t \in Threads, ClaimSelect(t)
       PROVE  Now
  <2>1. pc[t] = "begun" /\ UNCHANGED <<handed, robbed, spoiled>>
    BY <1>21 DEF ClaimSelect, history
  <2>2. CASE Fails(t[1]) /\ Goto(t, "failed", None)
    BY <1>20, <2>1, <2>2 DEF Fails
  <2>3. ASSUME NEW i \in Pending(t[1]), Goto(t, "selected", i), UNCHANGED database
        PROVE  Now
    <3>1. CASE t \in robbed
      <4>1. Apart
        BY <1>15, <2>1, <2>3, <3>1 DEF Owns
      <4> QED
        BY <1>11, <2>1, <2>3, <4>1 DEF database
    <3>2. CASE t \notin robbed
      <4>1. Owner # None /\ View(t[1]) = work
        BY <1>6, <2>1, <3>2 DEF Owns, View
      <4>2. i \in Ids
        BY <1>3, <1>4, <2>3, PendingIds
      <4>3. Exists(work, i) /\ work.requests[i].status = 0
        BY <2>3, <4>1 DEF Pending
      <4>4. Claims(disk, work, Owner, pc', arg', handed, robbed, spoiled)
        BY <1>2, <1>15, <2>1, <2>3, <4>1, <4>2, <4>3, ClaimsSelect
      <4> QED
        BY <1>9, <2>1, <2>3, <4>4 DEF database
    <3> QED
      BY <3>1, <3>2
  <2> QED
    BY <1>21, <2>2, <2>3 DEF ClaimSelect
<1>22. ASSUME NEW t \in Threads, ClaimUpdate(t)
       PROVE  Now
  <2>1. pc[t] = "selected" /\ UNCHANGED <<handed, robbed>> /\ arg[t] \in Ids
    BY <1>5, <1>22 DEF ClaimUpdate
  <2>2. CASE Fails(t[1]) /\ Goto(t, "failed", None) /\ UNCHANGED spoiled
    BY <1>20, <2>1, <2>2 DEF Fails
  <2>3. CASE /\ Write(t[1], WithStatus(View(t[1]), arg[t], 1))
             /\ Goto(t, "updated", arg[t]) /\ SpoilIfRobbed(t)
    <3>1. CASE t \in robbed
      <4>1. writer = None /\ disk' = WithStatus(disk, arg[t], 1)
            /\ UNCHANGED <<work, writer, leftOpen>> /\ spoiled' = spoiled \cup {arg[t]}
        BY <1>3, <1>4, <2>3, <3>1 DEF Write, View, RobbedInv, SpoilIfRobbed, Spoil
      <4>2. \A j \in DOMAIN disk.requests :
               /\ disk'.requests[j].key = disk.requests[j].key
               /\ j # arg[t] => disk'.requests[j].status = disk.requests[j].status
        BY <1>4, <4>1, StatusTable
      <4>3. DOMAIN disk'.requests = DOMAIN disk.requests
        BY <1>4, <4>1, StatusTable, TableRows
      <4>4. \A j : j # arg[t] => /\ Taken(disk, j) => Taken(disk', j)
                                 /\ Running(disk', j) => Running(disk, j)
        BY <4>2, <4>3 DEF Taken, Running, Exists
      <4>5. Claims(disk', work, Owner, pc, arg, handed, robbed, spoiled')
        BY <1>2, <1>6, <4>1, <4>4, ClaimsSpoil
      <4>6. Apart
        BY <1>15, <2>1, <2>3, <3>1 DEF Owns
      <4>7. Calm(disk', disk')
        BY DEF Calm
      <4>8. Claims(disk', work, Owner, pc', arg', handed, robbed', spoiled')
        BY <1>5, <1>6, <1>8, <4>5, <4>6, <4>7, ClaimsStay
      <4> QED
        BY <1>9, <2>1, <4>1, <4>8
    <3>2. CASE t \notin robbed
      <4>1. Owns(pc, robbed, t)
        BY <2>1, <3>2 DEF Owns
      <4>2. writer = t[1] /\ writer # None /\ UNCHANGED spoiled
        BY <1>4, <1>6, <2>3, <3>2, <4>1 DEF SpoilIfRobbed
      <4>3. work' = WithStatus(work, arg[t], 1) /\ UNCHANGED <<disk, writer, leftOpen>>
        BY <2>3, <4>2 DEF Write, View
      <4>4. Claims(disk, WithStatus(work, arg[t], 1), Owner, pc', arg', handed, robbed, spoiled)
        BY <1>2, <1>4, <1>10, <1>15, <2>1, <2>3, <4>1, ClaimsUpdate
      <4> QED
        BY <1>9, <2>1, <4>2, <4>3, <4>4
    <3> QED
      BY <3>1, <3>2
  <2> QED
    BY <1>22, <2>2, <2>3 DEF ClaimUpdate
<1>23. ASSUME NEW t \in Threads, ClaimCommit(t)
       PROVE  Now
  <2>1. /\ pc[t] = "updated" /\ UNCHANGED handed /\ robbed' = robbed \ {t}
        /\ Goto(t, "claimed", arg[t]) /\ arg[t] \in Ids
    BY <1>5, <1>23 DEF ClaimCommit
  <2>2. writer = t[1] => Owns(pc, robbed, t)
    BY <1>3, <2>1 DEF RobbedInv, Owns
  <2>3. CASE Committed(t[1]) /\ UNCHANGED spoiled
    <3>1. disk' = work /\ Owner' = None
      BY <1>9, <2>3 DEF Committed, EndTransaction
    <3>2. Owns(pc, robbed, t) /\ Owner # None
      BY <1>6, <2>2, <2>3 DEF Committed
    <3>3. \A u \in Threads \ {t} : pc'[u] = pc[u] /\ arg'[u] = arg[u]
             /\ ~ Owns(pc, robbed, u) /\ ~ Owns(pc', robbed', u)
      BY <1>7, <1>10, <1>15, <2>1, <3>1, <3>2
    <3>4. Claims(work, work', None, pc', arg', handed, robbed', spoiled)
      BY <1>2, <1>15, <2>1, <3>2, <3>3, ClaimsCommit
    <3> QED
      BY <2>1, <2>3, <3>1, <3>4
  <2>4. ASSUME Spoil(arg[t]), UNCHANGED disk,
               Owner' = None \/ UNCHANGED <<work, writer, leftOpen>>
        PROVE  Now
    <3>1. spoiled' = spoiled \cup {arg[t]}
      BY <2>4 DEF Spoil
    <3>2. Claims(disk, work, Owner, pc, arg, handed, robbed, spoiled')
      BY <1>2, <1>6, <3>1, ClaimsSpoil
    <3>3. /\ pc'[t] = "claimed" /\ arg'[t] = arg[t] /\ arg[t] \in spoiled'
          /\ \A u \in Threads \ {t} : /\ pc'[u] = pc[u] /\ arg'[u] = arg[u]
                                      /\ (u \in robbed' <=> u \in robbed)
      BY <1>15, <2>1, <3>1
    <3>4. \/ Owner' = Owner /\ work' = work
          \/ Owner' = None /\ \A u \in Threads : ~ Owns(pc', robbed', u)
      BY <1>7, <1>9, <2>4
    <3>5. Claims(disk, work', Owner', pc', arg', handed, robbed', spoiled')
      BY <2>1, <3>2, <3>3, <3>4, ClaimsLost
    <3> QED
      BY <2>1, <2>4, <3>5
  <2>5. CASE CommitFails(t[1]) /\ Spoil(arg[t])
    BY <1>9, <2>4, <2>5 DEF CommitFails, Rollback, EndTransaction
  <2>6. CASE writer # t[1] /\ UNCHANGED database /\ SpoilIfRobbed(t)
    <3>1. t \in robbed
      BY <1>6, <2>1, <2>6 DEF Owns
    <3> QED
      BY <2>4, <2>6, <3>1 DEF SpoilIfRobbed, database
  <2> QED
    BY <1>23, <2>3, <2>5, <2>6 DEF ClaimCommit
<1>24. ASSUME NEW t \in Threads, ClaimRollback(t)
       PROVE  Now
  <2>1. /\ pc[t] = "failed" /\ UNCHANGED <<handed, spoiled>> /\ robbed' = robbed \ {t}
        /\ Goto(t, "idle", None)
        /\ UNCHANGED database \/ Rollback(t[1])
    BY <1>24 DEF ClaimRollback, Return
  <2> QED
    BY <1>20, <2>1
<1>25. ASSUME NEW t \in Threads, Deliver(t)
       PROVE  Now
  <2>1. /\ pc[t] = "claimed" /\ handed' = handed \cup {arg[t]} /\ Goto(t, "idle", None)
        /\ UNCHANGED <<disk, work, writer, leftOpen, robbed, spoiled>>
    BY <1>25 DEF Deliver, Return, database
  <2>2. Claims(disk, work, Owner, pc', arg', handed \cup {arg[t]}, robbed, spoiled)
    BY <1>2, <1>15, <2>1, ClaimsDeliver
  <2> QED
    BY <1>9, <2>1, <2>2
<1>26. ASSUME NEW t \in Threads, NEW i \in Ids, NEW s \in {0, 1}, UpdateStatus(t, i, s)
       PROVE  Now
  <2>1. /\ pc[t] = "idle" /\ "status" \in Calls[t] /\ i \in handed
        /\ Write(t[1], WithStatus(View(t[1]), i, s))
        /\ UNCHANGED <<pc, arg, robbed>>
    BY <1>26 DEF UpdateStatus, MayCall, history
  <2>2. writer = t[1] => leftOpen
    BY <1>3, <1>4, <1>5, <2>1, OneCaller
  <2>3. Owner = None /\ \A u \in Threads : ~ Owns(pc, robbed, u)
    BY <1>6, <2>1, <2>2 DEF Owner, Write
  <2>4. Owner' = None
    BY <1>9, <2>1, <2>3 DEF Write
  <2>5. CASE writer = t[1] /\ work' = WithStatus(work, i, s) /\ UNCHANGED <<disk, writer, leftOpen>>
    <3>1. CASE s = 1
      <4>1. UNCHANGED <<handed, spoiled>>
        BY <1>26, <3>1 DEF UpdateStatus, history
      <4> QED
        BY <1>13, <2>1, <2>4, <2>5, <4>1
    <3>2. CASE s = 0
      <4>1. handed' = handed \ {i} /\ spoiled' = spoiled \cup {i}
        BY <1>26, <2>2, <2>5, <3>2 DEF UpdateStatus, Spoil
      <4>2. \A j : j # i => (j \in handed' <=> j \in handed)
        BY <4>1
      <4>3. Claims(disk, work', None, pc, arg, handed', robbed, spoiled')
        BY <1>2, <2>3, <4>1, <4>2, ClaimsSpoil
      <4> QED
        BY <2>1, <2>4, <2>5, <4>3
    <3> QED
      BY <3>1, <3>2
  <2>6. CASE writer = None /\ disk' = WithStatus(disk, i, s) /\ UNCHANGED <<work, writer, leftOpen>>
    <3>1. spoiled' = spoiled /\ handed' = IF s = 0 THEN handed \ {i} ELSE handed
      BY <1>5, <1>26, <2>6 DEF UpdateStatus, history
    <3>2. Claims(disk, work, None, pc, arg, handed, robbed, spoiled)
      BY <1>2, <2>3
    <3>3. Claims(WithStatus(disk, i, s), work, None, pc, arg,
                 IF s = 0 THEN handed \ {i} ELSE handed, robbed, spoiled)
      BY <1>4, <2>1, <2>3, <3>2, ClaimsReset
    <3> QED
      BY <2>1, <2>4, <2>6, <3>1, <3>3
  <2>7. View(t[1]) = IF writer = t[1] THEN work ELSE disk
    BY DEF View
  <2> QED
    BY <1>4, <2>1, <2>5, <2>6, <2>7 DEF Write
<1>27. ASSUME NEW p \in Processes, Close(p)
       PROVE  Now
  <2>1. /\ \A t \in Threads : t[1] = p => pc[t] = "idle"
        /\ \A t \in Threads : /\ pc'[t] = IF t[1] = p THEN "idle" ELSE pc[t]
                              /\ arg'[t] = IF t[1] = p THEN None ELSE arg[t]
        /\ robbed' = {t \in robbed : t[1] # p}
        /\ UNCHANGED <<disk, handed, spoiled>>
        /\ IF writer = p THEN writer' = None ELSE UNCHANGED <<work, writer, leftOpen>>
    BY <1>27 DEF Close, Disconnect, ThreadsOf
  <2>2. Alike /\ Apart
    BY <2>1 DEF Owns
  <2>3. CASE writer = p
    BY <1>9, <1>13, <2>1, <2>2, <2>3
  <2>4. CASE writer # p
    BY <1>11, <2>1, <2>2, <2>4
  <2> QED
    BY <2>3, <2>4
<1>28. ASSUME NEW p \in Processes, Crash(p)
       PROVE  Now
  <2>1. \A t \in Threads : /\ pc'[t] = IF t[1] = p THEN "idle" ELSE pc[t]
                           /\ arg'[t] = IF t[1] = p THEN None ELSE arg[t]
    BY <1>28 DEF Crash, Disconnect
  <2>2. handed' = handed \cup UNION {InHand(t) : t \in ThreadsOf(p)}
    BY <1>28 DEF Crash
  <2>3. /\ disk' = disk /\ spoiled' = spoiled /\ robbed' = {t \in robbed : t[1] # p}
        /\ \/ writer = p /\ Owner' = None
           \/ writer # p /\ work' = work /\ Owner' = Owner
    BY <1>9, <1>28 DEF Crash, Disconnect
  (* What the program had claimed is lost in the crash, not held by another. *)
  <2>4. \A i : i \in handed' <=>
           \/ i \in handed
           \/ i \in Ids /\ Running(disk, i)
                 /\ \E t \in Threads : t[1] = p /\ pc[t] = "claimed" /\ arg[t] = i
    BY <2>2 DEF InHand, ThreadsOf, Running
  <2>5. \A i : HeldBy(pc', arg', handed', i) => HeldBy(pc, arg, handed, i)
    BY <2>1, <2>4 DEF HeldBy
  <2>6. \A i \in Ids : HeldBy(pc, arg, handed, i) /\ Running(disk, i) =>
                          HeldBy(pc', arg', handed', i)
    BY <2>1, <2>4 DEF HeldBy
  <2>7. ASSUME NEW i \in Ids \ spoiled, Owner # None, Running(work, i),
               HeldBy(pc, arg, handed, i)
        PROVE  Running(disk, i)
    <3>1. Taken(disk, i) /\ writer # None
      BY <1>2, <1>9, <2>7 DEF Claims
    <3>2. i \in DOMAIN disk.requests /\ work.requests[i].key \in {disk.requests[i].key, Gone}
      BY <1>5, <3>1 DEF Taken, Extends
    <3>3. disk.requests[i].key # Gone
      BY <2>7, <3>2 DEF Running, Exists
    <3> QED
      BY <3>1, <3>2, <3>3 DEF Taken, Exists
  <2>8. \A t \in Threads : pc'[t] = "claimed" /\ arg'[t] \notin spoiled => arg'[t] \notin handed'
    <3> SUFFICES ASSUME NEW t \in Threads, pc'[t] = "claimed", arg'[t] \notin spoiled,
                        arg'[t] \in handed'
                 PROVE  FALSE
      OBVIOUS
    <3>1. t[1] # p /\ pc[t] = "claimed" /\ arg'[t] = arg[t]
      BY <2>1
    <3>2. arg[t] \notin handed
      BY <1>2, <3>1 DEF Claims
    <3>3. PICK u \in Threads : u[1] = p /\ pc[u] = "claimed" /\ arg[u] = arg[t]
      BY <2>4, <3>1, <3>2
    <3> QED
      BY <1>2, <3>1, <3>3 DEF Claims
  <2>9. \A t \in Threads : pc'[t] # "idle" => t[1] # p /\ pc'[t] = pc[t] /\ arg'[t] = arg[t]
    BY <2>1
  <2>10. \A t, u \in Threads :
            pc'[t] = "claimed" /\ pc'[u] = "claimed" /\ arg'[t] = arg'[u] =>
                t = u \/ arg'[t] \in spoiled
    BY <1>2, <2>9 DEF Claims
  <2>11. ASSUME NEW t \in Threads, Owns(pc', robbed', t)
         PROVE  /\ Owns(pc, robbed, t) /\ pc'[t] = pc[t] /\ arg'[t] = arg[t]
                /\ work' = work /\ Owner' = Owner
    <3>1. Owns(pc, robbed, t) /\ pc'[t] = pc[t] /\ arg'[t] = arg[t]
      BY <2>3, <2>9, <2>11 DEF Owns
    <3> QED
      BY <1>7, <2>3, <2>11, <3>1
  <2>12. ASSUME NEW t \in Threads, Owns(pc, robbed, t), writer # p
         PROVE  Owns(pc', robbed', t) /\ pc'[t] = pc[t] /\ arg'[t] = arg[t]
    BY <1>6, <2>1, <2>3, <2>12 DEF Owns
  <2>13. ASSUME NEW t \in Threads
         PROVE  /\ Owns(pc', robbed', t) /\ pc'[t] \in {"selected", "updated"} =>
                      arg'[t] \in DOMAIN work'.requests
                      /\ (arg'[t] \notin spoiled => ~ HeldBy(pc', arg', handed', arg'[t]))
                /\ Owns(pc', robbed', t) /\ pc'[t] = "updated" => Taken(work', arg'[t])
    BY <1>2, <2>5, <2>11 DEF Claims
  <2>14. ASSUME NEW i \in Ids \ spoiled
         PROVE  /\ HeldBy(pc', arg', handed', i) =>
                      Taken(disk, i) /\ (Owner' # None => Taken(work', i))
                /\ Running(disk, i) => HeldBy(pc', arg', handed', i)
    BY <1>2, <2>3, <2>5, <2>6 DEF Claims
  <2>15. ASSUME NEW i \in Ids \ spoiled, Owner' # None, Running(work', i)
         PROVE  \/ HeldBy(pc', arg', handed', i)
                \/ \E t \in Threads : /\ Owns(pc', robbed', t)
                                      /\ pc'[t] = "updated" /\ arg'[t] = i
    <3>1. writer # p /\ Owner # None /\ Running(work, i)
      BY <2>3, <2>15
    <3>2. \/ HeldBy(pc, arg, handed, i)
          \/ \E t \in Threads : Owns(pc, robbed, t) /\ pc[t] = "updated" /\ arg[t] = i
      BY <1>2, <3>1 DEF Claims
    <3> QED
      BY <2>6, <2>7, <2>12, <3>1, <3>2
  <2> QED
    BY <2>3, <2>8, <2>10, <2>13, <2>14, <2>15 DEF Claims
<1>29. CASE UNCHANGED vars
  <2>1. Apart /\ UNCHANGED <<disk, work, writer, leftOpen, handed, spoiled>>
    BY <1>29 DEF vars, database, history
  <2> QED
    BY <1>11, <2>1
<1>30. CASE Next
  BY <1>17, <1>18, <1>19, <1>21, <1>22, <1>23, <1>24, <1>25, <1>26, <1>27, <1>28, <1>30
     DEF Next, ClaimStep
<1> QED
  BY <1>29, <1>30

-----------------------------------------------------------------------------
(* Theorems                                                                  *)

LEMMA DbStep ==
    ASSUME DbInv, [Next]_vars
    PROVE  DbInv' /\ Kept
<1>1. TypeOK /\ PlaceInv /\ TablesInv /\ AnswersInv /\ TransactionHasItsClaim /\ RobbedInv
  BY DEF DbInv
<1>2. UNCHANGED database \/ \E p \in Processes : Change(p)
  BY <1>1, EveryChange
<1>3. Kept
  BY <1>1, <1>2, ChangeKeeps
<1>4. /\ pc' \in [Threads -> Labels] /\ arg' \in [Threads -> Values]
      /\ PlaceInv'
  BY <1>1, PlaceNext
<1>5. told' \in [Processes -> SUBSET Told] /\ AcknowledgedIsDurable'
  BY <1>1, <1>2, <1>3, ToldNext
<1>6. /\ handed' \subseteq Ids /\ robbed' \subseteq Threads /\ spoiled' \subseteq Ids
      /\ unchecked' \subseteq Writers
  BY <1>1, HistoryNext
<1>7. TypeOK'
  BY <1>3, <1>4, <1>5, <1>6 DEF TypeOK, Kept, Labels, Values
<1>8. TablesInv'
  BY <1>3 DEF Kept, TablesInv
<1>9. AnswersInv'
  <2>1. ASSUME writer' # None, Checked(writer)'
        PROVE  NoNewOrphans(work', disk')
    <3>1. writer' \in Processes
      BY <1>3, <2>1 DEF Kept
    <3>2. writer' \notin unchecked
      BY <1>1, <2>1, <3>1, CheckedStays DEF Checked
    <3> QED
      BY <1>3, <2>1, <3>2 DEF Kept
  <2> QED
    BY <1>3, <1>5, <2>1 DEF AnswersInv, Kept, SureFound, Found, NoNewOrphans, Refers, Exists
<1>10. TransactionHasItsClaim'
  BY <1>1, <1>3, TransactionNext
<1>11. RobbedInv'
  BY <1>1, RobbedNext
<1>12. ClaimInv'
  BY ClaimNext
<1> QED
  BY <1>3, <1>4, <1>7, <1>8, <1>9, <1>10, <1>11, <1>12 DEF DbInv

(* However the two threads of any number of programs interleave their        *)
(* statements on one file, with foreign keys or without, and whatever fails  *)
(* or crashes: the types hold, the file only grows under a transaction, what *)
(* was reported as saved is there, and claims exclude one another on every   *)
(* request that no failed COMMIT was about                                   *)
(* (db_manager.c:8-22, 147-461, worker.c:326-352).                           *)
THEOREM DbInvariant == Spec => []DbInv
<1>1. Init => DbInv
  <2> SUFFICES ASSUME Init
               PROVE  DbInv
    OBVIOUS
  <2>1. TypeOK
    BY EmptyTable DEF Init, TypeOK
  <2>2. TablesInv
    BY EmptyTable, DbAssumption DEF Init, TablesInv
  <2>3. PlaceInv /\ TransactionHasItsClaim /\ RobbedInv
    BY DEF Init, PlaceInv, TransactionHasItsClaim, RobbedInv, InItsTransaction,
           InTransaction, Claiming, Clearing
  <2>4. AnswersInv
    BY EmptyTable DEF Init, AnswersInv, AcknowledgedIsDurable, SureFound
  <2>5. \A i : ~ Held(i) /\ ~ Running(disk, i) /\ ~ Running(work, i)
    BY NothingRuns DEF Init, Held
  <2>6. \A t \in Threads : pc[t] # "claimed" /\ ~ InItsTransaction(t)
    BY DEF Init, InItsTransaction, InTransaction, Claiming
  <2>7. ClaimInv
    BY <2>5, <2>6 DEF ClaimInv
  <2> QED
    BY <2>1, <2>2, <2>3, <2>4, <2>7 DEF DbInv
<1>2. DbInv /\ [Next]_vars => DbInv'
  BY DbStep
<1> QED
  BY <1>1, <1>2, PTL DEF Spec

(* A save that was reported stays under the id it was reported with, in the  *)
(* file or in the transaction it fell into, whatever threads, programs and   *)
(* crashes do after it, and so does the request of every response to it      *)
(* (db_manager.c:147-306).                                                   *)
THEOREM DbAcknowledgedIsDurable == Spec => []AcknowledgedIsDurable
<1>1. DbInv => AcknowledgedIsDurable
  BY DEF DbInv, AnswersInv
<1> QED
  BY <1>1, DbInvariant, PTL

(* As long as no program that writes runs without foreign keys, no change of *)
(* the file adds a response without its request or deletes the request from  *)
(* under one (db_manager.c:18-22, 67-80, 309-364, 612-619).                  *)
THEOREM DbResponsesFindTheirRequest == Spec => ResponsesFindTheirRequest
<1>1. DbInv /\ [Next]_vars => [unchecked = {} => NoNewOrphans(disk', disk)]_disk
  BY DbStep DEF Kept
<1> QED
  BY <1>1, DbInvariant, PTL DEF Spec, ResponsesFindTheirRequest

(* No request is left marked as running that nobody was given, but for those *)
(* whose own COMMIT failed (db_manager.c:407-461).                           *)
THEOREM DbClaimsAreAccountedFor == Spec => []ClaimsAreAccountedFor
<1>1. DbInv => ClaimsAreAccountedFor
  <2> SUFFICES ASSUME DbInv, NEW i \in DOMAIN disk.requests \ spoiled,
                      disk.requests[i].status = 1, Exists(disk, i)
               PROVE  i \in handed \/ \E t \in Threads : i \in InHand(t)
    BY DEF ClaimsAreAccountedFor
  <2>1. ClaimInv /\ disk \in Tables /\ Len(disk.requests) <= MaxRows
    BY DEF DbInv, TypeOK, TablesInv
  <2>2. i \in Ids /\ Running(disk, i)
    BY <2>1, TableRows, DbAssumption DEF Ids, Running
  <2>3. Held(i)
    BY <2>1, <2>2 DEF ClaimInv
  <2> QED
    BY <2>2, <2>3 DEF Held, InHand
<1> QED
  BY <1>1, DbInvariant, PTL

(* Programs that share a file never hand out the same pending request twice, *)
(* whatever COMMITs of other claims fail (db_manager.c:412-455).             *)
THEOREM DbHandedOutOnce == Spec => []HandedOutOnce
<1>1. DbInv => HandedOutOnce
  <2> SUFFICES ASSUME DbInv, NEW t \in Threads, pc[t] = "claimed", arg[t] \notin spoiled
               PROVE  /\ arg[t] \notin handed
                      /\ \A u \in Threads \ {t} : pc[u] = "claimed" => arg[u] # arg[t]
    BY DEF HandedOutOnce
  <2>1. ClaimInv
    BY DEF DbInv
  <2> QED
    BY <2>1 DEF ClaimInv
<1> QED
  BY <1>1, DbInvariant, PTL

(* The write lock is given back on every path out of a claim, unless the     *)
(* COMMIT of that very transaction failed (db_manager.c:428-460).            *)
THEOREM DbTransactionHasItsClaim == Spec => []TransactionHasItsClaim
<1>1. DbInv => TransactionHasItsClaim
  BY DEF DbInv
<1> QED
  BY <1>1, DbInvariant, PTL

-----------------------------------------------------------------------------
(* The open transaction: what a claim and the saves that fall into it add    *)

(* Rows are added and no row is changed. *)
Adds(U, T) ==
    /\ Len(T.requests) <= Len(U.requests)
    /\ \A i \in DOMAIN T.requests : U.requests[i] = T.requests[i]
    /\ \A i \in DOMAIN U.requests \ DOMAIN T.requests :
          U.requests[i].key # Gone /\ U.requests[i].status = 0

LEMMA AddsNothing ==
    ASSUME NEW T \in Tables, NEW U \in Tables, U.requests = T.requests
    PROVE  Adds(U, T)
  BY TableRows DEF Adds

(* A save adds a row or none, inside the transaction or outside. *)
LEMMA SaveAdds ==
    ASSUME TypeOK, TablesInv, AnswersInv, NEW t \in Threads, SaveStep(t)
    PROVE  \/ UNCHANGED <<disk, work, writer, leftOpen, robbed>>
           \/ Rollback(t[1])
           \/ /\ \E U \in Tables : Adds(U, View(t[1])) /\ Write(t[1], U)
              /\ UNCHANGED robbed
<1> DEFINE p == t[1]  V == View(p)
<1>1. p \in Processes
  BY DbAssumption
<1>2. V \in Tables
  BY <1>1, ViewSound
<1> HIDE DEF p, V
<1>3. CASE SaveCollection(t)
  <2> DEFINE U == [V EXCEPT !.collection = TRUE]
  <2>1. Write(p, U) /\ UNCHANGED robbed
    BY <1>3 DEF SaveCollection, history, p, V
  <2>2. U \in Tables /\ U.requests = V.requests
    BY <1>2, CollectionTable
  <2> HIDE DEF U
  <2> QED
    BY <1>2, <2>1, <2>2, AddsNothing DEF p, V
<1>4. ASSUME NEW key \in Keys, InsertRequest(t, key)
      PROVE  (\E U \in Tables : Adds(U, V) /\ Write(p, U)) /\ UNCHANGED robbed
  <2>1. CASE IdsOf(V, key) # {}
    <3>1. Write(p, V) /\ UNCHANGED robbed
      BY <1>4, <2>1 DEF InsertRequest, history, p, V
    <3> QED
      BY <1>2, <3>1, AddsNothing
  <2>2. CASE IdsOf(V, key) = {}
    <3> DEFINE row == [key |-> key, status |-> 0]
               U == [V EXCEPT !.requests = Append(@, row)]
    <3>1. Write(p, U) /\ UNCHANGED robbed
      BY <1>4, <2>2 DEF InsertRequest, history, p, V
    <3>2. /\ U \in Tables
          /\ Len(U.requests) = Len(V.requests) + 1
          /\ U.requests[Len(V.requests) + 1] = row
          /\ \A i \in DOMAIN V.requests : U.requests[i] = V.requests[i]
      BY <1>2, AppendTable
    <3>3. row.key # Gone /\ row.status = 0
      BY DbAssumption
    <3> HIDE DEF U, row
    <3>4. \A i \in DOMAIN U.requests \ DOMAIN V.requests : i = Len(V.requests) + 1
      BY <1>2, <3>2, TableRows
    <3>5. Len(V.requests) <= Len(U.requests)
      BY <1>2, <3>2, TableRows
    <3> QED
      BY <3>1, <3>2, <3>3, <3>4, <3>5 DEF Adds
  <2> QED
    BY <2>1, <2>2
<1>5. CASE SelectRequest(t)
  BY <1>5 DEF SelectRequest, Tell, history
<1>6. CASE StatementFails(t)
  <2>1. UNCHANGED database => UNCHANGED <<disk, work, writer, leftOpen, robbed>>
    BY <1>6 DEF StatementFails, database
  <2> QED
    BY <1>6, <2>1 DEF StatementFails, Fails, p
<1>7. ASSUME NEW answer \in told[p], InsertResponse(t, answer)
      PROVE  (\E U \in Tables : Adds(U, V) /\ Write(p, U)) /\ UNCHANGED robbed
  <2> DEFINE row == ResponseRow(answer)
             U == [V EXCEPT !.responses = @ \cup {row}]
  <2>1. Write(p, U) /\ UNCHANGED robbed
    BY <1>7 DEF InsertResponse, history, p, V
  <2>2. row \in Answers
    BY <1>1, ToldIsFound
  <2>3. V.responses \cup {row} \in SUBSET Answers
    BY <1>2, <2>2, TableRows
  <2>4. U = [V EXCEPT !.responses = V.responses \cup {row}]
    OBVIOUS
  <2>5. U \in Tables /\ U.requests = V.requests
    BY <1>2, <2>3, <2>4, ResponseTable
  <2> HIDE DEF U
  <2> QED
    BY <1>2, <2>1, <2>5, AddsNothing
<1> QED
  BY <1>3, <1>4, <1>5, <1>6, <1>7 DEF SaveStep, p, V

(* Nothing but saves and its own claim uses a transaction, unless it was     *)
(* left open: who clears the tables or updates a status has no claim.        *)
LEMMA OthersWait ==
    ASSUME DbInv, NEW t \in Threads,
           \/ ClearStep(t)
           \/ pc[t] = "idle" /\ "status" \in Calls[t]
    PROVE  writer # t[1] \/ leftOpen
<1> SUFFICES ASSUME writer = t[1], ~ leftOpen
             PROVE  FALSE
  OBVIOUS
<1>1. PICK u \in Threads : u[1] = t[1] /\ pc[u] \in Claiming
  <2>1. t[1] # None
    BY DbAssumption
  <2> QED
    BY <2>1 DEF DbInv, TransactionHasItsClaim, ThreadsOf
<1> QED
  BY <1>1, OneCaller DEF DbInv

Choosing(t) == InItsTransaction(t) /\ pc[t] = "selected"
Updating(t) == InItsTransaction(t) /\ pc[t] = "updated"

(* TransactionInv, said with these two. *)
LEMMA TransactionNow ==
    TransactionInv <=>
       /\ Owner # None => \A i \in DOMAIN work.requests : RowInWork(i)
       /\ \A t \in Threads :
             /\ Choosing(t) => Exists(work, arg[t]) /\ work.requests[arg[t]].status = 0
             /\ Updating(t) => Exists(work, arg[t])
  BY DEF TransactionInv, Choosing, Updating

(* Outside a transaction of a claim there is nothing to say. *)
LEMMA NoTransaction ==
    ASSUME DbInv', Owner' = None
    PROVE  TransactionInv'
<1>1. RobbedInv'
  BY DEF DbInv
<1>2. \A t \in Threads : t[1] # None
  BY DbAssumption
<1>3. \A t \in Threads : ~ InItsTransaction(t)'
  BY <1>1, <1>2 DEF RobbedInv
<1> QED
  BY <1>3 DEF TransactionInv

(* The tables stay, and so do the claims that have updated their row. *)
LEMMA TransactionStays ==
    ASSUME TransactionInv, UNCHANGED <<disk, work>>, Owner' = Owner,
           \A t \in Threads :
              /\ Updating(t)' <=> Updating(t)
              /\ Updating(t) => arg'[t] = arg[t]
              /\ Choosing(t)' =>
                    Exists(work, arg'[t]) /\ work.requests[arg'[t]].status = 0
    PROVE  TransactionInv'
<1>1. ASSUME NEW i
      PROVE  (\E t \in Threads : Updating(t)' /\ arg'[t] = i)
                <=> \E t \in Threads : Updating(t) /\ arg[t] = i
  OBVIOUS
<1>2. \A i : RowInWork(i)' <=> RowInWork(i)
  BY <1>1 DEF RowInWork, Updating
<1> QED
  BY <1>2 DEF TransactionInv, Exists, Choosing, Updating

(* A save of the other thread falls into the transaction. *)
LEMMA TransactionGrows ==
    ASSUME TransactionInv, disk \in Tables, work \in Tables, Extends(work, disk),
           UNCHANGED disk, Owner' = Owner, Owner # None, work' \in Tables, Adds(work', work),
           \A t \in Threads :
              /\ Updating(t)' <=> Updating(t)
              /\ Choosing(t)' <=> Choosing(t)
              /\ Updating(t) \/ Choosing(t) => arg'[t] = arg[t]
    PROVE  TransactionInv'
<1>1. /\ DOMAIN disk.requests \subseteq DOMAIN work.requests
      /\ DOMAIN work.requests \subseteq DOMAIN work'.requests
      /\ \A i \in DOMAIN work.requests : work'.requests[i] = work.requests[i]
      /\ \A i \in DOMAIN work'.requests \ DOMAIN work.requests :
            work'.requests[i].key # Gone /\ work'.requests[i].status = 0
  BY TableRows DEF Adds, Extends
<1>2. \A t \in Threads : Updating(t) => arg[t] \in DOMAIN work.requests
  BY DEF TransactionInv, Exists, Updating
<1>3. ASSUME NEW i
      PROVE  (\E t \in Threads : Updating(t)' /\ arg'[t] = i)
                <=> \E t \in Threads : Updating(t) /\ arg[t] = i
  OBVIOUS
<1>4. ASSUME NEW i \in DOMAIN work.requests
      PROVE  RowInWork(i)'
  <2>1. RowInWork(i) /\ work'.requests[i] = work.requests[i]
    BY <1>1 DEF TransactionInv
  <2> QED
    BY <1>3, <2>1 DEF RowInWork, Updating
<1>5. ASSUME NEW i \in DOMAIN work'.requests \ DOMAIN work.requests
      PROVE  RowInWork(i)'
  <2>1. ~ \E t \in Threads : Updating(t)' /\ arg'[t] = i
    BY <1>2, <1>3
  <2>2. i \notin DOMAIN disk.requests
        /\ work'.requests[i].key # Gone /\ work'.requests[i].status = 0
    BY <1>1
  <2> QED
    BY <2>1, <2>2 DEF RowInWork, Updating
<1>6. \A j : Exists(work, j) =>
         Exists(work', j) /\ work'.requests[j] = work.requests[j]
  BY <1>1 DEF Exists
<1>7. \A i \in DOMAIN work'.requests : RowInWork(i)'
  BY <1>4, <1>5
<1>8. ASSUME NEW t \in Threads, InItsTransaction(t)'
      PROVE  /\ pc'[t] = "selected" =>
                   Exists(work', arg'[t]) /\ work'.requests[arg'[t]].status = 0
             /\ pc'[t] = "updated" => Exists(work', arg'[t])
  <2>1. CASE pc'[t] = "selected"
    BY <1>6, <1>8, <2>1, TransactionNow DEF Choosing
  <2>2. CASE pc'[t] = "updated"
    BY <1>6, <1>8, <2>2, TransactionNow DEF Updating
  <2> QED
    BY <2>1, <2>2
<1> QED
  BY <1>7, <1>8 DEF TransactionInv, Exists

(* BEGIN IMMEDIATE *)
LEMMA TransactionBegins ==
    ASSUME disk \in Tables, work' = disk, UNCHANGED disk,
           \A t \in Threads : ~ Choosing(t)' /\ ~ Updating(t)'
    PROVE  TransactionInv'
<1>1. \A i \in DOMAIN work'.requests : RowInWork(i)'
  BY DEF RowInWork, Updating
<1> QED
  BY <1>1 DEF TransactionInv, Choosing, Updating

(* The row of the claim is marked as running. *)
LEMMA TransactionUpdates ==
    ASSUME TransactionInv, disk \in Tables, work \in Tables, NEW t \in Threads,
           Owner # None, Owner' = Owner, UNCHANGED disk,
           Choosing(t), work' = WithStatus(work, arg[t], 1),
           \A u \in Threads \ {t} : ~ Choosing(u) /\ ~ Updating(u),
           \A u \in Threads \ {t} : ~ Choosing(u)' /\ ~ Updating(u)',
           Updating(t)', arg'[t] = arg[t]
    PROVE  TransactionInv'
<1> DEFINE r == arg[t]
<1>1. ~ Updating(t) /\ ~ Choosing(t)'
  BY DEF Updating, Choosing
<1>2. Exists(work, r) /\ work.requests[r].status = 0
  BY TransactionNow
<1>3. /\ Len(work'.requests) = Len(work.requests) /\ work' \in Tables
      /\ \A j \in DOMAIN work.requests :
            /\ work'.requests[j].key = work.requests[j].key
            /\ work'.requests[j].status = IF j = r THEN 1 ELSE work.requests[j].status
  BY <1>2, StatusTable
<1>4. DOMAIN work'.requests = DOMAIN work.requests
  BY <1>3, TableRows
<1>5. \A u \in Threads : ~ Updating(u)
  BY <1>1
<1>6. \A i : (\E u \in Threads : Updating(u)' /\ arg'[u] = i) <=> i = r
  OBVIOUS
<1>7. ASSUME NEW i \in DOMAIN work'.requests
      PROVE  RowInWork(i)'
  <2>1. RowInWork(i)
    BY <1>4 DEF TransactionInv
  <2>2. ~ \E u \in Threads : Updating(u) /\ arg[u] = i
    BY <1>5
  <2> HIDE DEF r
  <2>3. i \in DOMAIN work.requests /\ (i = r => work.requests[i].status = 0)
    BY <1>2, <1>4
  <2>4. /\ IF i \notin DOMAIN disk.requests THEN work.requests[i].key # Gone
                 ELSE work.requests[i].key = disk.requests[i].key
        /\ work.requests[i].status =
              IF i \notin DOMAIN disk.requests THEN 0 ELSE disk.requests[i].status
    BY <2>1, <2>2 DEF RowInWork, Updating
  <2>5. /\ work'.requests[i].key = work.requests[i].key
        /\ work'.requests[i].status = IF i = r THEN 1 ELSE work.requests[i].status
    BY <1>3, <2>3
  <2>6. CASE i = r
    BY <1>6, <2>3, <2>4, <2>5, <2>6 DEF RowInWork, Updating
  <2>7. CASE i # r
    BY <1>6, <2>3, <2>4, <2>5, <2>7 DEF RowInWork, Updating
  <2> QED
    BY <2>6, <2>7
<1>8. Exists(work', r)
  BY <1>2, <1>3, <1>4 DEF Exists
<1> HIDE DEF r
<1>9. ASSUME NEW u \in Threads, InItsTransaction(u)'
      PROVE  pc'[u] # "selected" /\ (pc'[u] = "updated" => Exists(work', arg'[u]))
  BY <1>1, <1>8, <1>9 DEF Choosing, Updating, r
<1> QED
  BY <1>7, <1>9 DEF TransactionInv, Exists


(* Every step keeps the transaction to what TransactionInv says of it.       *)
LEMMA WorkNext ==
    ASSUME DbInv, DbInv', Kept, TransactionInv, [Next]_vars
    PROVE  TransactionInv'
<1>1. TypeOK /\ PlaceInv /\ TablesInv /\ AnswersInv /\ RobbedInv /\ RobbedInv'
  BY DEF DbInv
<1>2. /\ disk \in Tables /\ work \in Tables /\ work' \in Tables
      /\ writer \in Processes \cup {None}
      /\ pc \in [Threads -> Labels] /\ arg \in [Threads -> Values]
      /\ None \notin Processes /\ \A t \in Threads : t[1] \in Processes
      /\ writer # None => Extends(work, disk)
  BY <1>1, DbAssumption DEF DbInv, Kept, TypeOK, Labels, Values, TablesInv
<1>3. SUFFICES ASSUME Owner' # None
               PROVE  TransactionInv'
  BY NoTransaction
<1>4. writer' # None /\ leftOpen' # TRUE /\ ~ leftOpen /\ Owner' = writer'
  BY <1>3 DEF Kept, Owner
<1>5. /\ writer' = writer => Owner' = Owner /\ Owner = writer /\ Owner # None
      /\ \A p \in Processes : ~ Rollback(p) /\ ~ Committed(p) /\ ~ CommitFails(p)
  BY <1>4 DEF Owner, Rollback, Committed, CommitFails, EndTransaction
<1>6. \A t \in Threads : Choosing(t) \/ Updating(t) => Owner = t[1] /\ writer = t[1]
  BY <1>1, <1>4 DEF RobbedInv, Choosing, Updating, Owner
<1>7. ASSUME NEW t \in Threads, NEW label, NEW value, Goto(t, label, value)
      PROVE  /\ pc'[t] = label /\ arg'[t] = value
             /\ \A u \in Threads \ {t} : pc'[u] = pc[u] /\ arg'[u] = arg[u]
  BY <1>2, <1>7 DEF Goto
<1>8. ASSUME NEW p \in Processes, Fails(p)
      PROVE  UNCHANGED <<disk, work, writer, leftOpen>>
  BY <1>5, <1>8 DEF Fails, database
(* Only places change, and no claim begins to hold a row. *)
<1> DEFINE Apart == \A t \in Threads :
              \/ pc'[t] = pc[t] /\ arg'[t] = arg[t] /\ (t \in robbed' <=> t \in robbed)
              \/ ~ Updating(t) /\ pc'[t] \notin {"selected", "updated"}
<1>9. ASSUME UNCHANGED <<disk, work, writer, leftOpen>>, Apart
      PROVE  TransactionInv'
  <2>1. ASSUME NEW t \in Threads
        PROVE  /\ Updating(t)' <=> Updating(t)
               /\ Updating(t) => arg'[t] = arg[t]
               /\ Choosing(t)' => Choosing(t) /\ arg'[t] = arg[t]
    BY <1>9 DEF Updating, Choosing, InItsTransaction
  <2>2. \A t \in Threads :
           Choosing(t)' => Exists(work, arg'[t]) /\ work.requests[arg'[t]].status = 0
    BY <2>1, TransactionNow
  <2> QED
    BY <1>5, <1>9, <2>1, <2>2, TransactionStays
<1>10. ASSUME NEW t \in Threads, NEW label, label \notin {"selected", "updated"}, NEW value,
             UNCHANGED <<disk, work, writer, leftOpen>>, robbed' \in {robbed, robbed \ {t}},
             ~ Updating(t), Goto(t, label, value)
      PROVE  TransactionInv'
  <2>1. Apart
    BY <1>7, <1>10
  <2> QED
    BY <1>9, <1>10, <2>1
<1>11. ASSUME NEW t \in Threads, SaveStep(t)
       PROVE  TransactionInv'
  <2>1. \/ UNCHANGED <<pc, arg>>
        \/ /\ pc[t] \in {"idle", "inserted"}
           /\ \E label \in {"idle", "inserted"} : \E value : Goto(t, label, value)
    BY <1>11 DEF SaveStep, SaveCollection, InsertRequest, SelectRequest, StatementFails,
                 InsertResponse, Tell, MayCall, Return
  <2>2. \A u \in Threads : \/ pc'[u] = pc[u] /\ arg'[u] = arg[u]
                           \/ /\ pc[u] \notin {"selected", "updated"}
                              /\ pc'[u] \notin {"selected", "updated"}
    BY <1>7, <2>1
  <2>3. CASE UNCHANGED <<disk, work, writer, leftOpen, robbed>>
    <3>1. Apart
      BY <2>2, <2>3 DEF Updating
    <3> QED
      BY <1>9, <2>3, <3>1
  <2>4. ASSUME NEW U \in Tables, Adds(U, View(t[1])), Write(t[1], U), UNCHANGED robbed
        PROVE  TransactionInv'
    <3>1. writer = t[1] /\ work' = U /\ UNCHANGED <<disk, writer>>
      BY <1>4, <2>4 DEF Write
    <3>2. View(t[1]) = work /\ writer # None
      BY <1>2, <3>1 DEF View
    <3>3. \A u \in Threads :
             /\ Updating(u)' <=> Updating(u)
             /\ Choosing(u)' <=> Choosing(u)
             /\ Updating(u) \/ Choosing(u) => arg'[u] = arg[u]
      BY <2>2, <2>4 DEF Updating, Choosing, InItsTransaction
    <3> QED
      BY <1>2, <1>5, <2>4, <3>1, <3>2, <3>3, TransactionGrows
  <2>5. ~ Rollback(t[1])
    BY <1>2, <1>5
  <2> QED
    BY <1>1, <1>11, <2>3, <2>4, <2>5, SaveAdds
<1>12. ASSUME NEW t \in Threads, Begin(t)
       PROVE  TransactionInv'
  <2>1. /\ work' = disk /\ UNCHANGED disk /\ writer = None /\ Goto(t, "begun", None)
        /\ UNCHANGED robbed
    BY <1>12 DEF Begin, history
  <2>2. \A u \in Threads : ~ Choosing(u) /\ ~ Updating(u)
    BY <1>2, <1>6, <2>1
  <2>3. \A u \in Threads : ~ Choosing(u)' /\ ~ Updating(u)'
    BY <1>7, <2>1, <2>2 DEF Choosing, Updating, InItsTransaction
  <2> QED
    BY <1>2, <2>1, <2>3, TransactionBegins
<1>13. ASSUME NEW t \in Threads, ClaimSelect(t)
       PROVE  TransactionInv'
  <2>1. pc[t] = "begun" /\ UNCHANGED robbed /\ ~ Updating(t)
    BY <1>13 DEF ClaimSelect, history, Updating
  <2>2. CASE Fails(t[1]) /\ Goto(t, "failed", None)
    BY <1>2, <1>8, <1>10, <2>1, <2>2
  <2>3. ASSUME NEW i \in Pending(t[1]), Goto(t, "selected", i), UNCHANGED database
        PROVE  TransactionInv'
    <3>1. UNCHANGED <<disk, work, writer, leftOpen>>
      BY <2>3 DEF database
    <3>2. Choosing(t)' => Exists(work, i) /\ work.requests[i].status = 0
      <4> SUFFICES ASSUME Choosing(t)'
                   PROVE  Exists(work, i) /\ work.requests[i].status = 0
        OBVIOUS
      <4>1. Owner' = t[1]
        BY <1>1 DEF RobbedInv, Choosing
      <4>2. View(t[1]) = work
        BY <1>4, <3>1, <4>1 DEF View
      <4> QED
        BY <2>3, <4>2 DEF Pending
    <3>3. /\ pc'[t] = "selected" /\ arg'[t] = i
          /\ \A u \in Threads \ {t} : pc'[u] = pc[u] /\ arg'[u] = arg[u]
      BY <1>7, <2>3
    <3>4. ASSUME NEW u \in Threads
          PROVE  /\ Updating(u)' <=> Updating(u)
                 /\ Updating(u) => arg'[u] = arg[u]
                 /\ Choosing(u)' =>
                       Exists(work, arg'[u]) /\ work.requests[arg'[u]].status = 0
      <4>1. CASE u = t
        <5>1. ~ Updating(t)' /\ ~ Updating(t)
          BY <2>1, <3>3 DEF Updating
        <5> QED
          BY <3>2, <3>3, <4>1, <5>1
      <4>2. CASE u # t
        <5>1. /\ Updating(u)' <=> Updating(u)
              /\ Choosing(u)' <=> Choosing(u)
          BY <2>1, <3>3, <4>2 DEF Updating, Choosing, InItsTransaction
        <5> QED
          BY <3>3, <4>2, <5>1, TransactionNow
      <4> QED
        BY <4>1, <4>2
    <3> QED
      BY <1>5, <3>1, <3>4, TransactionStays
  <2> QED
    BY <1>13, <2>2, <2>3 DEF ClaimSelect
<1>14. ASSUME NEW t \in Threads, ClaimUpdate(t)
       PROVE  TransactionInv'
  <2>1. pc[t] = "selected" /\ UNCHANGED robbed /\ ~ Updating(t)
    BY <1>14 DEF ClaimUpdate, Updating
  <2>2. CASE Fails(t[1]) /\ Goto(t, "failed", None)
    BY <1>2, <1>8, <1>10, <2>1, <2>2
  <2>3. CASE Write(t[1], WithStatus(View(t[1]), arg[t], 1)) /\ Goto(t, "updated", arg[t])
    <3>1. writer = t[1] /\ View(t[1]) = work /\ UNCHANGED <<disk, writer>>
          /\ work' = WithStatus(work, arg[t], 1)
      BY <1>4, <2>3 DEF Write, View
    <3>2. t \notin robbed
      BY <1>1, <3>1 DEF RobbedInv
    <3>3. Choosing(t) /\ Updating(t)' /\ arg'[t] = arg[t]
      BY <1>7, <2>1, <2>3, <3>2 DEF Choosing, Updating, InItsTransaction, InTransaction,
                                    Claiming
    <3>4. ASSUME NEW u \in Threads \ {t}
          PROVE  ~ Choosing(u) /\ ~ Updating(u)
      <4> SUFFICES ASSUME Choosing(u) \/ Updating(u)
                   PROVE  FALSE
        OBVIOUS
      <4>1. u[1] = t[1] /\ pc[u] \in InClaim /\ pc[t] \in InClaim
        BY <1>6, <2>1, <3>1 DEF Choosing, Updating, InClaim
      <4> QED
        BY <1>1, <4>1, OneClaimer
    <3>5. \A u \in Threads \ {t} : ~ Choosing(u)' /\ ~ Updating(u)'
      BY <1>7, <2>1, <2>3, <3>4 DEF Choosing, Updating, InItsTransaction
    <3> QED
      BY <1>2, <1>5, <3>1, <3>3, <3>4, <3>5, TransactionUpdates
  <2> QED
    BY <1>14, <2>2, <2>3 DEF ClaimUpdate
<1>15. ASSUME NEW t \in Threads, ClaimCommit(t)
       PROVE  TransactionInv'
  <2>1. writer # t[1] /\ UNCHANGED database
    BY <1>2, <1>5, <1>15 DEF ClaimCommit
  <2>2. ~ Updating(t)
    BY <1>6, <2>1
  <2> QED
    BY <1>10, <1>15, <2>1, <2>2 DEF ClaimCommit, database
<1>16. ASSUME NEW t \in Threads, ClaimRollback(t)
       PROVE  TransactionInv'
  <2>1. UNCHANGED database /\ ~ Updating(t)
    BY <1>2, <1>5, <1>16 DEF ClaimRollback, Updating
  <2> QED
    BY <1>10, <1>16, <2>1 DEF ClaimRollback, Return, database
<1>17. ASSUME NEW t \in Threads, Deliver(t)
       PROVE  TransactionInv'
  BY <1>10, <1>17 DEF Deliver, Return, database, Updating
(* Who clears the tables writes to the file, and there is a transaction. *)
<1>18. ASSUME NEW t \in Threads, ClearStep(t)
       PROVE  TransactionInv'
  <2>1. writer # t[1]
    BY <1>4, <1>18, OthersWait
  <2>2. /\ pc[t] \in {"idle", "clear_requests", "clear_collections"}
        /\ \E label \in {"idle", "clear_requests", "clear_collections"} : \E value :
              Goto(t, label, value)
        /\ UNCHANGED robbed
    BY <1>18 DEF ClearStep, ClearResponses, ClearRequests, ClearCollections, MayCall,
                 Return, history
  <2>3. UNCHANGED <<disk, work, writer, leftOpen>>
    <3>1. ~ \E U : Write(t[1], U)
      BY <1>4, <2>1 DEF Write
    <3>2. Fails(t[1])
      BY <1>18, <3>1 DEF ClearStep, ClearResponses, ClearRequests, ClearCollections
    <3> QED
      BY <1>2, <1>8, <3>2
  <2> QED
    BY <1>10, <2>2, <2>3 DEF Updating
<1>19. ASSUME NEW t \in Threads, NEW i \in Ids, NEW s \in {0, 1}, UpdateStatus(t, i, s)
       PROVE  TransactionInv'
  <2>1. pc[t] = "idle" /\ "status" \in Calls[t]
    BY <1>19 DEF UpdateStatus, MayCall
  <2>2. writer # t[1]
    BY <1>4, <2>1, OthersWait
  <2> QED
    BY <1>4, <1>19, <2>2 DEF UpdateStatus, Write
<1>20. ASSUME NEW p \in Processes, Close(p) \/ Crash(p)
       PROVE  TransactionInv'
  <2>1. /\ writer # p /\ UNCHANGED <<disk, work, writer, leftOpen>>
        /\ robbed' = {t \in robbed : t[1] # p}
        /\ \A t \in Threads : /\ pc'[t] = IF t[1] = p THEN "idle" ELSE pc[t]
                              /\ arg'[t] = IF t[1] = p THEN None ELSE arg[t]
    BY <1>4, <1>20 DEF Close, Crash, Disconnect
  <2>2. \A t \in Threads : Updating(t) => t[1] # p
    BY <1>6, <2>1
  <2>3. Apart
    BY <2>1, <2>2
  <2> QED
    BY <1>9, <2>1, <2>3
<1>21. CASE UNCHANGED vars
  BY <1>9, <1>21 DEF vars, database, history
<1>22. CASE Next
  BY <1>11, <1>12, <1>13, <1>14, <1>15, <1>16, <1>17, <1>18, <1>19, <1>20, <1>22
     DEF Next, ClaimStep
<1> QED
  BY <1>21, <1>22

-----------------------------------------------------------------------------
(* The work list: every step is one of its steps, or changes nothing in it   *)

StateIn(T, i) ==
    IF i \notin DOMAIN T.requests THEN "unused"
    ELSE IF T.requests[i].key = Gone THEN "deleted"
    ELSE IF T.requests[i].status = 0 THEN "pending" ELSE "taken"

Listed(T, lost, i) == IF i \in lost THEN "spoiled" ELSE StateIn(T, i)

LEMMA StateNow ==
    ASSUME disk \in Tables, disk' \in Tables
    PROVE  /\ RowStates = [i \in Ids |-> Listed(disk, spoiled, i)]
           /\ RowStates' = [i \in Ids |-> Listed(disk', spoiled', i)]
<1>1. ASSUME NEW T \in Tables, NEW i \in DOMAIN T.requests
      PROVE  T.requests[i].status \in {0, 1}
  BY <1>1, TableRows
<1>2. \A i : StateOf(i) = Listed(disk, spoiled, i)
  BY <1>1 DEF StateOf, Listed, StateIn, Exists, Running
<1>3. \A i : StateOf(i)' = Listed(disk', spoiled', i)
  BY <1>1 DEF StateOf, Listed, StateIn, Exists, Running
<1> QED
  BY <1>2, <1>3 DEF RowStates

LEMMA SameRows ==
    ASSUME disk \in Tables, disk' \in Tables, disk'.requests = disk.requests,
           UNCHANGED spoiled
    PROVE  UNCHANGED RowStates
  BY StateNow DEF Listed, StateIn

LEMMA SameClaims ==
    ASSUME UNCHANGED spoiled,
           \A t \in Threads : /\ pc'[t] = "claimed" <=> pc[t] = "claimed"
                              /\ pc[t] = "claimed" => arg'[t] = arg[t]
    PROVE  UNCHANGED ClaimedIds
  BY DEF ClaimedIds

(* A save outside of any transaction *)
LEMMA ListOffer ==
    ASSUME disk \in Tables, disk' \in Tables, Adds(disk', disk),
           Len(disk'.requests) <= MaxRows, UNCHANGED <<ClaimedIds, spoiled>>
    PROVE  List!Next
<1> DEFINE S == (DOMAIN disk'.requests \ DOMAIN disk.requests) \ spoiled
<1>1. S \in SUBSET Ids
  BY TableRows, DbAssumption DEF Ids
<1>2. DOMAIN disk.requests \subseteq DOMAIN disk'.requests
  BY TableRows DEF Adds
<1>3. \A i \in S : Listed(disk, spoiled, i) = "unused"
                      /\ Listed(disk', spoiled, i) = "pending"
  BY DEF Listed, StateIn, Adds
<1>4. \A i : i \notin S => Listed(disk', spoiled, i) = Listed(disk, spoiled, i)
  BY <1>2 DEF Listed, StateIn, Adds
<1> HIDE DEF S
<1>5. \A i \in S : RowStates[i] = "unused"
  BY <1>1, <1>3, StateNow
<1>6. RowStates' = List!Offered(S)
  BY <1>3, <1>4, StateNow DEF List!Offered
<1>7. List!Offer(S)
  BY <1>5, <1>6 DEF List!Offer
<1> QED
  BY <1>1, <1>7 DEF List!Next

(* COMMIT: of a claim of request r, or of one that is spoiled already. *)
LEMMA ListClaim ==
    ASSUME disk \in Tables, disk' \in Tables, work \in Tables, disk' = work,
           UNCHANGED spoiled,
           Extends(work, disk), Len(work.requests) <= MaxRows,
           NEW r \in DOMAIN work.requests, Exists(work, r),
           \A i \in DOMAIN work.requests : RowInWork(i),
           \A i : (\E t \in Threads : Updating(t) /\ arg[t] = i) <=> i = r,
           ClaimedIds' = ClaimedIds \cup ({r} \ spoiled)
    PROVE  List!Next
<1> DEFINE S == (DOMAIN work.requests \ DOMAIN disk.requests) \ spoiled
<1>1. S \in SUBSET Ids /\ r \in Ids
  BY TableRows, DbAssumption DEF Ids
<1>2. DOMAIN disk.requests \subseteq DOMAIN work.requests
  BY TableRows DEF Extends
<1>3. ASSUME NEW i \in DOMAIN work.requests
      PROVE  /\ IF i \notin DOMAIN disk.requests THEN work.requests[i].key # Gone
                   ELSE work.requests[i].key = disk.requests[i].key
             /\ i # r => work.requests[i].status =
                   IF i \notin DOMAIN disk.requests THEN 0 ELSE disk.requests[i].status
             /\ i = r => /\ work.requests[i].status = 1
                         /\ i \in DOMAIN disk.requests => disk.requests[i].status = 0
  <2>1. RowInWork(i)
    OBVIOUS
  <2>2. CASE i = r
    BY <2>1, <2>2 DEF RowInWork, Updating
  <2>3. CASE i # r
    BY <2>1, <2>3 DEF RowInWork, Updating
  <2> QED
    BY <2>2, <2>3
<1>4. ASSUME NEW i \in S
      PROVE  /\ Listed(disk, spoiled, i) = "unused"
             /\ i # r => Listed(work, spoiled, i) = "pending"
  BY <1>3 DEF Listed, StateIn
<1>5. ASSUME NEW i, i \notin S, i # r
      PROVE  Listed(work, spoiled, i) = Listed(disk, spoiled, i)
  BY <1>2, <1>3, <1>5 DEF Listed, StateIn
<1>6. CASE r \in spoiled
  <2>1. r \notin S /\ Listed(work, spoiled, r) = Listed(disk, spoiled, r)
    BY <1>6 DEF Listed
  <2> HIDE DEF S
  <2>2. \A i \in S : RowStates[i] = "unused"
    BY <1>1, <1>4, StateNow
  <2>3. RowStates' = List!Offered(S)
    <3>1. RowStates' = [i \in Ids |-> Listed(work, spoiled, i)]
      BY StateNow
    <3>2. List!Offered(S) =
             [i \in Ids |-> IF i \in S THEN "pending" ELSE Listed(disk, spoiled, i)]
      BY StateNow DEF List!Offered
    <3>3. \A i \in Ids : Listed(work, spoiled, i) =
             IF i \in S THEN "pending" ELSE Listed(disk, spoiled, i)
      BY <1>4, <1>5, <2>1
    <3> QED
      BY <3>1, <3>2, <3>3
  <2>4. UNCHANGED ClaimedIds
    BY <1>6
  <2>5. List!Offer(S)
    BY <2>2, <2>3, <2>4 DEF List!Offer
  <2> QED
    BY <1>1, <2>5 DEF List!Next
<1>7. CASE r \notin spoiled
  <2>1. Listed(work, spoiled, r) = "taken"
    BY <1>3, <1>7 DEF Listed, StateIn, Exists
  <2>2. r \notin S => Listed(disk, spoiled, r) = "pending"
    <3> SUFFICES ASSUME r \notin S
                 PROVE  Listed(disk, spoiled, r) = "pending"
      OBVIOUS
    <3>1. r \in DOMAIN disk.requests /\ work.requests[r].key # Gone
      BY <1>7 DEF Exists
    <3>2. disk.requests[r].status = 0 /\ disk.requests[r].key # Gone
      BY <1>3, <3>1
    <3> QED
      BY <1>7, <3>1, <3>2 DEF Listed, StateIn
  <2> HIDE DEF S
  <2>3. \A i \in S : RowStates[i] = "unused"
    BY <1>1, <1>4, StateNow
  <2>4. List!Offered(S)[r] = "pending"
    BY <1>1, <2>2, StateNow DEF List!Offered
  <2>5. RowStates' = [List!Offered(S) EXCEPT ![r] = "taken"]
    <3>1. RowStates' = [i \in Ids |-> Listed(work, spoiled, i)]
      BY StateNow
    <3>2. List!Offered(S) =
             [i \in Ids |-> IF i \in S THEN "pending" ELSE Listed(disk, spoiled, i)]
      BY StateNow DEF List!Offered
    <3>3. \A i \in Ids : Listed(work, spoiled, i) =
             IF i = r THEN "taken"
             ELSE IF i \in S THEN "pending" ELSE Listed(disk, spoiled, i)
      BY <1>4, <1>5, <2>1
    <3> QED
      BY <1>1, <3>1, <3>2, <3>3
  <2>6. ClaimedIds' = ClaimedIds \cup {r}
    BY <1>7
  <2>7. List!Claim(r, S)
    BY <2>3, <2>4, <2>5, <2>6 DEF List!Claim
  <2> QED
    BY <1>1, <2>7 DEF List!Next
<1> QED
  BY <1>6, <1>7

(* DB_TASK_UPDATE_STATUS with status 0 *)
LEMMA ListPutBack ==
    ASSUME disk \in Tables, disk' \in Tables, NEW r \in Ids, NEW s \in {0, 1},
           disk' = WithStatus(disk, r, s), r \notin spoiled => Taken(disk, r),
           r \notin ClaimedIds, UNCHANGED <<ClaimedIds, spoiled>>
    PROVE  [List!Next]_<<RowStates, ClaimedIds>>
<1>1. /\ Len(disk'.requests) = Len(disk.requests)
      /\ \A j \in DOMAIN disk.requests :
            /\ disk'.requests[j].key = disk.requests[j].key
            /\ disk'.requests[j].status =
                  IF j = r /\ Exists(disk, r) THEN s ELSE disk.requests[j].status
  BY StatusTable
<1>2. DOMAIN disk'.requests = DOMAIN disk.requests
  BY <1>1, TableRows
<1>3. \A i : i # r => Listed(disk', spoiled, i) = Listed(disk, spoiled, i)
  BY <1>1, <1>2 DEF Listed, StateIn
<1>4. CASE Exists(disk, r) /\ s = 0 /\ r \notin spoiled
  <2>1. Listed(disk, spoiled, r) = "taken" /\ Listed(disk', spoiled, r) = "pending"
    BY <1>1, <1>2, <1>4 DEF Listed, StateIn, Exists, Taken, Running
  <2>2. RowStates[r] = "taken"
    BY <2>1, StateNow
  <2>3. RowStates' = [RowStates EXCEPT ![r] = "pending"]
    BY <1>3, <2>1, StateNow
  <2>4. List!PutBack(r)
    BY <2>2, <2>3 DEF List!PutBack
  <2> QED
    BY <2>4 DEF List!Next
<1>5. CASE ~ (Exists(disk, r) /\ s = 0 /\ r \notin spoiled)
  <2>1. Listed(disk', spoiled, r) = Listed(disk, spoiled, r)
    BY <1>1, <1>2, <1>5 DEF Listed, StateIn, Exists, Taken, Running
  <2>2. UNCHANGED RowStates
    BY <1>3, <2>1, StateNow
  <2> QED
    BY <2>2
<1> QED
  BY <1>4, <1>5

(* DELETE FROM requests *)
LEMMA ListDelete ==
    ASSUME disk \in Tables, disk' \in Tables, UNCHANGED <<ClaimedIds, spoiled>>,
           Len(disk'.requests) = Len(disk.requests),
           \A i \in DOMAIN disk.requests : disk'.requests[i] = [key |-> Gone, status |-> 0]
    PROVE  List!Next
<1>1. DOMAIN disk'.requests = DOMAIN disk.requests
  BY TableRows
<1>2. \A i \in DOMAIN disk.requests : disk'.requests[i].key = Gone
  OBVIOUS
<1>3. \A i : Listed(disk', spoiled, i) =
                IF Listed(disk, spoiled, i) \in {"unused", "spoiled"}
                THEN Listed(disk, spoiled, i) ELSE "deleted"
  BY <1>1, <1>2 DEF Listed, StateIn
<1>4. List!Delete
  BY <1>3, StateNow DEF List!Delete
<1> QED
  BY <1>4 DEF List!Next

(* A claimed request is passed on, or lost with its program. *)
LEMMA ListPassOn ==
    ASSUME PlaceInv, UNCHANGED <<disk, spoiled>>, disk \in Tables,
           \A t \in Threads :
              pc'[t] = "claimed" => pc[t] = "claimed" /\ arg'[t] = arg[t]
    PROVE  List!Next
<1> DEFINE S == ClaimedIds \ ClaimedIds'
<1>1. ClaimedIds \subseteq Ids
  BY DEF ClaimedIds, PlaceInv
<1>2. ClaimedIds' \subseteq ClaimedIds
  BY DEF ClaimedIds
<1>3. UNCHANGED RowStates
  BY SameRows
<1>4. List!PassOn(S)
  BY <1>2, <1>3 DEF List!PassOn
<1>5. S \in SUBSET Ids
  BY <1>1
<1> QED
  BY <1>4, <1>5 DEF List!Next

(* A COMMIT failed, a claim was robbed or a reset was lost: one request. *)
LEMMA ListSpoil ==
    ASSUME disk \in Tables, disk' \in Tables, NEW r \in Ids,
           spoiled' = spoiled \cup {r},
           \A i : i # r => StateIn(disk', i) = StateIn(disk, i),
           \A t \in Threads : \/ /\ pc'[t] = "claimed" <=> pc[t] = "claimed"
                                 /\ pc[t] = "claimed" => arg'[t] = arg[t]
                              \/ pc[t] # "claimed" /\ arg'[t] = r
    PROVE  List!Next
<1>1. ClaimedIds' = ClaimedIds \ {r}
  BY DEF ClaimedIds
<1>2. \A i : Listed(disk', spoiled', i) =
                IF i = r THEN "spoiled" ELSE Listed(disk, spoiled, i)
  BY DEF Listed
<1>3. RowStates' = [RowStates EXCEPT ![r] = "spoiled"]
  BY <1>2, StateNow
<1>4. List!Spoil(r)
  BY <1>1, <1>3 DEF List!Spoil
<1> QED
  BY <1>4 DEF List!Next

LEMMA ListNext ==
    ASSUME DbInv, DbInv', TransactionInv, [Next]_vars
    PROVE  [List!Next]_<<RowStates, ClaimedIds>>
<1>1. TypeOK /\ PlaceInv /\ TablesInv /\ AnswersInv /\ RobbedInv /\ ClaimInv
  BY DEF DbInv
<1>2. /\ disk \in Tables /\ work \in Tables /\ disk' \in Tables
      /\ writer \in Processes \cup {None}
      /\ pc \in [Threads -> Labels] /\ arg \in [Threads -> Values]
      /\ None \notin Processes /\ \A t \in Threads : t[1] \in Processes
      /\ writer # None => Extends(work, disk)
      /\ writer = None => ~ leftOpen
      /\ Len(work.requests) <= MaxRows /\ Len(disk'.requests) <= MaxRows
  BY <1>1, DbAssumption DEF DbInv, TypeOK, Labels, Values, TablesInv
<1>3. ASSUME NEW t \in Threads, NEW label, NEW value, Goto(t, label, value)
      PROVE  /\ pc'[t] = label /\ arg'[t] = value
             /\ \A u \in Threads \ {t} : pc'[u] = pc[u] /\ arg'[u] = arg[u]
  BY <1>2, <1>3 DEF Goto
<1>4. ASSUME NEW t \in Threads, NEW label, NEW value, Goto(t, label, value),
             pc[t] # "claimed", label # "claimed", UNCHANGED spoiled
      PROVE  UNCHANGED ClaimedIds
  BY <1>3, <1>4, SameClaims
<1>5. ASSUME disk'.requests = disk.requests, UNCHANGED <<ClaimedIds, spoiled>>
      PROVE  [List!Next]_<<RowStates, ClaimedIds>>
  BY <1>2, <1>5, SameRows
<1>6. ASSUME NEW p \in Processes, Fails(p) \/ Rollback(p)
      PROVE  UNCHANGED disk
  BY <1>6 DEF Fails, Rollback, database
<1>7. ASSUME NEW t \in Threads, SaveStep(t)
      PROVE  [List!Next]_<<RowStates, ClaimedIds>>
  <2>1. \/ UNCHANGED <<pc, arg>>
        \/ /\ pc[t] \in {"idle", "inserted"}
           /\ \E label \in {"idle", "inserted"} : \E value : Goto(t, label, value)
    BY <1>7 DEF SaveStep, SaveCollection, InsertRequest, SelectRequest, StatementFails,
                InsertResponse, Tell, MayCall, Return
  <2>2. UNCHANGED spoiled
    BY <1>7 DEF SaveStep, SaveCollection, InsertRequest, SelectRequest, StatementFails,
                InsertResponse, Tell, history
  <2>3. UNCHANGED ClaimedIds
    BY <1>4, <2>1, <2>2, SameClaims
  <2>4. CASE UNCHANGED disk
    BY <1>5, <2>2, <2>3, <2>4
  <2>5. ASSUME NEW U \in Tables, Adds(U, View(t[1])), Write(t[1], U)
        PROVE  [List!Next]_<<RowStates, ClaimedIds>>
    <3>1. CASE writer = None /\ disk' = U
      <4>1. View(t[1]) = disk
        BY <1>2, <3>1 DEF View
      <4>2. List!Next
        BY <1>2, <2>2, <2>3, <2>5, <3>1, <4>1, ListOffer
      <4> QED
        BY <4>2
    <3> QED
      BY <2>4, <2>5, <3>1 DEF Write
  <2>6. Rollback(t[1]) => UNCHANGED disk
    BY <1>2, <1>6
  <2> QED
    BY <1>1, <1>7, <2>4, <2>5, <2>6, SaveAdds
<1>8. ASSUME NEW t \in Threads, Begin(t)
      PROVE  [List!Next]_<<RowStates, ClaimedIds>>
  <2>1. UNCHANGED <<disk, spoiled>> /\ pc[t] = "idle" /\ Goto(t, "begun", None)
    BY <1>8 DEF Begin, MayCall, history
  <2> QED
    BY <1>4, <1>5, <2>1
<1>9. ASSUME NEW t \in Threads, ClaimCommit(t)
      PROVE  [List!Next]_<<RowStates, ClaimedIds>>
  <2>1. pc[t] = "updated" /\ Goto(t, "claimed", arg[t]) /\ arg[t] \in Ids
    BY <1>1, <1>9 DEF ClaimCommit, PlaceInv
  <2>2. /\ pc'[t] = "claimed" /\ arg'[t] = arg[t]
        /\ \A u \in Threads \ {t} : pc'[u] = pc[u] /\ arg'[u] = arg[u]
    BY <1>3, <2>1
  <2>3. CASE Committed(t[1]) /\ UNCHANGED spoiled
    <3>1. writer = t[1] /\ disk' = work
      BY <2>3 DEF Committed
    <3>2. Updating(t)
      BY <1>1, <2>1, <3>1 DEF RobbedInv, Updating, InItsTransaction, InTransaction, Claiming
    <3>3. Owner # None
      BY <1>1, <1>2, <3>2 DEF RobbedInv, Updating
    <3>4. /\ Exists(work, arg[t]) /\ arg[t] \in DOMAIN work.requests
          /\ \A i \in DOMAIN work.requests : RowInWork(i)
      BY <3>2, <3>3, TransactionNow DEF Exists
    <3>5. ASSUME NEW u \in Threads, Updating(u)
          PROVE  u = t
      <4>1. Owner = u[1] /\ Owner = t[1] /\ pc[u] \in InClaim /\ pc[t] \in InClaim
        BY <1>1, <2>1, <3>2, <3>5 DEF RobbedInv, Updating, InClaim
      <4> QED
        BY <1>1, <4>1, OneClaimer
    <3>6. \A i : (\E u \in Threads : Updating(u) /\ arg[u] = i) <=> i = arg[t]
      BY <3>2, <3>5
    <3>7. ClaimedIds' = ClaimedIds \cup ({arg[t]} \ spoiled)
      BY <2>1, <2>2, <2>3 DEF ClaimedIds
    <3>8. Extends(work, disk)
      BY <1>2, <3>1
    <3>9. List!Next
      BY <1>2, <2>3, <3>1, <3>4, <3>6, <3>7, <3>8, ListClaim
    <3> QED
      BY <3>9
  <2>4. CASE Spoil(arg[t]) /\ UNCHANGED disk
    <3>1. List!Next
      BY <1>2, <2>1, <2>2, <2>4, ListSpoil DEF Spoil
    <3> QED
      BY <3>1
  <2>5. CASE CommitFails(t[1]) /\ Spoil(arg[t])
    BY <1>2, <1>6, <2>4, <2>5 DEF CommitFails
  <2>6. CASE writer # t[1] /\ UNCHANGED database /\ SpoilIfRobbed(t)
    <3>1. t \in robbed
      BY <1>1, <1>2, <2>1, <2>6 DEF RobbedInv, InItsTransaction, InTransaction, Claiming,
                                    Owner
    <3> QED
      BY <2>4, <2>6, <3>1 DEF SpoilIfRobbed, database
  <2> QED
    BY <1>9, <2>3, <2>5, <2>6 DEF ClaimCommit
<1>10. ASSUME NEW t \in Threads, ClaimSelect(t) \/ ClaimRollback(t)
       PROVE  [List!Next]_<<RowStates, ClaimedIds>>
  <2>1. /\ pc[t] \in {"begun", "failed"} /\ UNCHANGED spoiled
        /\ \E label \in {"idle", "selected", "failed"} : \E value : Goto(t, label, value)
    BY <1>10 DEF ClaimSelect, ClaimRollback, Return, history
  <2>2. UNCHANGED disk
    BY <1>2, <1>6, <1>10 DEF ClaimSelect, ClaimRollback, database
  <2> QED
    BY <1>4, <1>5, <2>1, <2>2
<1>11. ASSUME NEW t \in Threads, ClaimUpdate(t)
       PROVE  [List!Next]_<<RowStates, ClaimedIds>>
  <2>1. pc[t] = "selected" /\ arg[t] \in Ids
    BY <1>1, <1>11 DEF ClaimUpdate, PlaceInv
  <2>2. CASE Fails(t[1]) /\ Goto(t, "failed", None) /\ UNCHANGED spoiled
    BY <1>2, <1>4, <1>5, <1>6, <2>1, <2>2
  <2>3. CASE /\ Write(t[1], WithStatus(View(t[1]), arg[t], 1))
             /\ Goto(t, "updated", arg[t]) /\ SpoilIfRobbed(t)
    <3>1. CASE t \in robbed
      <4>1. disk' = WithStatus(disk, arg[t], 1) /\ spoiled' = spoiled \cup {arg[t]}
        BY <1>1, <1>2, <2>3, <3>1 DEF Write, View, RobbedInv, SpoilIfRobbed, Spoil
      <4>2. /\ Len(disk'.requests) = Len(disk.requests)
            /\ \A j \in DOMAIN disk.requests :
                  /\ disk'.requests[j].key = disk.requests[j].key
                  /\ j # arg[t] => disk'.requests[j].status = disk.requests[j].status
        BY <1>2, <4>1, StatusTable
      <4>3. DOMAIN disk'.requests = DOMAIN disk.requests
        BY <1>2, <4>2, TableRows
      <4>4. \A i : i # arg[t] => StateIn(disk', i) = StateIn(disk, i)
        BY <4>2, <4>3 DEF StateIn
      <4>5. \A u \in Threads : /\ pc'[u] = "claimed" <=> pc[u] = "claimed"
                               /\ pc[u] = "claimed" => arg'[u] = arg[u]
        BY <1>3, <2>1, <2>3
      <4>6. List!Next
        BY <1>2, <2>1, <4>1, <4>4, <4>5, ListSpoil
      <4> QED
        BY <4>6
    <3>2. CASE t \notin robbed
      <4>1. writer = t[1]
        BY <1>1, <1>2, <2>1, <3>2 DEF RobbedInv, InItsTransaction, InTransaction, Claiming,
                                      Owner
      <4>2. UNCHANGED <<disk, spoiled>>
        BY <1>2, <2>3, <3>2, <4>1 DEF Write, SpoilIfRobbed
      <4> QED
        BY <1>4, <1>5, <2>1, <2>3, <4>2
    <3> QED
      BY <3>1, <3>2
  <2> QED
    BY <1>11, <2>2, <2>3 DEF ClaimUpdate
<1>12. ASSUME NEW t \in Threads, Deliver(t)
       PROVE  [List!Next]_<<RowStates, ClaimedIds>>
  <2>1. UNCHANGED <<disk, spoiled>> /\ Goto(t, "idle", None)
    BY <1>12 DEF Deliver, Return, database
  <2>2. \A u \in Threads : pc'[u] = "claimed" => pc[u] = "claimed" /\ arg'[u] = arg[u]
    BY <1>3, <2>1
  <2>3. List!Next
    BY <1>1, <1>2, <2>1, <2>2, ListPassOn
  <2> QED
    BY <2>3
<1>13. ASSUME NEW t \in Threads, ClearStep(t)
       PROVE  [List!Next]_<<RowStates, ClaimedIds>>
  <2>1. /\ pc[t] \in {"idle", "clear_requests", "clear_collections"} /\ UNCHANGED spoiled
        /\ \E label \in {"idle", "clear_requests", "clear_collections"} : \E value :
              Goto(t, label, value)
    BY <1>13 DEF ClearStep, ClearResponses, ClearRequests, ClearCollections, MayCall,
                 Return, history
  <2>2. UNCHANGED ClaimedIds
    BY <1>4, <2>1
  <2>3. CASE UNCHANGED disk
    BY <1>5, <2>1, <2>2, <2>3
  <2>4. CASE ClearResponses(t)
    <3>1. \/ UNCHANGED disk
          \/ disk' = [disk EXCEPT !.responses = {}]
      BY <1>2, <1>6, <2>4 DEF ClearResponses, Write, View
    <3>2. [disk EXCEPT !.responses = {}].requests = disk.requests
      BY <1>2, ResponseTable
    <3>3. disk'.requests = disk.requests
      BY <3>1, <3>2
    <3> QED
      BY <1>5, <2>1, <2>2, <3>3
  <2>5. CASE ClearRequests(t)
    <3>1. \/ UNCHANGED disk
          \/ disk' = [disk EXCEPT !.requests =
                         [i \in DOMAIN @ |-> [key |-> Gone, status |-> 0]]]
      BY <1>2, <1>6, <2>5 DEF ClearRequests, Write, View
    <3>2. CASE disk' = [disk EXCEPT !.requests =
                          [i \in DOMAIN @ |-> [key |-> Gone, status |-> 0]]]
      <4>1. /\ Len(disk'.requests) = Len(disk.requests)
            /\ \A i \in DOMAIN disk.requests :
                  disk'.requests[i] = [key |-> Gone, status |-> 0]
        BY <1>2, <3>2, DeleteTable
      <4>2. List!Next
        BY <1>2, <2>1, <2>2, <4>1, ListDelete
      <4> QED
        BY <4>2
    <3> QED
      BY <2>3, <3>1, <3>2
  <2>6. CASE ClearCollections(t)
    <3>1. \/ UNCHANGED disk
          \/ disk' = [disk EXCEPT !.collection = FALSE]
      BY <1>2, <1>6, <2>6 DEF ClearCollections, Write, View
    <3>2. disk'.requests = disk.requests
      BY <1>2, <3>1, CollectionTable
    <3> QED
      BY <1>5, <2>1, <2>2, <3>2
  <2> QED
    BY <1>13, <2>4, <2>5, <2>6 DEF ClearStep
<1>14. ASSUME NEW t \in Threads, NEW i \in Ids, NEW s \in {0, 1}, UpdateStatus(t, i, s)
       PROVE  [List!Next]_<<RowStates, ClaimedIds>>
  <2>1. /\ pc[t] = "idle" /\ "status" \in Calls[t] /\ i \in handed
        /\ Write(t[1], WithStatus(View(t[1]), i, s)) /\ UNCHANGED <<pc, arg>>
    BY <1>14 DEF UpdateStatus, MayCall
  <2>2. writer = t[1] => leftOpen
    BY <2>1, OthersWait
  <2>3. \A u \in Threads : /\ pc'[u] = "claimed" <=> pc[u] = "claimed"
                           /\ pc[u] = "claimed" => arg'[u] = arg[u]
    BY <2>1
  <2>4. CASE UNCHANGED disk /\ leftOpen /\ s = 0
    <3>1. spoiled' = spoiled \cup {i}
      BY <1>14, <2>4 DEF UpdateStatus, Spoil
    <3>2. \A j : StateIn(disk', j) = StateIn(disk, j)
      BY <2>4
    <3>3. List!Next
      BY <1>2, <2>3, <3>1, <3>2, ListSpoil
    <3> QED
      BY <3>3
  <2>5. CASE UNCHANGED disk /\ leftOpen /\ s = 1
    <3>1. UNCHANGED spoiled
      BY <1>14, <2>5 DEF UpdateStatus, history
    <3> QED
      BY <1>5, <2>3, <2>5, <3>1, SameClaims
  <2>6. CASE writer = None
    <3>1. disk' = WithStatus(disk, i, s)
      BY <1>2, <2>1, <2>6 DEF Write, View
    <3>2. UNCHANGED spoiled
      BY <1>2, <1>14, <2>6 DEF UpdateStatus, history
    <3>3. i \notin spoiled => Taken(disk, i)
      BY <1>1, <2>1 DEF ClaimInv, Held
    <3>4. i \notin ClaimedIds
      BY <1>1, <2>1 DEF ClaimInv, ClaimedIds
    <3>5. UNCHANGED ClaimedIds
      BY <2>3, <3>2, SameClaims
    <3> QED
      BY <1>2, <3>1, <3>2, <3>3, <3>4, <3>5, ListPutBack
  <2>7. writer = None \/ (writer = t[1] /\ UNCHANGED disk)
    BY <2>1 DEF Write
  <2> QED
    BY <2>2, <2>4, <2>5, <2>6, <2>7
<1>15. ASSUME NEW p \in Processes, Close(p) \/ Crash(p)
       PROVE  [List!Next]_<<RowStates, ClaimedIds>>
  <2>1. /\ UNCHANGED <<disk, spoiled>>
        /\ \A t \in Threads : /\ pc'[t] = IF t[1] = p THEN "idle" ELSE pc[t]
                              /\ arg'[t] = IF t[1] = p THEN None ELSE arg[t]
    BY <1>15 DEF Close, Crash, Disconnect
  <2>2. \A t \in Threads : pc'[t] = "claimed" => pc[t] = "claimed" /\ arg'[t] = arg[t]
    BY <2>1
  <2>3. List!Next
    BY <1>1, <1>2, <2>1, <2>2, ListPassOn
  <2> QED
    BY <2>3
<1>16. CASE UNCHANGED vars
  <2>1. UNCHANGED <<disk, spoiled>> /\ UNCHANGED ClaimedIds
    BY <1>16 DEF vars, database, history, ClaimedIds
  <2> QED
    BY <1>5, <2>1
<1>17. CASE Next
  BY <1>7, <1>8, <1>9, <1>10, <1>11, <1>12, <1>13, <1>14, <1>15, <1>17 DEF Next, ClaimStep
<1> QED
  BY <1>16, <1>17

-----------------------------------------------------------------------------
(* Theorems on the work list                                                 *)

(* What the open transaction of a claim holds are the rows of the file, new  *)
(* pending ones and the row of its claim, marked as running                  *)
(* (db_manager.c:407-461).                                                   *)
THEOREM DbWorkInvariant == Spec => []WorkInv
<1>1. Init => TransactionInv
  BY DEF Init, TransactionInv, Owner, InItsTransaction, InTransaction, Claiming
<1>2. DbInv /\ DbInv' /\ TransactionInv /\ [Next]_vars => TransactionInv'
  BY DbStep, WorkNext
<1>3. DbInv /\ TransactionInv => WorkInv
  BY DEF WorkInv
<1> QED
  BY <1>1, <1>2, <1>3, DbInvariant, PTL DEF Spec

(* The requests table is a list of work to the programs that share it: a     *)
(* claim takes one pending request in one step, at its COMMIT, and nothing   *)
(* else takes one but db_clear_all; a COMMIT that fails and a transaction    *)
(* that is lost spoil the one request they were about                        *)
(* (db_manager.c:407-461, 464-490, 612-619).                                 *)
THEOREM DbImplementsWorkList == Spec => ImplementsWorkList
<1>1. Init => List!Init
  <2>1. Init => DOMAIN disk.requests = {} /\ spoiled = {}
    BY EmptyTable DEF Init
  <2>2. Init => \A i \in Ids : StateOf(i) = "unused"
    <3> SUFFICES ASSUME Init, NEW i \in Ids
                 PROVE  StateOf(i) = "unused"
      OBVIOUS
    <3>1. i \notin DOMAIN disk.requests /\ i \notin spoiled
      BY <2>1
    <3>2. ~ Exists(disk, i) /\ ~ Running(disk, i)
      BY <3>1 DEF Exists, Running
    <3> QED
      BY <3>1, <3>2, Zenon DEF StateOf
  <2>3. Init => ClaimedIds = {}
    BY DEF Init, ClaimedIds
  <2> QED
    BY <2>2, <2>3 DEF List!Init, RowStates
<1>2. WorkInv /\ WorkInv' /\ [Next]_vars => [List!Next]_<<RowStates, ClaimedIds>>
  BY ListNext DEF WorkInv
<1> QED
  BY <1>1, <1>2, DbWorkInvariant, PTL DEF Spec, ImplementsWorkList

=============================================================================
