---------------------------- MODULE EngineProofs ----------------------------
(* Proofs about Engine, for any plan and any number of starts. *)
EXTENDS Engine, SequenceTheorems, FiniteSetTheorems, WellFoundedInduction, TLAPS

-----------------------------------------------------------------------------
(* The newest row                                                            *)

LEMMA LeastNumber ==
    ASSUME NEW S \in SUBSET Nat, S # {}
    PROVE  \E x \in S : \A y \in S : x <= y
<1> DEFINE R == {p \in Nat \X Nat : p[1] < p[2]}
<1>1. R = OpToRel(<, Nat)
  BY DEF OpToRel
<1>2. IsWellFoundedOn(R, Nat)
  BY <1>1, NatLessThanWellFounded
<1> HIDE DEF R
<1>3. PICK x \in S : \A y \in S : <<y, x>> \notin R
  BY <1>2, WFMin
<1>4. \A y \in S : ~ (y < x)
  BY <1>3 DEF R
<1> QED
  BY <1>4

LEMMA GreatestNumber ==
    ASSUME NEW n \in Nat, NEW S \in SUBSET (1 .. n), S # {}
    PROVE  \E x \in S : \A y \in S : y <= x
<1> DEFINE D == {n - x : x \in S}
<1>1. D \in SUBSET Nat /\ D # {}
  <2>1. \A x \in S : x \in 1 .. n
    OBVIOUS
  <2>2. \A x \in S : n - x \in Nat
    BY <2>1
  <2> QED
    BY <2>2
<1>2. PICK d \in D : \A e \in D : d <= e
  BY <1>1, LeastNumber
<1>3. PICK x \in S : d = n - x
  OBVIOUS
<1>4. ASSUME NEW y \in S
      PROVE  y <= x
  <2>1. n - y \in D
    OBVIOUS
  <2>2. d <= n - y
    BY <1>2, <2>1
  <2> QED
    BY <1>3, <2>2
<1> QED
  BY <1>4

LEMMA RowTypes ==
    ASSUME TypeOK
    PROVE  /\ Len(responses) \in Nat /\ DOMAIN responses = 1 .. Len(responses)
           /\ \A n \in DOMAIN responses : responses[n] \in Row
<1>1. responses \in Seq(Row)
  BY DEF TypeOK
<1> QED
  BY <1>1, LenProperties, ElementOfSeq

LEMMA RowFields ==
    ASSUME NEW row \in Row
    PROVE  /\ row.key \in Keys /\ row.run \in 1 .. MaxRuns /\ row.case \in Cases
           /\ row.value \in Values /\ row # NoRow
<1>1. DOMAIN row = {"key", "run", "case", "value"} /\ DOMAIN NoRow = {"key"}
  BY DEF Row, NoRow
<1> QED
  BY <1>1 DEF Row

(* ORDER BY id DESC LIMIT 1 finds a row if there is one. *)
LEMMA LatestIsARow ==
    ASSUME TypeOK, NEW key \in Keys, RowsOf(key) # {}
    PROVE  \E n \in RowsOf(key) : Latest(key) = responses[n]
<1>1. RowsOf(key) \in SUBSET (1 .. Len(responses)) /\ Len(responses) \in Nat
  BY RowTypes DEF RowsOf
<1>2. \E n \in RowsOf(key) : \A m \in RowsOf(key) : m <= n
  BY <1>1, GreatestNumber
<1> DEFINE n == CHOOSE n \in RowsOf(key) : \A m \in RowsOf(key) : m <= n
<1>3. n \in RowsOf(key)
  BY <1>2
<1>4. Latest(key) = responses[n]
  BY DEF Latest
<1> QED
  BY <1>3, <1>4

-----------------------------------------------------------------------------
(* Steps *)

LEMMA TypeNext ==
    ASSUME TypeOK, StageInv, [Next]_vars
    PROVE  TypeOK'
<1>1. /\ NumCases \in Nat \ {0} /\ KeyOf \in [Cases -> Keys] /\ Polls \in Nat \ {0}
      /\ MaxRuns \in Nat /\ 1 \in Cases
  BY EngineAssumption DEF Cases
<1>2. CASE UNCHANGED vars
  BY <1>2 DEF TypeOK, vars, tables, results, flags
<1>3. CASE StartRun
  <2>1. run' \in 0 .. MaxRuns
    BY <1>1, <1>3 DEF StartRun, TypeOK
  <2>2. /\ found' \in [Cases -> Row \cup {NoRow}]
        /\ request_ok' \in [Cases -> BOOLEAN] /\ assertions_ok' \in [Cases -> BOOLEAN]
        /\ status' \in [Cases -> {"new", "rejected", "accepted", "saved", "lost"}]
    BY <1>3 DEF StartRun, Fresh
  <2>3. /\ pc' = "setup" /\ case' = 1 /\ elapsed' = 0 /\ owned' = {}
        /\ all_requests_ok' = FALSE /\ all_assertions_ok' = FALSE /\ exit_code' = 1
        /\ phase' = "starting" /\ requests' = requests /\ responses' = responses
    BY <1>3 DEF StartRun, Fresh, tables
  <2>4. 0 \in 0 .. Polls
    BY <1>1
  <2> QED
    BY <1>1, <2>1, <2>2, <2>3, <2>4 DEF TypeOK
<1>4. CASE Setup
  BY <1>4 DEF Setup, TypeOK, tables, results, flags, RT!Start
<1>5. CASE SaveRequest
  <2>1. requests' \subseteq Keys
    BY <1>1, <1>5 DEF SaveRequest, TypeOK
  <2>2. owned' \subseteq {"req", "task"} \X Cases
    BY <1>5 DEF SaveRequest, TypeOK
  <2>3. /\ pc' \in {"dispatch", "cleanup"} /\ case' = case /\ all_requests_ok' \in BOOLEAN
        /\ UNCHANGED <<all_assertions_ok, exit_code, responses, run, elapsed, found,
                       request_ok, assertions_ok, phase, status>>
    BY <1>5 DEF SaveRequest, Fail, TypeOK, results, flags
  <2> QED
    BY <2>1, <2>2, <2>3 DEF TypeOK
<1>6. CASE Dispatch
  <2>1. case' \in Cases
    BY <1>1, <1>6 DEF Dispatch, Fail, TypeOK, Cases
  <2>2. status' \in [Cases -> {"new", "rejected", "accepted", "saved", "lost"}]
    BY <1>6 DEF Dispatch, RT!Accept, RT!Reject, TypeOK
  <2> QED
    BY <1>6, <2>1, <2>2 DEF Dispatch, Fail, TypeOK, tables, results, flags, RT!Accept,
                            RT!Reject
<1>7. CASE PollFinds
  <2> DEFINE row == Latest(KeyOf[case])
  <2>1. row \in Row
    <3>1. KeyOf[case] \in Keys /\ RowsOf(KeyOf[case]) # {}
      BY <1>1, <1>7 DEF PollFinds, TypeOK
    <3>2. PICK n \in RowsOf(KeyOf[case]) : row = responses[n]
      BY <3>1, LatestIsARow
    <3> QED
      BY <3>2, RowTypes DEF RowsOf
  <2>2. /\ found' = [found EXCEPT ![case] = row]
        /\ request_ok' = [request_ok EXCEPT ![case] = TRUE]
        /\ assertions_ok' = [assertions_ok EXCEPT
                                ![case] = case \notin Asserted \/ row.value = "good"]
        /\ all_assertions_ok' = (all_assertions_ok /\
                                    (case \notin Asserted \/ row.value = "good"))
        /\ NextCase
        /\ UNCHANGED <<tables, run, owned, all_requests_ok, exit_code, phase, status>>
    BY <1>7 DEF PollFinds
  <2> HIDE DEF row
  <2>3. case' \in Cases /\ elapsed' \in 0 .. Polls /\ pc' \in {"score", "poll"}
    BY <1>1, <2>2 DEF NextCase, TypeOK, Cases
  <2> QED
    BY <2>1, <2>2, <2>3 DEF TypeOK, tables
<1>8. CASE PollMisses
  BY <1>1, <1>8 DEF PollMisses, TypeOK, tables, results, flags
<1>9. CASE TimeOut
  <2>1. case' \in Cases /\ elapsed' \in 0 .. Polls /\ pc' \in {"score", "poll"}
    BY <1>1, <1>9 DEF TimeOut, NextCase, TypeOK, Cases
  <2> QED
    BY <1>9, <2>1 DEF TimeOut, TypeOK, tables, results
<1>10. CASE Score
  BY <1>10 DEF Score, TypeOK, tables, results
<1>11. CASE Cleanup \/ Destroyed
  BY <1>11 DEF Cleanup, Destroyed, RT!Close, RT!Finish, TypeOK, tables, results, flags
<1>12. CASE Crash
  BY <1>12 DEF Crash, TypeOK, tables, results, flags
<1>13. ASSUME NEW c \in Cases, Settle(c)
       PROVE  TypeOK'
  <2>1. /\ status' \in [Cases -> {"new", "rejected", "accepted", "saved", "lost"}]
        /\ UNCHANGED <<phase, requests, run, pc, case, elapsed, owned, results, flags>>
    BY <1>13 DEF Settle, RT!Settle, TypeOK
  <2>2. responses' \in Seq(Row)
    <3>1. CASE UNCHANGED responses
      BY <3>1 DEF TypeOK
    <3>2. ASSUME NEW v \in Values,
                 responses' = Append(responses,
                    [key |-> KeyOf[c], run |-> run, case |-> c, value |-> v]),
                 run # 0
          PROVE  responses' \in Seq(Row)
      <4>1. [key |-> KeyOf[c], run |-> run, case |-> c, value |-> v] \in Row
        BY <1>1, <3>2 DEF Row, TypeOK
      <4> QED
        BY <3>2, <4>1, AppendProperties DEF TypeOK
    <3>3. run # 0
      BY <1>13 DEF Settle, RT!Settle, StageInv
    <3> QED
      BY <1>13, <3>1, <3>2, <3>3 DEF Settle
  <2> QED
    BY <2>1, <2>2 DEF TypeOK, results, flags
<1>14. CASE Next
  BY <1>2, <1>3, <1>4, <1>5, <1>6, <1>7, <1>8, <1>9, <1>10, <1>11, <1>12, <1>13, <1>14
     DEF Next, MainStep, Over
<1> QED
  BY <1>2, <1>14

LEMMA StageNext ==
    ASSUME TypeOK, StageInv, [Next]_vars
    PROVE  StageInv'
<1>1. /\ run \in Nat /\ 1 \in Cases
      /\ status \in [Cases -> {"new", "rejected", "accepted", "saved", "lost"}]
  BY EngineAssumption DEF TypeOK, Cases
<1> USE <1>1 DEF StageInv
<1>2. CASE UNCHANGED vars
  BY <1>2 DEF vars
<1>3. CASE StartRun
  BY <1>3 DEF StartRun, Fresh
<1>4. CASE Setup
  BY <1>4 DEF Setup, RT!Start
<1>5. CASE SaveRequest
  BY <1>5 DEF SaveRequest, Fail
<1>6. CASE Dispatch
  <2>1. pc = "dispatch" /\ phase = "open" /\ phase' = "open" /\ run' = run
    BY <1>6 DEF Dispatch, RT!Accept, RT!Reject
  <2>2. pc' \in {"poll", "save", "cleanup"}
    BY <1>6 DEF Dispatch, Fail
  <2> QED
    BY <2>1, <2>2
<1>7. CASE PollFinds
  BY <1>7 DEF PollFinds, NextCase
<1>8. CASE PollMisses \/ TimeOut \/ Score
  BY <1>8 DEF PollMisses, TimeOut, NextCase, Score
<1>9. CASE Cleanup \/ Destroyed
  BY <1>9 DEF Cleanup, Destroyed, RT!Close, RT!Finish
<1>10. CASE Crash
  <2>1. /\ pc # "off" /\ pc' = "off" /\ phase' = "gone" /\ run' = run
        /\ \A c \in Cases : status'[c] # "accepted"
    BY <1>10 DEF Crash
  <2> QED
    BY <2>1
<1>11. ASSUME NEW c \in Cases, Settle(c)
       PROVE  StageInv'
  BY <1>11 DEF Settle, RT!Settle
<1>12. CASE Next
  BY <1>2, <1>3, <1>4, <1>5, <1>6, <1>7, <1>8, <1>9, <1>10, <1>11, <1>12
     DEF Next, MainStep, Over
<1> QED
  BY <1>2, <1>12

LEMMA ResultsNext ==
    ASSUME TypeOK, StageInv, ResultsInv, [Next]_vars
    PROVE  ResultsInv'
<1>1. /\ NumCases \in Nat \ {0} /\ Cases = 1 .. NumCases
      /\ case \in Cases /\ KeyOf[case] \in Keys
      /\ found \in [Cases -> Row \cup {NoRow}]
      /\ request_ok \in [Cases -> BOOLEAN] /\ assertions_ok \in [Cases -> BOOLEAN]
      /\ all_requests_ok \in BOOLEAN /\ all_assertions_ok \in BOOLEAN
      /\ status \in [Cases -> {"new", "rejected", "accepted", "saved", "lost"}]
  BY EngineAssumption DEF TypeOK, Cases
<1>2. \A c \in Cases : /\ request_ok[c] <=> found[c] # NoRow
                       /\ assertions_ok[c] => request_ok[c]
  BY DEF ResultsInv
<1>3. CASE UNCHANGED <<pc, case, results, flags, status>>
  BY <1>3 DEF ResultsInv, Dispatched, FlagsTell, results, flags
<1>4. CASE StartRun
  BY <1>4 DEF StartRun, Fresh, ResultsInv
<1>5. CASE Setup
  <2>1. /\ pc = "setup" /\ phase = "starting" /\ UNCHANGED <<case, results, status, exit_code>>
        /\ \/ pc' = "save" /\ all_requests_ok' = TRUE /\ all_assertions_ok' = TRUE
           \/ pc' = "cleanup"
    BY <1>5 DEF Setup, RT!Start, flags
  <2>2. /\ exit_code = 1 /\ case = 1
        /\ \A c \in Cases : found[c] = NoRow /\ status[c] = "new" /\ ~ assertions_ok[c]
    BY <1>2, <2>1 DEF ResultsInv, StageInv
  <2> QED
    BY <1>1, <1>2, <2>1, <2>2 DEF ResultsInv, Dispatched, FlagsTell, results
(* A case that could not be saved or dispatched has no result. *)
<1>6. ASSUME pc \in {"save", "dispatch"}, Fail, UNCHANGED results
      PROVE  ResultsInv'
  <2>1. exit_code = 1 /\ found[case] = NoRow /\ ~ assertions_ok[case]
    BY <1>1, <1>2, <1>6 DEF ResultsInv
  <2>2. pc' = "cleanup" /\ exit_code' = 1 /\ UNCHANGED <<found, request_ok, assertions_ok>>
    BY <1>6, <2>1 DEF Fail, results
  <2> QED
    BY <1>1, <1>2, <2>1, <2>2 DEF ResultsInv
<1>7. CASE SaveRequest
  <2>1. CASE pc' = "dispatch" /\ UNCHANGED <<flags, case>>
    <3>1. pc = "save" /\ UNCHANGED <<results, status>>
      BY <1>7 DEF SaveRequest
    <3> QED
      BY <1>1, <2>1, <3>1 DEF ResultsInv, Dispatched, FlagsTell, results, flags
  <2>2. CASE Fail
    BY <1>6, <1>7, <2>2 DEF SaveRequest
  <2> QED
    BY <1>7, <2>1, <2>2 DEF SaveRequest
<1>8. CASE Dispatch
  <2>1. pc = "dispatch" /\ UNCHANGED results
    BY <1>8 DEF Dispatch
  <2>2. CASE Fail
    BY <1>6, <2>1, <2>2
  <2>3. CASE /\ RT!Accept(case)
             /\ case' = IF case = NumCases THEN 1 ELSE case + 1
             /\ pc' = IF case = NumCases THEN "poll" ELSE "save"
             /\ UNCHANGED flags
    <3>1. /\ \A c \in Cases : status'[c] = IF c = case THEN "accepted" ELSE status[c]
          /\ \A c \in Cases : IF c < case THEN Dispatched(c) ELSE status[c] = "new"
          /\ \A c \in Cases : found[c] = NoRow
          /\ all_requests_ok /\ all_assertions_ok /\ exit_code = 1
      BY <1>1, <2>1, <2>3 DEF RT!Accept, ResultsInv, FlagsTell
    <3>2. \A c \in Cases : c <= case => status'[c] \notin {"new", "rejected"}
      BY <1>1, <3>1 DEF Dispatched
    <3>3. /\ all_requests_ok' = TRUE /\ all_assertions_ok' = TRUE /\ exit_code' = 1
          /\ UNCHANGED <<found, request_ok, assertions_ok>>
      BY <1>1, <2>1, <2>3, <3>1 DEF flags, results
    <3>4. CASE case = NumCases
      <4>1. pc' = "poll" /\ case' = 1 /\ 1 .. case' - 1 = {}
        BY <2>3, <3>4
      <4> QED
        BY <1>1, <1>2, <3>1, <3>2, <3>3, <3>4, <4>1 DEF ResultsInv, Dispatched, FlagsTell
    <3>5. CASE case # NumCases
      <4>1. /\ pc' = "save" /\ case' = case + 1
            /\ \A c \in Cases : IF c < case' THEN status'[c] \notin {"new", "rejected"}
                                ELSE status'[c] = "new"
        BY <1>1, <2>3, <3>1, <3>2, <3>5
      <4> QED
        BY <1>1, <1>2, <3>1, <3>3, <4>1 DEF ResultsInv, Dispatched, FlagsTell
    <3> QED
      BY <3>4, <3>5
  <2> QED
    BY <1>8, <2>2, <2>3 DEF Dispatch
(* One more case is polled, with its result or without. *)
<1>9. ASSUME pc = "poll", NextCase, UNCHANGED <<exit_code, status>>,
             \A c \in Cases \ {case} : /\ found'[c] = found[c]
                                       /\ request_ok'[c] = request_ok[c]
                                       /\ assertions_ok'[c] = assertions_ok[c],
             request_ok'[case] <=> found'[case] # NoRow,
             assertions_ok'[case] => request_ok'[case],
             all_requests_ok' <=> all_requests_ok /\ request_ok'[case],
             all_assertions_ok' <=> all_assertions_ok /\ assertions_ok'[case]
      PROVE  ResultsInv'
  <2>1. /\ \A c \in Cases : Dispatched(c) /\ (c >= case => found[c] = NoRow)
        /\ all_requests_ok <=> \A c \in 1 .. case - 1 : request_ok[c]
        /\ all_assertions_ok <=> \A c \in 1 .. case - 1 : assertions_ok[c]
        /\ exit_code = 1
    BY <1>9 DEF ResultsInv, FlagsTell
  <2>2. \A c \in 1 .. case : c \in Cases /\ (c = case \/ c \in 1 .. case - 1)
    BY <1>1
  <2>3. \A c \in 1 .. case - 1 : c \in 1 .. case /\ c \in Cases \ {case}
    BY <1>1
  <2>4. case \in 1 .. case
    BY <1>1
  <2>5. /\ all_requests_ok' <=> \A c \in 1 .. case : request_ok'[c]
        /\ all_assertions_ok' <=> \A c \in 1 .. case : assertions_ok'[c]
    BY <1>9, <2>1, <2>2, <2>3, <2>4
  <2>6. \A c \in Cases : /\ request_ok'[c] <=> found'[c] # NoRow
                         /\ assertions_ok'[c] => request_ok'[c]
    BY <1>2, <1>9
  <2>7. \A c \in Cases : Dispatched(c)'
    BY <1>9, <2>1 DEF Dispatched
  <2>8. CASE case = NumCases
    <3>1. pc' = "score" /\ Cases = 1 .. case
      BY <1>1, <1>9, <2>8 DEF NextCase
    <3> QED
      BY <1>9, <2>1, <2>5, <2>6, <2>7, <3>1 DEF ResultsInv, FlagsTell
  <2>9. CASE case # NumCases
    <3>1. pc' = "poll" /\ case' = case + 1 /\ 1 .. case' - 1 = 1 .. case
      BY <1>1, <1>9, <2>9 DEF NextCase
    <3>2. \A c \in Cases : c >= case' => found'[c] = NoRow
      BY <1>1, <1>9, <2>1, <3>1
    <3> QED
      BY <1>9, <2>1, <2>5, <2>6, <2>7, <3>1, <3>2 DEF ResultsInv, FlagsTell
  <2> QED
    BY <2>8, <2>9
<1>10. CASE PollFinds
  <2> DEFINE row == Latest(KeyOf[case])
             pass == case \notin Asserted \/ row.value = "good"
  <2>1. /\ pc = "poll" /\ NextCase /\ UNCHANGED <<exit_code, status, all_requests_ok>>
        /\ found' = [found EXCEPT ![case] = row]
        /\ request_ok' = [request_ok EXCEPT ![case] = TRUE]
        /\ assertions_ok' = [assertions_ok EXCEPT ![case] = pass]
        /\ all_assertions_ok' = (all_assertions_ok /\ pass)
    BY <1>10 DEF PollFinds
  <2>2. row # NoRow
    <3>1. PICK n \in RowsOf(KeyOf[case]) : row = responses[n]
      BY <1>1, <1>10, LatestIsARow DEF PollFinds
    <3> QED
      BY <3>1, RowTypes, RowFields DEF RowsOf
  <2> HIDE DEF row, pass
  <2>3. /\ found'[case] = row /\ request_ok'[case] = TRUE /\ assertions_ok'[case] = pass
        /\ \A c \in Cases \ {case} : /\ found'[c] = found[c]
                                     /\ request_ok'[c] = request_ok[c]
                                     /\ assertions_ok'[c] = assertions_ok[c]
    BY <1>1, <2>1
  <2> QED
    BY <1>9, <2>1, <2>2, <2>3
<1>11. CASE TimeOut
  <2>1. /\ pc = "poll" /\ NextCase /\ UNCHANGED <<exit_code, status, results>>
        /\ all_requests_ok' = FALSE /\ all_assertions_ok' = FALSE
    BY <1>11 DEF TimeOut
  <2>2. found[case] = NoRow /\ ~ request_ok[case] /\ ~ assertions_ok[case]
    BY <1>1, <1>2, <2>1 DEF ResultsInv
  <2> QED
    BY <1>1, <1>9, <2>1, <2>2 DEF results
<1>12. CASE Score
  <2>1. /\ pc = "score" /\ pc' = "cleanup" /\ UNCHANGED <<results, status>>
        /\ exit_code' = IF all_requests_ok /\ all_assertions_ok THEN 0 ELSE 1
    BY <1>12 DEF Score
  <2>2. /\ \A c \in Cases : Dispatched(c)
        /\ all_requests_ok <=> \A c \in Cases : request_ok[c]
        /\ all_assertions_ok <=> \A c \in Cases : assertions_ok[c]
    BY <2>1 DEF ResultsInv, FlagsTell
  <2> QED
    BY <1>2, <2>1, <2>2 DEF ResultsInv, Dispatched, results
<1>13. CASE Cleanup \/ Destroyed
  <2>1. /\ pc \in {"cleanup", "destroy"} /\ pc' \in {"destroy", "ended"}
        /\ UNCHANGED <<results, flags, status>>
    BY <1>13 DEF Cleanup, Destroyed, RT!Close, RT!Finish
  <2> QED
    BY <2>1 DEF ResultsInv, Dispatched, results, flags
<1>14. CASE Crash
  BY <1>2, <1>14 DEF Crash, ResultsInv, results
<1>15. ASSUME NEW c \in Cases, Settle(c)
       PROVE  ResultsInv'
  <2>1. UNCHANGED <<pc, case, results, flags>>
    BY <1>15 DEF Settle
  <2>2. \A d \in Cases : /\ status[d] = "new" => status'[d] = "new"
                         /\ status'[d] \in {"new", "rejected"} <=>
                               status[d] \in {"new", "rejected"}
    BY <1>1, <1>15 DEF Settle, RT!Settle
  <2> QED
    BY <2>1, <2>2 DEF ResultsInv, Dispatched, FlagsTell, results, flags
<1>16. CASE UNCHANGED vars
  BY <1>3, <1>16 DEF vars
<1>17. CASE PollMisses
  BY <1>3, <1>17 DEF PollMisses
<1>18. CASE Next
  BY <1>4, <1>5, <1>7, <1>8, <1>10, <1>11, <1>12, <1>13, <1>14, <1>15, <1>16, <1>17,
     <1>18 DEF Next, MainStep, Over
<1> QED
  BY <1>16, <1>18

-----------------------------------------------------------------------------
(* The rows                                                                  *)

LEMMA RowsNext ==
    ASSUME TypeOK, StageInv, RowsInv, [Next]_vars
    PROVE  RowsInv'
<1>1. /\ run \in Nat /\ KeyOf \in [Cases -> Keys]
      /\ status \in [Cases -> {"new", "rejected", "accepted", "saved", "lost"}]
      /\ \A n \in DOMAIN responses : responses[n].run \in Nat \ {0}
  BY EngineAssumption, RowTypes, RowFields DEF TypeOK
<1>2. /\ \A n \in DOMAIN responses : /\ responses[n].run <= run
                                     /\ responses[n].key = KeyOf[responses[n].case]
      /\ \A r \in 1 .. run, c \in Cases : \A m, n \in RowsFrom(r, c) : m = n
      /\ run > 0 => \A c \in Cases : RowsFrom(run, c) # {} <=> status[c] = "saved"
  BY DEF RowsInv
<1>3. ASSUME UNCHANGED <<responses, run>>,
             \A c \in Cases : status'[c] = "saved" <=> status[c] = "saved"
      PROVE  RowsInv'
  <2>1. \A r, c : RowsFrom(r, c)' = RowsFrom(r, c)
    BY <1>3 DEF RowsFrom
  <2> QED
    BY <1>2, <1>3, <2>1 DEF RowsInv
(* A new run: nothing is saved yet. *)
<1>4. CASE StartRun
  <2>1. run' = run + 1 /\ responses' = responses /\ \A c \in Cases : status'[c] = "new"
    BY <1>4 DEF StartRun, Fresh, tables
  <2>2. \A r, c : RowsFrom(r, c)' = RowsFrom(r, c)
    BY <2>1 DEF RowsFrom
  <2>3. \A c : RowsFrom(run + 1, c) = {}
    BY <1>1, <1>2 DEF RowsFrom
  <2>4. \A r \in 1 .. run + 1 : r \in 1 .. run \/ r = run + 1
    BY <1>1
  <2>5. \A n \in DOMAIN responses : responses[n].run <= run + 1
    BY <1>1, <1>2
  <2> QED
    BY <1>2, <2>1, <2>2, <2>3, <2>4, <2>5 DEF RowsInv
<1>5. ASSUME NEW c \in Cases, Settle(c)
      PROVE  RowsInv'
  <2>1. /\ status[c] = "accepted" /\ run' = run /\ run > 0
        /\ \A d \in Cases \ {c} : status'[d] = status[d]
    BY <1>1, <1>5 DEF Settle, RT!Settle, StageInv
  <2>2. CASE status'[c] = "lost" /\ UNCHANGED responses
    BY <1>3, <2>1, <2>2
  <2>3. ASSUME status'[c] = "saved", NEW v \in Values,
               responses' = Append(responses,
                  [key |-> KeyOf[c], run |-> run, case |-> c, value |-> v])
        PROVE  RowsInv'
    <3> DEFINE row == [key |-> KeyOf[c], run |-> run, case |-> c, value |-> v]
               last == Len(responses) + 1
    <3>1. row \in Row
      BY <1>1, <2>1, EngineAssumption DEF Row, TypeOK
    <3>2. row.key = KeyOf[c] /\ row.run = run /\ row.case = c
      OBVIOUS
    <3>3. /\ Len(responses) \in Nat /\ DOMAIN responses = 1 .. Len(responses)
          /\ DOMAIN responses' = 1 .. last /\ responses'[last] = row
          /\ \A n \in 1 .. Len(responses) : responses'[n] = responses[n]
      <4>1. responses \in Seq(Row)
        BY DEF TypeOK
      <4>2. /\ responses' \in Seq(Row) /\ Len(responses') = last /\ responses'[last] = row
            /\ \A n \in 1 .. Len(responses) : responses'[n] = responses[n]
        BY <2>3, <3>1, <4>1, AppendProperties
      <4> QED
        BY <4>1, <4>2, LenProperties
    <3> HIDE DEF row
    <3>4. DOMAIN responses' = DOMAIN responses \cup {last} /\ last \notin DOMAIN responses
      BY <3>3
    <3>5. \A r, d : RowsFrom(r, d)' =
                       RowsFrom(r, d) \cup (IF r = run /\ d = c THEN {last} ELSE {})
      BY <3>2, <3>3, <3>4 DEF RowsFrom
    <3>6. RowsFrom(run, c) = {}
      BY <1>2, <2>1
    <3>7. \A n \in DOMAIN responses' : /\ responses'[n].run <= run
                                       /\ responses'[n].key = KeyOf[responses'[n].case]
      BY <1>1, <1>2, <3>2, <3>3, <3>4
    <3>8. ASSUME NEW r \in 1 .. run, NEW d \in Cases
          PROVE  \A m, n \in RowsFrom(r, d)' : m = n
      BY <1>2, <3>5, <3>6
    <3>9. ASSUME NEW d \in Cases
          PROVE  RowsFrom(run, d)' # {} <=> status'[d] = "saved"
      BY <1>2, <2>1, <2>3, <3>5
    <3> HIDE DEF last
    <3> QED
      BY <2>1, <3>7, <3>8, <3>9 DEF RowsInv
  <2> QED
    BY <1>5, <2>2, <2>3 DEF Settle
<1>6. CASE Setup \/ SaveRequest \/ Dispatch
  <2>1. UNCHANGED <<responses, run>>
    BY <1>6 DEF Setup, SaveRequest, Dispatch, tables
  <2>2. \A c \in Cases : status'[c] = "saved" <=> status[c] = "saved"
    BY <1>1, <1>6 DEF Setup, SaveRequest, Dispatch, RT!Start, RT!Accept, RT!Reject
  <2> QED
    BY <1>3, <2>1, <2>2
<1>7. CASE PollFinds \/ PollMisses \/ TimeOut \/ Score \/ Cleanup \/ Destroyed
  <2>1. UNCHANGED <<responses, run, status>>
    BY <1>7 DEF PollFinds, PollMisses, TimeOut, Score, Cleanup, Destroyed, tables,
                RT!Close, RT!Finish
  <2> QED
    BY <1>3, <2>1
<1>8. CASE Crash
  BY <1>1, <1>3, <1>8 DEF Crash, tables
<1>9. CASE UNCHANGED vars
  BY <1>3, <1>9 DEF vars, tables
<1>10. CASE Next
  BY <1>4, <1>5, <1>6, <1>7, <1>8, <1>9, <1>10 DEF Next, MainStep, Over
<1> QED
  BY <1>9, <1>10

LEMMA FoundNext ==
    ASSUME TypeOK, FoundInv, [Next]_vars
    PROVE  FoundInv'
<1>1. /\ case \in Cases /\ KeyOf \in [Cases -> Keys]
      /\ found \in [Cases -> Row \cup {NoRow}] /\ responses \in Seq(Row)
  BY EngineAssumption DEF TypeOK
<1>2. ASSUME \A n \in DOMAIN responses :
                n \in DOMAIN responses' /\ responses'[n] = responses[n],
             \A c \in Cases : \/ found'[c] = found[c]
                              \/ found'[c] = NoRow
                              \/ \E n \in RowsOf(KeyOf[c]) : found'[c] = responses[n]
      PROVE  FoundInv'
  <2>1. ASSUME NEW c \in Cases, found'[c] # NoRow
        PROVE  \E n \in RowsOf(KeyOf[c])' : found'[c] = responses'[n]
    <3>1. PICK n \in RowsOf(KeyOf[c]) : found'[c] = responses[n]
      BY <1>2, <2>1 DEF FoundInv
    <3>2. n \in DOMAIN responses' /\ responses'[n] = responses[n]
          /\ responses[n].key = KeyOf[c]
      BY <1>2, <3>1 DEF RowsOf
    <3> QED
      BY <3>1, <3>2 DEF RowsOf
  <2> QED
    BY <2>1 DEF FoundInv
<1>3. CASE PollFinds
  <2>1. KeyOf[case] \in Keys /\ RowsOf(KeyOf[case]) # {} /\ UNCHANGED responses
        /\ found' = [found EXCEPT ![case] = Latest(KeyOf[case])]
    BY <1>1, <1>3 DEF PollFinds, tables
  <2>2. \E n \in RowsOf(KeyOf[case]) : Latest(KeyOf[case]) = responses[n]
    BY <2>1, LatestIsARow
  <2>3. \A c \in Cases : found'[c] = IF c = case THEN Latest(KeyOf[case]) ELSE found[c]
    BY <1>1, <2>1
  <2> QED
    BY <1>2, <2>1, <2>2, <2>3
<1>4. ASSUME NEW c \in Cases, Settle(c)
      PROVE  FoundInv'
  <2>1. UNCHANGED found
    BY <1>4 DEF Settle, results
  <2>2. CASE UNCHANGED responses
    BY <1>2, <2>1, <2>2
  <2>3. CASE \E row : responses' = Append(responses, row)
    <3>1. PICK row : responses' = Append(responses, row)
      BY <2>3
    <3>2. \A n \in DOMAIN responses : n \in DOMAIN responses' /\ responses'[n] = responses[n]
      BY <1>1, <3>1
    <3> QED
      BY <1>2, <2>1, <3>2
  <2> QED
    BY <1>4, <2>2, <2>3 DEF Settle
<1>5. CASE StartRun
  BY <1>2, <1>5 DEF StartRun, Fresh, tables
<1>6. CASE \/ Setup \/ SaveRequest \/ Dispatch \/ PollMisses \/ TimeOut \/ Score
           \/ Cleanup \/ Destroyed \/ Crash \/ UNCHANGED vars
  <2>1. UNCHANGED <<responses, found>>
    BY <1>6 DEF Setup, SaveRequest, Dispatch, PollMisses, TimeOut, Score, Cleanup, Destroyed,
                Crash, vars, tables, results
  <2> QED
    BY <1>2, <2>1
<1>7. CASE Next
  BY <1>3, <1>4, <1>5, <1>6, <1>7 DEF Next, MainStep, Over
<1> QED
  BY <1>6, <1>7

-----------------------------------------------------------------------------
(* Theorems                                                                  *)

(* Where run_plan is, what it has decided, whose answer each row is and      *)
(* which row each result is, through any number of runs and crashes          *)
(* (engine.c:20-193).                                                        *)
THEOREM EngineInvariant == SafeSpec => []EngineInv
<1>1. Init => EngineInv
  <2> SUFFICES ASSUME Init
               PROVE  EngineInv
    OBVIOUS
  <2>1. /\ NumCases \in Nat \ {0} /\ Polls \in Nat \ {0} /\ MaxRuns \in Nat
        /\ Cases = 1 .. NumCases
    BY EngineAssumption DEF Cases
  <2>2. 1 \in Cases /\ 0 \in 0 .. MaxRuns /\ 0 \in 0 .. Polls
    BY <2>1
  <2>3. <<>> \in Seq(Row) /\ DOMAIN <<>> = {}
    BY EmptySeq
  <2>4. /\ responses = <<>> /\ pc = "off" /\ run = 0 /\ phase = "starting"
        /\ status = [c \in Cases |-> "new"]
    BY DEF Init, RT!Init
  <2>5. TypeOK
    BY <2>2, <2>3, <2>4 DEF Init, TypeOK
  <2>6. StageInv
    BY <2>4 DEF StageInv
  <2>7. ResultsInv
    BY <2>4 DEF Init, ResultsInv
  <2>8. RowsInv
    BY <2>3, <2>4 DEF RowsInv
  <2>9. FoundInv
    BY DEF Init, FoundInv
  <2> QED
    BY <2>5, <2>6, <2>7, <2>8, <2>9 DEF EngineInv
<1>2. EngineInv /\ [Next]_vars => EngineInv'
  BY TypeNext, StageNext, ResultsNext, RowsNext, FoundNext DEF EngineInv
<1> QED
  BY <1>1, <1>2, PTL DEF SafeSpec

(* The exit code is 0 if and only if every case was accepted, answered and   *)
(* passed (engine.c:63-64, 82-108, 132-169).                                 *)
THEOREM EngineExitCodeTells == SafeSpec => []ExitCodeTells
<1>1. EngineInv => ExitCodeTells
  <2> SUFFICES ASSUME EngineInv, pc = "ended"
               PROVE  exit_code = 0 <=>
                        \A c \in Cases : /\ status[c] \in {"saved", "lost"}
                                         /\ found[c] # NoRow
                                         /\ request_ok[c] /\ assertions_ok[c]
    BY DEF ExitCodeTells
  <2>1. exit_code = 0 <=> \A c \in Cases : Dispatched(c) /\ assertions_ok[c]
    BY DEF EngineInv, ResultsInv
  <2>2. \A c \in Cases : Dispatched(c) <=> status[c] \in {"saved", "lost"}
    BY DEF EngineInv, TypeOK, StageInv, Dispatched
  <2>3. \A c \in Cases : assertions_ok[c] => request_ok[c] /\ found[c] # NoRow
    BY DEF EngineInv, ResultsInv
  <2> QED
    BY <2>1, <2>2, <2>3
<1> QED
  BY <1>1, EngineInvariant, PTL

(* A case leaves one row per run if its response was saved, none otherwise   *)
(* (engine.c:130-139, 180-182, orchestrator.c:102-135).                      *)
THEOREM EngineOneRowPerSavedTask == SafeSpec => []OneRowPerSavedTask
<1>1. EngineInv => OneRowPerSavedTask
  <2> SUFFICES ASSUME EngineInv
               PROVE  OneRowPerSavedTask
    OBVIOUS
  <2>1. ASSUME NEW r \in 1 .. run, NEW c \in Cases
        PROVE  Cardinality(RowsFrom(r, c)) <= 1
    <3>1. \A m, n \in RowsFrom(r, c) : m = n
      BY DEF EngineInv, RowsInv
    <3>2. CASE RowsFrom(r, c) = {}
      BY <3>2, FS_EmptySet
    <3>3. CASE RowsFrom(r, c) # {}
      <4>1. PICK n : n \in RowsFrom(r, c)
        BY <3>3
      <4>2. RowsFrom(r, c) = {n}
        BY <3>1, <4>1
      <4>3. Cardinality({n}) = 1
        BY FS_Singleton
      <4> QED
        BY <4>2, <4>3
    <3> QED
      BY <3>2, <3>3
  <2>2. run > 0 => \A c \in Cases : RowsFrom(run, c) # {} <=> status[c] = "saved"
    BY DEF EngineInv, RowsInv
  <2>3. pc = "ended" => \A c \in Cases : status[c] # "accepted"
    BY DEF EngineInv, StageInv
  <2> QED
    BY <2>1, <2>2, <2>3 DEF OneRowPerSavedTask
<1> QED
  BY <1>1, EngineInvariant, PTL

(* A case is scored by its own answer of this run, unless an earlier run or  *)
(* another case shares its identity (db_manager.c:493-524).                  *)
THEOREM EngineAnswerIsOwnUnlessShared == SafeSpec => []AnswerIsOwnUnlessShared
<1>1. EngineInv => AnswerIsOwnUnlessShared
  <2> SUFFICES ASSUME EngineInv, NEW c \in Cases, found[c] # NoRow
               PROVE  \/ found[c].run = run /\ found[c].case = c
                      \/ \E n \in RowsOf(KeyOf[c]) : responses[n].run < run
                      \/ \E d \in Cases \ {c} : KeyOf[d] = KeyOf[c]
    BY DEF AnswerIsOwnUnlessShared
  <2>1. PICK n \in RowsOf(KeyOf[c]) : found[c] = responses[n]
    BY DEF EngineInv, FoundInv
  <2>2. n \in DOMAIN responses /\ responses[n].key = KeyOf[c]
    BY <2>1 DEF RowsOf
  <2>3. responses[n].run \in Nat /\ responses[n].case \in Cases /\ run \in Nat
    BY <2>2, RowTypes, RowFields, EngineAssumption DEF EngineInv, TypeOK
  <2>4. responses[n].run <= run /\ KeyOf[responses[n].case] = KeyOf[c]
    BY <2>2 DEF EngineInv, RowsInv
  <2> QED
    BY <2>1, <2>3, <2>4
<1> QED
  BY <1>1, EngineInvariant, PTL
=============================================================================
