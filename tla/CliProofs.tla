----------------------------- MODULE CliProofs -----------------------------
(***************************************************************************)
(* Proofs about module Cli, for every set of command lines and every       *)
(* number of assertions: each block of the heap is freed once, by its      *)
(* owner, whatever is refused or fails on the way, and exit code 0 means   *)
(* that every expectation on the command line was checked.                 *)
(***************************************************************************)
EXTENDS Cli, SequenceTheorems, TLAPS

-----------------------------------------------------------------------------
(* Sequences whose elements are not typed *)

LEMMA EverySequence ==
    ASSUME NEW S, NEW t \in Seq(S)
    PROVE  IsSequence(t)
<1>1. t \in [1 .. Len(t) -> S] /\ DOMAIN t = 1 .. Len(t) /\ Len(t) \in Nat
  OBVIOUS
<1>2. \A n \in 1 .. Len(t) : t[n] \in ToSet(t)
  BY <1>1 DEF ToSet
<1>3. t \in [1 .. Len(t) -> ToSet(t)]
  BY <1>1, <1>2
<1> QED
  BY <1>1, <1>3, SeqDef DEF IsSequence

\* Append makes a sequence that is one longer and keeps what was there.
LEMMA AppendAnything ==
    ASSUME NEW s, IsSequence(s), NEW e
    PROVE  LET t == Append(s, e) IN
           /\ IsSequence(t)
           /\ DOMAIN s = 1 .. Len(s) /\ DOMAIN t = 1 .. Len(s) + 1 /\ Len(s) \in Nat
           /\ \A n \in DOMAIN s : t[n] = s[n]
           /\ t[Len(s) + 1] = e
<1> DEFINE S == ToSet(s) \cup {e}
           t == Append(s, e)
<1>1. s \in Seq(S)
  BY DEF IsSequence
<1>2. /\ t \in Seq(S)
      /\ Len(t) = Len(s) + 1
      /\ \A n \in 1 .. Len(s) : t[n] = s[n]
      /\ t[Len(s) + 1] = e
  BY <1>1, AppendProperties
<1>3. DOMAIN s = 1 .. Len(s) /\ DOMAIN t = 1 .. Len(s) + 1 /\ Len(s) \in Nat
  BY <1>1, <1>2
<1>4. IsSequence(t)
  BY <1>2, EverySequence
<1> QED
  BY <1>2, <1>3, <1>4

LEMMA NothingIsASequence == IsSequence(<<>>) /\ DOMAIN <<>> = {} /\ ToSet(<<>>) = {}
  BY DEF IsSequence, ToSet

\* What a list holds after an append.
LEMMA AppendAddsOne ==
    ASSUME NEW s, IsSequence(s), NEW e
    PROVE  ToSet(Append(s, e)) = ToSet(s) \cup {e}
<1>1. \A n \in 1 .. Len(s) + 1 : n \in 1 .. Len(s) \/ n = Len(s) + 1
  BY AppendAnything
<1> QED
  BY <1>1, AppendAnything DEF ToSet

-----------------------------------------------------------------------------
(* Who owns a block *)

\* The pointers of a plan, one by one.
LEMMA PointerOf ==
    ASSUME NEW p, NEW x
    PROVE  x \in PointersOf(p) <=>
              \/ x \in p.strings
              \/ /\ x # NULL
                 /\ \E n \in DOMAIN p.assertions :
                       \E field \in DOMAIN p.assertions[n].at :
                          x = p.assertions[n].at[field]
<1> DEFINE U == UNION {ToSet(p.assertions[n].at) : n \in DOMAIN p.assertions}
<1>1. x \in U <=> \E n \in DOMAIN p.assertions : x \in ToSet(p.assertions[n].at)
  OBVIOUS
<1>2. ASSUME NEW n \in DOMAIN p.assertions
      PROVE  x \in ToSet(p.assertions[n].at) <=>
                \E field \in DOMAIN p.assertions[n].at : x = p.assertions[n].at[field]
  BY DEF ToSet
<1>3. PointersOf(p) = p.strings \cup (U \ {NULL})
  BY DEF PointersOf
<1> HIDE DEF U
<1> QED
  BY <1>1, <1>2, <1>3

LEMMA NoPlanPointsNowhere ==
    PointersOf(NoPlan) = {} /\ NoPlan.strings = {} /\ NoPlan.assertions = <<>>
<1>1. NoPlan.strings = {} /\ NoPlan.assertions = <<>>
  BY DEF NoPlan
<1>2. ASSUME NEW x PROVE x \notin PointersOf(NoPlan)
  BY <1>1, PointerOf, NothingIsASequence
<1> QED
  BY <1>1, <1>2

\* The options' bytes and the plan's copies are different blocks.
LEMMA OwnersApart ==
    ASSUME OptionsInv, PlanInv
    PROVE  ToSet(owned) \cap PointersOf(plan) = {}
<1> SUFFICES ASSUME NEW x \in ToSet(owned), x \in PointersOf(plan) PROVE FALSE
  OBVIOUS
<1>1. PICK m \in DOMAIN owned : x = HexBlock(m)
  BY DEF OptionsInv, ToSet
<1>2. x[1] = "hex"
  BY <1>1 DEF HexBlock
<1>3. CASE x \in plan.strings
  BY <1>2, <1>3 DEF PlanInv, Single
<1>4. CASE x \notin plan.strings
  <2>1. PICK n \in DOMAIN plan.assertions :
           \E field \in DOMAIN plan.assertions[n].at :
              x # NULL /\ x = plan.assertions[n].at[field]
    BY <1>4, PointerOf
  <2>2. PICK field \in DOMAIN plan.assertions[n].at : x = CopyOf(n, field)
    BY <2>1 DEF PlanInv
  <2> QED
    BY <1>2, <2>2 DEF CopyOf
<1> QED
  BY <1>3, <1>4

-----------------------------------------------------------------------------
LEMMA CliInit == Init => CliInv
<1> SUFFICES ASSUME Init PROVE CliInv
  OBVIOUS
<1>1. OptionsInv
  BY NothingIsASequence DEF Init, OptionsInv
<1>2. PlanInv
  BY NothingIsASequence, NoPlanPointsNowhere DEF Init, PlanInv, NoPlan
<1>3. OwnersInv
  BY NothingIsASequence, NoPlanPointsNowhere DEF Init, OwnersInv
<1> QED
  BY <1>1, <1>2, <1>3 DEF CliInv

\* One more option; the bytes that were decoded for it, if any, are owned.
LEMMA AddKeepsOptions ==
    ASSUME OptionsInv, NEW kind, NEW value, NEW at,
           options' = Append(options, Assertion(kind, value, at)),
           \/ owned' = owned
           \/ owned' = Append(owned, HexBlock(Len(owned) + 1))
    PROVE  OptionsInv'
<1> DEFINE a == Assertion(kind, value, at)
<1>1. a = Assertion(a.kind, a.value, a.at)
  BY DEF Assertion
<1>2. IsSequence(options') /\ \A n \in DOMAIN options' :
         options'[n] = Assertion(options'[n].kind, options'[n].value, options'[n].at)
  <2> HIDE DEF a
  <2>1. options' = Append(options, a) /\ IsSequence(options)
    BY DEF OptionsInv, a
  <2>2. \A n \in DOMAIN options' : n \in DOMAIN options \/ n = Len(options) + 1
    BY <2>1, AppendAnything
  <2>3. IsSequence(options') /\ options'[Len(options) + 1] = a
        /\ \A n \in DOMAIN options : options'[n] = options[n]
    BY <2>1, AppendAnything
  <2> QED
    BY <1>1, <2>2, <2>3 DEF OptionsInv
<1>3. IsSequence(owned') /\ \A n \in DOMAIN owned' : owned'[n] = HexBlock(n)
  <2>1. CASE owned' = owned
    BY <2>1 DEF OptionsInv
  <2>2. CASE owned' = Append(owned, HexBlock(Len(owned) + 1))
    <3>1. IsSequence(owned)
      BY DEF OptionsInv
    <3>2. \A n \in DOMAIN owned' : n \in DOMAIN owned \/ n = Len(owned) + 1
      BY <2>2, <3>1, AppendAnything
    <3>3. IsSequence(owned') /\ owned'[Len(owned) + 1] = HexBlock(Len(owned) + 1)
          /\ \A n \in DOMAIN owned : owned'[n] = owned[n]
      BY <2>2, <3>1, AppendAnything
    <3> QED
      BY <3>2, <3>3 DEF OptionsInv
  <2> QED
    BY <2>1, <2>2
<1> QED
  BY <1>2, <1>3 DEF OptionsInv

-----------------------------------------------------------------------------
(* Steps *)

\* Steps that leave the heap and the plan as they are, and what is owned.
LEMMA OwnersKept ==
    ASSUME CliInv, UNCHANGED <<owned, plan, heap>>,
           pc # "end", pc' # "end", pc' # "main",
           pc' \in {"options", "command", "strings", "file", "free_options"} => plan = NoPlan
    PROVE  PlanInv' /\ OwnersInv'
<1>1. PlanInv'
  BY DEF CliInv, PlanInv
<1>2. PointersOf(plan') = PointersOf(plan)
  OBVIOUS
<1> QED
  BY <1>1, <1>2 DEF CliInv, OwnersInv, heap

\* The parser: an option more, or the way to the cleanup.
LEMMA ParseKeeps == ASSUME CliInv, ParseOption PROVE CliInv'
<1> USE DEF OwnersInv
<1>1. CASE ExpectStatus
  <2>1. OptionsInv'
    <3>1. CASE UNCHANGED options
      BY <1>1, <3>1 DEF CliInv, OptionsInv, ExpectStatus
    <3>2. CASE options' # options
      BY <1>1, <3>2, AddKeepsOptions DEF CliInv, ExpectStatus, Add
    <3> QED
      BY <3>1, <3>2
  <2> QED
    BY <1>1, <2>1, OwnersKept DEF CliInv, ExpectStatus, Reading, Add, Refuse, Leave
<1>2. CASE ExpectBody
  <2> DEFINE word == argv[i + 1]
             bytes == HexBlock(Len(owned) + 1)
  <2>1. CASE UNCHANGED options /\ Refuse /\ UNCHANGED <<owned, heap>>
    <3>1. OptionsInv'
      BY <2>1 DEF CliInv, OptionsInv
    <3> QED
      BY <1>2, <2>1, <3>1, OwnersKept DEF CliInv, ExpectBody, Reading, Refuse, Leave
  <2>2. CASE /\ Add(Assertion("body", <<Bytes[word]>>, <<Argument>>), 1)
             /\ UNCHANGED <<owned, heap>>
    <3>1. OptionsInv'
      BY <2>2, AddKeepsOptions DEF CliInv, Add
    <3> QED
      BY <1>2, <2>2, <3>1, OwnersKept DEF CliInv, ExpectBody, Reading, Add
  <2>3. CASE /\ Allocate({bytes})
             /\ owned' = Append(owned, bytes)
             /\ Add(Assertion("body", <<Decode(HexDigits[word])>>, <<bytes>>), 1)
    <3>1. OptionsInv'
      BY <2>3, AddKeepsOptions DEF CliInv, Add
    <3>2. UNCHANGED <<plan, pc>> /\ pc = "options"
      BY <1>2, <2>3 DEF ExpectBody, Reading, Add
    <3>3. PlanInv' /\ PointersOf(plan') = PointersOf(plan)
      BY <3>2 DEF CliInv, PlanInv
    <3>4. ToSet(owned') = ToSet(owned) \cup {bytes}
      BY <2>3, AppendAddsOne DEF CliInv, OptionsInv
    <3>5. OwnersInv'
      BY <2>3, <3>2, <3>3, <3>4 DEF CliInv, Allocate
    <3> QED
      BY <3>1, <3>3, <3>5 DEF CliInv
  <2>4. CASE RefusePattern /\ UNCHANGED <<owned, heap>>
    <3>1. OptionsInv'
      BY <2>4, AddKeepsOptions DEF CliInv, RefusePattern
    <3> QED
      BY <1>2, <2>4, <3>1, OwnersKept
      DEF CliInv, ExpectBody, Reading, RefusePattern, Refuse, Leave
  <2> QED
    BY <1>2, <2>1, <2>2, <2>3, <2>4 DEF ExpectBody
<1>3. CASE ExpectHeader
  <2>1. OptionsInv'
    <3>1. CASE UNCHANGED options
      BY <1>3, <3>1 DEF CliInv, OptionsInv, ExpectHeader
    <3>2. CASE options' # options
      BY <1>3, <3>2, AddKeepsOptions DEF CliInv, ExpectHeader, Add
    <3> QED
      BY <3>1, <3>2
  <2> QED
    BY <1>3, <2>1, OwnersKept DEF CliInv, ExpectHeader, Reading, Add, Refuse, Leave
<1>4. CASE UnknownOption \/ EndOfOptions
  <2>1. OptionsInv'
    BY <1>4 DEF CliInv, OptionsInv, UnknownOption, EndOfOptions
  <2> QED
    BY <1>4, <2>1, OwnersKept DEF CliInv, UnknownOption, EndOfOptions, Refuse, Leave
<1> QED
  BY <1>1, <1>2, <1>3, <1>4 DEF ParseOption

\* The strings of a plan, when all of them are copied and when one is not.
LEMMA CopiedKeeps ==
    ASSUME CliInv, pc \in {"strings", "url"}, UNCHANGED <<options, owned>>,
           NEW wanted, NEW label \in {"url", "assertions"}, Copied(wanted, label),
           wanted \subseteq {Single(name) : name \in {"db_path", "collection_name", "url"}}
    PROVE  CliInv'
<1>1. PICK got \in SUBSET wanted :
         /\ Allocate(got)
         /\ plan' = [plan EXCEPT !.strings = @ \cup got]
         /\ pc' \in {label, "free_plan"}
  BY DEF Copied, Leave
<1>2. OptionsInv'
  BY DEF CliInv, OptionsInv
<1>3. plan'.strings = plan.strings \cup got /\ plan'.assertions = plan.assertions
      /\ plan' = [strings |-> plan'.strings, assertions |-> plan'.assertions]
  BY <1>1 DEF CliInv, PlanInv
<1>4. PlanInv'
  BY <1>1, <1>3 DEF CliInv, PlanInv
<1>5. PointersOf(plan') = PointersOf(plan) \cup got
  BY <1>3 DEF PointersOf
<1>6. OwnersInv'
  BY <1>1, <1>5 DEF CliInv, OwnersInv, Allocate
<1> QED
  BY <1>2, <1>4, <1>6 DEF CliInv

\* One assertion more, with those of its pointers that could be copied.
LEMMA CopyAssertionKeeps == ASSUME CliInv, CopyAssertion PROVE CliInv'
<1> DEFINE n == Len(plan.assertions) + 1
           at == NextAssertion.at
<1>1. PICK got \in SUBSET DOMAIN at :
         /\ Allocate({CopyOf(n, field) : field \in got})
         /\ plan' = [plan EXCEPT !.assertions = Append(@,
               [NextAssertion EXCEPT !.at = [field \in DOMAIN @ |->
                    IF field \in got THEN CopyOf(n, field) ELSE NULL]])]
  BY DEF CopyAssertion
<1> DEFINE a == [NextAssertion EXCEPT !.at = [field \in DOMAIN @ |->
                    IF field \in got THEN CopyOf(n, field) ELSE NULL]]
<1>2. OptionsInv'
  BY DEF CopyAssertion, CliInv, OptionsInv
<1>3. n \in DOMAIN options
  <2>1. DOMAIN plan.assertions = 1 .. Len(plan.assertions) /\ Len(plan.assertions) \in Nat
    BY AppendAnything DEF CliInv, PlanInv
  <2>2. DOMAIN options = 1 .. Len(options) /\ Len(options) \in Nat
    BY AppendAnything DEF CliInv, OptionsInv
  <2> QED
    BY <2>1, <2>2 DEF CopyAssertion, Remaining
<1>4. NextAssertion = Assertion(NextAssertion.kind, NextAssertion.value, NextAssertion.at)
  BY <1>3 DEF NextAssertion, CliInv, OptionsInv
<1>5. a.at = [field \in DOMAIN at |-> IF field \in got THEN CopyOf(n, field) ELSE NULL]
  BY <1>4 DEF Assertion
<1> HIDE DEF a, n, at
<1>6. /\ plan'.strings = plan.strings
      /\ plan'.assertions = Append(plan.assertions, a)
      /\ plan' = [strings |-> plan'.strings, assertions |-> plan'.assertions]
  BY <1>1 DEF CliInv, PlanInv, a, n
<1>7. /\ IsSequence(plan'.assertions)
      /\ \A m \in DOMAIN plan.assertions : plan'.assertions[m] = plan.assertions[m]
      /\ plan'.assertions[n] = a
      /\ \A m \in DOMAIN plan'.assertions : m \in DOMAIN plan.assertions \/ m = n
      /\ DOMAIN plan.assertions \subseteq DOMAIN plan'.assertions
      /\ n \in DOMAIN plan'.assertions
  BY <1>6, AppendAnything DEF CliInv, PlanInv, n
<1>8. PlanInv'
  <2>1. ASSUME NEW m \in DOMAIN plan'.assertions,
               NEW field \in DOMAIN plan'.assertions[m].at
        PROVE  plan'.assertions[m].at[field] \in {NULL, CopyOf(m, field)}
    <3>1. CASE m \in DOMAIN plan.assertions
      BY <2>1, <3>1, <1>7 DEF CliInv, PlanInv
    <3>2. CASE m = n
      BY <2>1, <3>2, <1>5, <1>7
    <3> QED
      BY <3>1, <3>2, <1>7
  <2> QED
    BY <1>6, <1>7, <2>1 DEF CliInv, PlanInv
<1>9. PointersOf(plan') = PointersOf(plan) \cup {CopyOf(n, field) : field \in got}
  <2>1. ASSUME NEW x \in PointersOf(plan')
        PROVE  x \in PointersOf(plan) \cup {CopyOf(n, field) : field \in got}
    <3>1. CASE x \in plan.strings
      BY <3>1, PointerOf
    <3>2. CASE x \notin plan.strings
      <4>1. PICK m \in DOMAIN plan'.assertions :
               \E field \in DOMAIN plan'.assertions[m].at :
                  x # NULL /\ x = plan'.assertions[m].at[field]
        BY <3>2, <1>6, PointerOf
      <4>2. CASE m \in DOMAIN plan.assertions
        BY <4>1, <4>2, <1>7, PointerOf
      <4>3. CASE m = n
        BY <4>1, <4>3, <1>5, <1>7
      <4> QED
        BY <4>2, <4>3, <1>7
    <3> QED
      BY <3>1, <3>2
  <2>2. ASSUME NEW x \in PointersOf(plan) PROVE x \in PointersOf(plan')
    BY <2>2, <1>6, <1>7, PointerOf
  <2>3. ASSUME NEW field \in got PROVE CopyOf(n, field) \in PointersOf(plan')
    <3>1. CopyOf(n, field) # NULL
      BY DEF CopyOf, NULL
    <3>2. field \in DOMAIN a.at /\ a.at[field] = CopyOf(n, field)
      BY <1>5
    <3> QED
      BY <3>1, <3>2, <1>7, PointerOf
  <2> QED
    BY <2>1, <2>2, <2>3
<1>10. OwnersInv'
  BY <1>1, <1>9 DEF CopyAssertion, CliInv, OwnersInv, Allocate, n
<1> QED
  BY <1>2, <1>8, <1>10 DEF CliInv

\* The file's plan, or none.
LEMMA ParseFileKeeps == ASSUME CliInv, ParseFile PROVE CliInv'
<1>1. OptionsInv'
  BY DEF ParseFile, CliInv, OptionsInv
<1>2. plan = NoPlan /\ pc = "file"
  BY DEF ParseFile, CliInv, OwnersInv
<1>3. CASE /\ Allocate({Single("dsl")})
           /\ plan' = [plan EXCEPT !.strings = {Single("dsl")}]
           /\ pc' = "run_plan"
  <2>1. plan' = [strings |-> {Single("dsl")}, assertions |-> <<>>]
    BY <1>2, <1>3 DEF NoPlan
  <2>2. PlanInv'
    BY <2>1, NothingIsASequence DEF PlanInv
  <2>3. PointersOf(plan') = {Single("dsl")}
    <3>1. DOMAIN plan'.assertions = {} /\ plan'.strings = {Single("dsl")}
      BY <2>1, NothingIsASequence
    <3>2. \A x : x \in PointersOf(plan') <=> x \in {Single("dsl")}
      BY <3>1, PointerOf
    <3> QED
      BY <3>2
  <2>4. OwnersInv'
    BY <1>2, <1>3, <2>3, NoPlanPointsNowhere
    DEF ParseFile, CliInv, OwnersInv, Allocate
  <2> QED
    BY <1>1, <2>2, <2>4 DEF CliInv
<1>4. CASE \E code \in {1, 2} : Leave(code, "free_plan") /\ UNCHANGED <<plan, heap>>
  BY <1>1, <1>2, <1>4, OwnersKept DEF ParseFile, CliInv, Leave
<1> QED
  BY <1>3, <1>4 DEF ParseFile

\* Freed is what the plan owns, and left is what the options own.
LEMMA FreePlanKeeps == ASSUME CliInv, FreePlan PROVE CliInv'
<1>1. OptionsInv'
  BY DEF FreePlan, CliInv, OptionsInv
<1>2. PlanInv'
  BY NothingIsASequence, NoPlanPointsNowhere DEF FreePlan, PlanInv, NoPlan
<1>3. live' = ToSet(owned) /\ ~ wild'
  BY OwnersApart DEF FreePlan, Free, CliInv, OwnersInv
<1>4. OwnersInv'
  BY <1>3, NoPlanPointsNowhere DEF FreePlan, OwnersInv
<1> QED
  BY <1>1, <1>2, <1>4 DEF CliInv

LEMMA FreeOptionsKeeps == ASSUME CliInv, FreeOptions PROVE CliInv'
<1>1. OptionsInv'
  BY DEF FreeOptions, CliInv, OptionsInv
<1>2. PlanInv'
  BY DEF FreeOptions, CliInv, PlanInv
<1>3. live = ToSet(owned)
  BY NoPlanPointsNowhere DEF FreeOptions, CliInv, OwnersInv
<1>4. OwnersInv'
  BY <1>3 DEF FreeOptions, Free, CliInv, OwnersInv
<1> QED
  BY <1>1, <1>2, <1>4 DEF CliInv

\* One step of the program.
LEMMA CliNext == ASSUME CliInv, [Next]_vars PROVE CliInv'
<1>1. CASE Main
  <2>1. OptionsInv'
    BY <1>1 DEF Main, CliInv, OptionsInv
  <2>2. CASE pc' = "end"
    <3>1. PlanInv'
      BY <1>1 DEF Main, CliInv, PlanInv
    <3>2. live = {}
      BY <1>1, NothingIsASequence, NoPlanPointsNowhere DEF Main, CliInv, OwnersInv
    <3>3. OwnersInv'
      BY <1>1, <2>2, <3>2 DEF Main, CliInv, OwnersInv, heap
    <3> QED
      BY <2>1, <3>1, <3>3 DEF CliInv
  <2>3. CASE pc' = "options"
    BY <1>1, <2>1, <2>3, OwnersKept DEF Main, CliInv, OwnersInv
  <2> QED
    BY <1>1, <2>2, <2>3 DEF Main, Leave
<1>2. CASE ParseOption
  BY <1>2, ParseKeeps
<1>3. CASE RunCommand
  <2>1. OptionsInv'
    BY <1>3 DEF RunCommand, CliInv, OptionsInv
  <2>2. pc' \in {"strings", "free_plan", "file", "free_options"}
    BY <1>3 DEF RunCommand, Leave
  <2> QED
    BY <1>3, <2>1, <2>2, OwnersKept DEF RunCommand, CliInv, OwnersInv
<1>4. CASE CopyStrings
  BY <1>4, CopiedKeeps DEF CopyStrings
<1>5. CASE CopyUrl
  BY <1>5, CopiedKeeps DEF CopyUrl
<1>6. CASE CopyAssertion
  BY <1>6, CopyAssertionKeeps
<1>7. CASE AllCopied \/ RunPlan
  <2>1. OptionsInv'
    BY <1>7 DEF AllCopied, RunPlan, CliInv, OptionsInv
  <2> QED
    BY <1>7, <2>1, OwnersKept DEF AllCopied, RunPlan, Leave, CliInv
<1>8. CASE ParseFile
  BY <1>8, ParseFileKeeps
<1>9. CASE FreePlan
  BY <1>9, FreePlanKeeps
<1>10. CASE FreeOptions
  BY <1>10, FreeOptionsKeeps
<1>11. CASE UNCHANGED vars
  BY <1>11 DEF vars, heap, CliInv, OptionsInv, PlanInv, OwnersInv
<1> QED
  BY <1>1, <1>2, <1>3, <1>4, <1>5, <1>6, <1>7, <1>8, <1>9, <1>10, <1>11
  DEF Next, MakePlan, Ended

\* The heap is what the options and the plan own, at every step of the program.
THEOREM CliInvariant == Spec => []CliInv
<1>1. Init => CliInv
  BY CliInit
<1>2. CliInv /\ [Next]_vars => CliInv'
  BY CliNext
<1> QED
  BY <1>1, <1>2, PTL DEF Spec

\* Each block is freed once, by its owner, and none is left at the end
\* (cli_parser.c:111-123, 167-172, commands.c:80-111, 163-196, run_plan.c:23-82).
THEOREM CliEachBlockFreedOnce == Spec => []EachBlockFreedOnce
<1>1. CliInv => EachBlockFreedOnce
  BY DEF CliInv, OwnersInv, EachBlockFreedOnce
<1> QED
  BY <1>1, CliInvariant, PTL

-----------------------------------------------------------------------------
(* What the command line says *)

LEMMA LineStays ==
    ASSUME argv' = argv
    PROVE  \A list, end : Expected(list, end)' <=> Expected(list, end)
<1>1. \A starts, end : AreOptions(starts, end)' <=> AreOptions(starts, end)
  BY DEF AreOptions
<1>2. \A s : Says(s)' = Says(s)
  BY DEF Says
<1> QED
  BY <1>1, <1>2 DEF Expected

\* Behind the options so far one more is read, with its values.
LEMMA OneOptionMore ==
    ASSUME argv \in Seq(Words), NEW list, IsSequence(list),
           NEW end \in 3 .. Len(argv), Expected(list, end),
           argv[end] \in OptionWords,
           argv[end] = "--expect-body" /\ argv[end + 1] \in DOMAIN HexDigits =>
              IsHex(HexDigits[argv[end + 1]]),
           NEW next, next = end + Values(argv[end]) + 1,
           NEW a, Says(end) = <<a.kind, a.value>>
    PROVE  Expected(Append(list, a), next)
<1> DEFINE n == Len(list) + 1
           t == Append(list, a)
<1>1. /\ DOMAIN list = 1 .. Len(list) /\ DOMAIN t = 1 .. n /\ Len(list) \in Nat
      /\ \A k \in DOMAIN list : t[k] = list[k]
      /\ t[n] = a
  BY AppendAnything
<1>2. PICK starts \in [DOMAIN list -> 3 .. end - 1] :
         /\ AreOptions(starts, end)
         /\ \A k \in DOMAIN list : Says(starts[k]) = <<list[k].kind, list[k].value>>
  BY DEF Expected
<1> DEFINE more == [k \in DOMAIN t |-> IF k = n THEN end ELSE starts[k]]
           Nth(k) == IF k \in DOMAIN starts THEN starts[k] ELSE end
           NthMore(k) == IF k \in DOMAIN more THEN more[k] ELSE next
<1> HIDE DEF t
<1>3. Len(argv) \in Nat /\ Values(argv[end]) \in {1, 2} /\ end \in Nat /\ next \in Nat
      /\ end <= next - 1
  BY LenProperties DEF Values
<1>4. more \in [DOMAIN t -> 3 .. next - 1]
  <2>1. ASSUME NEW k \in DOMAIN t PROVE more[k] \in 3 .. next - 1
    <3>1. CASE k = n
      BY <1>3, <3>1
    <3>2. CASE k # n
      <4>1. k \in DOMAIN list
        BY <1>1, <3>2
      <4>2. starts[k] \in 3 .. end - 1
        BY <1>2, <4>1
      <4> QED
        BY <1>3, <3>2, <4>2
    <3> QED
      BY <3>1, <3>2
  <2> QED
    BY <2>1
<1>5. \A k \in DOMAIN list : k \in DOMAIN t /\ k # n /\ k + 1 \in DOMAIN t
  BY <1>1
<1>6. DOMAIN starts = DOMAIN list /\ DOMAIN more = DOMAIN t /\ n \in DOMAIN t
      /\ n + 1 \notin DOMAIN t /\ n \notin DOMAIN list
  BY <1>1, <1>2
<1>7. \A k \in 1 .. n : NthMore(k) = Nth(k)
  <2>1. ASSUME NEW k \in 1 .. n PROVE NthMore(k) = Nth(k)
    <3>1. CASE k = n
      BY <1>1, <1>6, <3>1
    <3>2. CASE k # n
      <4>1. k \in DOMAIN list /\ k \in DOMAIN t
        BY <1>1, <3>2
      <4> QED
        BY <1>6, <3>2, <4>1
    <3> QED
      BY <3>1, <3>2
  <2> QED
    BY <2>1
<1>8. /\ Nth(1) = 3
      /\ \A k \in DOMAIN starts :
            LET word == argv[starts[k]]
                value == argv[starts[k] + 1]
            IN /\ word \in OptionWords
               /\ Nth(k + 1) = starts[k] + Values(word) + 1
               /\ word = "--expect-body" /\ value \in DOMAIN HexDigits =>
                     IsHex(HexDigits[value])
  BY <1>2 DEF AreOptions
<1>9. NthMore(1) = 3
  <2>1. 1 \in 1 .. n
    BY <1>1
  <2> QED
    BY <1>7, <1>8, <2>1
<1>10. ASSUME NEW k \in DOMAIN more
       PROVE  LET word == argv[more[k]]
                  value == argv[more[k] + 1]
              IN /\ word \in OptionWords
                 /\ NthMore(k + 1) = more[k] + Values(word) + 1
                 /\ word = "--expect-body" /\ value \in DOMAIN HexDigits =>
                       IsHex(HexDigits[value])
  <2>1. CASE k = n
    <3>1. more[k] = end /\ NthMore(k + 1) = next
      BY <1>6, <2>1
    <3> QED
      BY <3>1
  <2>2. CASE k # n
    <3>1. k \in DOMAIN list /\ k + 1 \in 1 .. n
      BY <1>1, <1>6, <2>2
    <3>2. more[k] = starts[k] /\ NthMore(k + 1) = Nth(k + 1)
      BY <1>5, <1>7, <2>2, <3>1
    <3> HIDE DEF more, Nth, NthMore
    <3> QED
      BY <1>6, <1>8, <3>1, <3>2
  <2> QED
    BY <2>1, <2>2
<1>11. AreOptions(more, next)
  BY <1>9, <1>10 DEF AreOptions
<1>12. ASSUME NEW k \in DOMAIN t PROVE Says(more[k]) = <<t[k].kind, t[k].value>>
  <2>1. CASE k = n
    BY <1>1, <2>1
  <2>2. CASE k # n
    <3>1. k \in DOMAIN list
      BY <1>1, <2>2
    <3>2. more[k] = starts[k] /\ t[k] = list[k]
      BY <1>1, <2>2, <3>1
    <3> QED
      BY <1>2, <3>1, <3>2
  <2> QED
    BY <2>1, <2>2
<1> HIDE DEF more
<1>13. Expected(t, next)
  BY <1>4, <1>11, <1>12 DEF Expected
<1> QED
  BY <1>13 DEF t

\* What is expected of a list is expected of its copies.
LEMMA SameAssertions ==
    ASSUME NEW list, NEW copies, NEW end, Expected(list, end),
           DOMAIN copies = DOMAIN list,
           \A n \in DOMAIN copies :
              copies[n].kind = list[n].kind /\ copies[n].value = list[n].value
    PROVE  Expected(copies, end)
<1>1. PICK starts \in [DOMAIN list -> 3 .. end - 1] :
         /\ AreOptions(starts, end)
         /\ \A n \in DOMAIN list : Says(starts[n]) = <<list[n].kind, list[n].value>>
  BY DEF Expected
<1>2. \A n \in DOMAIN copies : Says(starts[n]) = <<copies[n].kind, copies[n].value>>
  BY <1>1
<1> QED
  BY <1>1, <1>2 DEF Expected

-----------------------------------------------------------------------------
(* Steps, and what was read *)

LEMMA SuccessInit == Init => SuccessInv
<1> SUFFICES ASSUME Init PROVE SuccessInv
  OBVIOUS
<1>1. argv \in Seq(Words) /\ pc = "main" /\ i = 3 /\ options = <<>>
  BY CliAssumption DEF Init
<1>2. Expected(options, i)
  <2>1. DOMAIN options = {}
    BY <1>1, NothingIsASequence
  <2> DEFINE none == [n \in DOMAIN options |-> 0]
  <2>2. none \in [DOMAIN options -> 3 .. i - 1] /\ DOMAIN none = {}
    BY <2>1
  <2> HIDE DEF none
  <2>3. AreOptions(none, i)
    BY <1>1, <2>2 DEF AreOptions
  <2> QED
    BY <2>1, <2>2, <2>3 DEF Expected
<1>3. ReadInv
  BY <1>1, <1>2 DEF ReadInv
<1>4. CheckedInv
  BY <1>1 DEF CheckedInv
<1> QED
  BY <1>3, <1>4, CliInit DEF SuccessInv

\* An option is read with its values.
LEMMA AddReads ==
    ASSUME SuccessInv, pc = "options", i <= Len(argv), argv[i] \in OptionWords,
           NEW n, n = Values(argv[i]), i + n <= Len(argv),
           argv[i] = "--expect-body" /\ argv[i + 1] \in DOMAIN HexDigits =>
              IsHex(HexDigits[argv[i + 1]]),
           NEW kind, NEW value, NEW at, Add(Assertion(kind, value, at), n),
           Says(i) = <<kind, value>>, argv' = argv
    PROVE  ReadInv' /\ CheckedInv'
<1> DEFINE a == Assertion(kind, value, at)
<1>1. /\ options' = Append(options, a) /\ i' = i + n + 1 /\ pc' = "options"
  BY DEF Add
<1>2. a.kind = kind /\ a.value = value
  BY DEF Assertion
<1> HIDE DEF a
<1>3. /\ argv \in Seq(Words) /\ i \in 3 .. Len(argv) /\ Len(argv) \in Nat
      /\ Expected(options, i) /\ IsSequence(options)
  <2>1. argv \in Seq(Words) /\ i \in 3 .. Len(argv) + 1 /\ Expected(options, i)
    BY DEF SuccessInv, ReadInv
  <2>2. IsSequence(options)
    BY DEF SuccessInv, CliInv, OptionsInv
  <2> QED
    BY <2>1, <2>2, LenProperties
<1>4. Expected(Append(options, a), i + n + 1)
  BY <1>2, <1>3, OneOptionMore
<1>5. i' \in 3 .. Len(argv) + 1
  <2>1. n \in {1, 2}
    BY DEF Values
  <2> QED
    BY <1>1, <1>3, <2>1
<1>6. Expected(options, i)'
  <2> PICK list, end : list = options' /\ end = i'
    OBVIOUS
  <2>1. Expected(list, end)'
    BY <1>1, <1>4, LineStays
  <2> QED
    BY <2>1
<1> QED
  BY <1>1, <1>3, <1>5, <1>6 DEF ReadInv, CheckedInv

\* Whatever ends with another exit code than 0 says nothing of success.
LEMMA FailureReads ==
    ASSUME SuccessInv, argv' = argv, pc' \in {"free_plan", "free_options", "end"}, exit' # 0
    PROVE  ReadInv' /\ CheckedInv'
<1>1. argv \in Seq(Words)
  BY DEF SuccessInv, ReadInv
<1> QED
  BY <1>1 DEF ReadInv, CheckedInv

LEMMA ParseReads == ASSUME SuccessInv, ParseOption PROVE ReadInv' /\ CheckedInv'
<1>1. pc = "options" /\ argv' = argv
  <2>1. CASE ExpectStatus
    BY <2>1 DEF ExpectStatus, Reading
  <2>2. CASE ExpectBody
    BY <2>2 DEF ExpectBody, Reading
  <2>3. CASE ExpectHeader
    BY <2>3 DEF ExpectHeader, Reading
  <2>4. CASE UnknownOption \/ EndOfOptions
    BY <2>4 DEF UnknownOption, EndOfOptions, input
  <2> QED
    BY <2>1, <2>2, <2>3, <2>4 DEF ParseOption
<1>2. CASE Refuse
  BY <1>1, <1>2, FailureReads DEF Refuse, Leave
<1>3. CASE ExpectStatus /\ ~ Refuse
  <2>1. /\ i <= Len(argv) /\ argv[i] = "--expect-status" /\ i + 1 <= Len(argv)
        /\ Add(Assertion("status", <<Atoi[argv[i + 1]]>>, <<>>), 1)
    BY <1>3 DEF ExpectStatus, Reading, Fits
  <2>2. Values(argv[i]) = 1 /\ Says(i) = <<"status", <<Atoi[argv[i + 1]]>> >>
        /\ argv[i] \in OptionWords
    BY <2>1 DEF Values, Says, OptionWords
  <2> QED
    BY <1>1, <2>1, <2>2, AddReads
<1>4. CASE ExpectBody /\ ~ Refuse
  <2> DEFINE word == argv[i + 1]
             bytes == HexBlock(Len(owned) + 1)
  <2>1. /\ i <= Len(argv) /\ argv[i] = "--expect-body" /\ i + 1 <= Len(argv)
        /\ \/ /\ word \notin DOMAIN HexDigits
              /\ Add(Assertion("body", <<Bytes[word]>>, <<Argument>>), 1)
           \/ /\ word \in DOMAIN HexDigits /\ IsHex(HexDigits[word])
              /\ Add(Assertion("body", <<Decode(HexDigits[word])>>, <<bytes>>), 1)
    BY <1>4 DEF ExpectBody, Reading, Fits, RefusePattern
  <2>2. Values(argv[i]) = 1 /\ Says(i) = <<"body", <<Pattern(word)>> >>
        /\ argv[i] \in OptionWords
    BY <2>1 DEF Values, Says, OptionWords
  <2>3. CASE /\ word \notin DOMAIN HexDigits
             /\ Add(Assertion("body", <<Bytes[word]>>, <<Argument>>), 1)
    <3>1. Says(i) = <<"body", <<Bytes[word]>> >>
      BY <2>2, <2>3 DEF Pattern
    <3> QED
      BY <1>1, <2>1, <2>2, <2>3, <3>1, AddReads
  <2>4. CASE /\ word \in DOMAIN HexDigits /\ IsHex(HexDigits[word])
             /\ Add(Assertion("body", <<Decode(HexDigits[word])>>, <<bytes>>), 1)
    <3>1. Says(i) = <<"body", <<Decode(HexDigits[word])>> >>
      BY <2>2, <2>4 DEF Pattern
    <3> QED
      BY <1>1, <2>1, <2>2, <2>4, <3>1, AddReads
  <2> QED
    BY <2>1, <2>3, <2>4
<1>5. CASE ExpectHeader /\ ~ Refuse
  <2>1. /\ i <= Len(argv) /\ argv[i] = "--expect-header" /\ i + 2 <= Len(argv)
        /\ Add(Assertion("header", <<argv[i + 1], argv[i + 2]>>, <<Argument, Argument>>), 2)
    BY <1>5 DEF ExpectHeader, Reading, Fits
  <2>2. Values(argv[i]) = 2 /\ Says(i) = <<"header", <<argv[i + 1], argv[i + 2]>> >>
        /\ argv[i] \in OptionWords
    BY <2>1 DEF Values, Says, OptionWords
  <2> QED
    BY <1>1, <2>1, <2>2, AddReads
<1>6. CASE EndOfOptions
  <2>1. /\ i > Len(argv) /\ pc' = "command" /\ UNCHANGED <<argv, options>>
    BY <1>6 DEF EndOfOptions, input
  <2>2. argv \in Seq(Words) /\ i \in 3 .. Len(argv) + 1 /\ Expected(options, i)
    BY <1>1 DEF SuccessInv, ReadInv
  <2>3. i = Len(argv) + 1
    <3>1. Len(argv) \in Nat
      BY <2>2, LenProperties
    <3> QED
      BY <2>1, <2>2, <3>1
  <2>4. Expected(options, Len(argv) + 1)'
    <3> PICK list, end : list = options /\ end = Len(argv) + 1
      OBVIOUS
    <3>1. Expected(list, end)'
      BY <2>1, <2>2, <2>3, LineStays
    <3> QED
      BY <2>1, <3>1
  <2> QED
    BY <2>1, <2>2, <2>4 DEF ReadInv, CheckedInv
<1> QED
  BY <1>2, <1>3, <1>4, <1>5, <1>6 DEF ParseOption, UnknownOption

\* Between the options and the run, what was read stays.
LEMMA ReadStays ==
    ASSUME SuccessInv, UNCHANGED <<argv, options>>,
           pc \in {"command", "strings", "url", "assertions", "file"},
           pc' \in {"strings", "url", "assertions", "file", "run_plan"}
    PROVE  ReadInv'
<1>1. argv \in Seq(Words) /\ Expected(options, Len(argv) + 1)
  BY DEF SuccessInv, ReadInv
<1>2. Expected(options, Len(argv) + 1)'
  <2> PICK list, end : list = options /\ end = Len(argv) + 1
    OBVIOUS
  <2>1. Expected(list, end)'
    BY <1>1, LineStays
  <2> QED
    BY <2>1
<1> QED
  BY <1>1, <1>2 DEF ReadInv

LEMMA RunCommandReads == ASSUME SuccessInv, RunCommand PROVE ReadInv' /\ CheckedInv'
<1>1. pc = "command" /\ UNCHANGED <<argv, options, plan>>
  BY DEF RunCommand, input
<1>2. plan.assertions = <<>>
  BY <1>1, NoPlanPointsNowhere DEF SuccessInv, CliInv, OwnersInv
<1>3. \/ argv[1] = "get" /\ pc' = "strings"
      \/ pc' \in {"free_plan", "free_options"} /\ exit' = 1
      \/ argv[1] = "run" /\ pc' = "file"
      \/ argv[1] = "post" /\ pc' = "free_options"
  BY DEF RunCommand, Leave
<1>4. CASE argv[1] = "get" /\ pc' = "strings"
  BY <1>1, <1>2, <1>4, ReadStays DEF CheckedInv
<1>5. CASE pc' \in {"free_plan", "free_options"} /\ exit' = 1
  BY <1>1, <1>5, FailureReads
<1>6. CASE argv[1] = "run" /\ pc' = "file"
  BY <1>1, <1>6, ReadStays DEF CheckedInv
<1>7. CASE argv[1] = "post" /\ pc' = "free_options"
  <2>1. argv \in Seq(Words)
    BY DEF SuccessInv, ReadInv
  <2> QED
    BY <1>1, <1>7, <2>1 DEF ReadInv, CheckedInv
<1> QED
  BY <1>3, <1>4, <1>5, <1>6, <1>7

LEMMA MakePlanReads == ASSUME SuccessInv, MakePlan PROVE ReadInv' /\ CheckedInv'
<1>1. UNCHANGED <<argv, options>>
  BY DEF MakePlan, CopyStrings, CopyUrl, CopyAssertion, AllCopied, ParseFile, input
<1>2. CASE CopyStrings \/ CopyUrl
  <2>1. pc \in {"strings", "url"} /\ plan.assertions = <<>>
    BY <1>2 DEF CopyStrings, CopyUrl, SuccessInv, CheckedInv
  <2>2. PICK got : /\ plan' = [plan EXCEPT !.strings = @ \cup got]
                   /\ \/ pc' \in {"url", "assertions"}
                      \/ pc' = "free_plan" /\ exit' = 1
    <3>1. CASE CopyStrings
      BY <3>1 DEF CopyStrings, Copied, Leave
    <3>2. CASE CopyUrl
      BY <3>2 DEF CopyUrl, Copied, Leave
    <3> QED
      BY <1>2, <3>1, <3>2
  <2>3. plan'.assertions = <<>>
    BY <2>1, <2>2 DEF SuccessInv, CliInv, PlanInv
  <2>4. CASE pc' \in {"url", "assertions"}
    <3>1. FollowsOptions'
      BY <2>3, NothingIsASequence DEF FollowsOptions
    <3> QED
      BY <1>1, <2>1, <2>3, <2>4, <3>1, ReadStays DEF CheckedInv
  <2>5. CASE pc' = "free_plan" /\ exit' = 1
    BY <1>1, <2>5, FailureReads
  <2> QED
    BY <2>2, <2>4, <2>5
<1>3. CASE CopyAssertion
  <2> DEFINE n == Len(plan.assertions) + 1
  <2>1. pc = "assertions" /\ pc' = "assertions" /\ Len(plan.assertions) < Len(options)
    BY <1>3 DEF CopyAssertion, Remaining
  <2>2. PICK at : plan' = [plan EXCEPT !.assertions =
                              Append(@, [NextAssertion EXCEPT !.at = at])]
    BY <1>3 DEF CopyAssertion
  <2> DEFINE a == [NextAssertion EXCEPT !.at = at]
  <2>3. /\ DOMAIN options = 1 .. Len(options) /\ Len(options) \in Nat
        /\ DOMAIN plan.assertions = 1 .. n - 1 /\ n \in Nat /\ Len(plan.assertions) \in Nat
    BY AppendAnything DEF SuccessInv, CliInv, OptionsInv, PlanInv
  <2>4. n \in DOMAIN options
    BY <2>1, <2>3
  <2>5. NextAssertion = Assertion(NextAssertion.kind, NextAssertion.value, NextAssertion.at)
        /\ NextAssertion = options[n]
    BY <2>4 DEF NextAssertion, SuccessInv, CliInv, OptionsInv
  <2>6. a.kind = options[n].kind /\ a.value = options[n].value
    BY <2>5 DEF Assertion
  <2> HIDE DEF a
  <2>7. plan'.assertions = Append(plan.assertions, a)
    BY <2>2 DEF SuccessInv, CliInv, PlanInv, a
  <2>8. /\ DOMAIN plan'.assertions = 1 .. n
        /\ \A m \in DOMAIN plan.assertions : plan'.assertions[m] = plan.assertions[m]
        /\ plan'.assertions[n] = a
    <3>1. IsSequence(plan.assertions)
      BY DEF SuccessInv, CliInv, PlanInv
    <3> QED
      BY <2>7, <3>1, AppendAnything
  <2>9. ASSUME argv[1] = "get" PROVE FollowsOptions'
    <3>1. /\ DOMAIN plan.assertions \subseteq DOMAIN options
          /\ \A m \in DOMAIN plan.assertions :
                /\ plan.assertions[m].kind = options[m].kind
                /\ plan.assertions[m].value = options[m].value
      BY <2>1, <2>9 DEF SuccessInv, CheckedInv, FollowsOptions
    <3>2. \A m \in DOMAIN plan'.assertions : m \in DOMAIN plan.assertions \/ m = n
      BY <2>3, <2>8
    <3> HIDE DEF n
    <3> QED
      BY <1>1, <2>4, <2>6, <2>8, <3>1, <3>2 DEF FollowsOptions
  <2>10. ReadInv'
    BY <1>1, <2>1, ReadStays
  <2> QED
    BY <1>1, <2>1, <2>9, <2>10 DEF CheckedInv
<1>4. CASE AllCopied
  <2>1. /\ pc = "assertions" /\ pc' = "run_plan" /\ UNCHANGED plan
        /\ ~ (Len(plan.assertions) < Len(options))
    BY <1>4 DEF AllCopied, Remaining
  <2>2. ReadInv'
    BY <1>1, <2>1, ReadStays
  <2>3. ASSUME argv[1] = "get"
        PROVE  FollowsOptions' /\ DOMAIN plan'.assertions = DOMAIN options'
    <3>1. FollowsOptions
      BY <2>1, <2>3 DEF SuccessInv, CheckedInv
    <3>2. /\ DOMAIN options = 1 .. Len(options) /\ Len(options) \in Nat
          /\ DOMAIN plan.assertions = 1 .. Len(plan.assertions) /\ Len(plan.assertions) \in Nat
      BY AppendAnything DEF SuccessInv, CliInv, OptionsInv, PlanInv
    <3>3. DOMAIN options \subseteq DOMAIN plan.assertions
      BY <2>1, <3>2
    <3> QED
      BY <1>1, <2>1, <3>1, <3>3 DEF FollowsOptions
  <2> QED
    BY <1>1, <2>1, <2>2, <2>3 DEF CheckedInv
<1>5. CASE ParseFile
  <2>1. pc = "file" /\ argv[1] # "get"
    BY <1>5 DEF ParseFile, SuccessInv, CheckedInv
  <2>2. pc' = "run_plan" \/ (pc' = "free_plan" /\ exit' # 0)
    BY <1>5 DEF ParseFile, Leave
  <2>3. CASE pc' = "run_plan"
    BY <1>1, <2>1, <2>3, ReadStays DEF CheckedInv
  <2>4. CASE pc' = "free_plan" /\ exit' # 0
    BY <1>1, <2>4, FailureReads
  <2> QED
    BY <2>2, <2>3, <2>4
<1> QED
  BY <1>2, <1>3, <1>4, <1>5 DEF MakePlan

LEMMA RunPlanReads == ASSUME SuccessInv, RunPlan PROVE ReadInv' /\ CheckedInv'
<1>1. pc = "run_plan" /\ UNCHANGED <<argv, options, plan>> /\ argv \in Seq(Words)
      /\ pc' = "free_plan"
  BY DEF RunPlan, input, Leave, SuccessInv, ReadInv
<1>2. CASE passed' = plan.assertions
  <2>1. ASSUME argv[1] = "get" PROVE Expected(passed, Len(argv) + 1)'
    <3>1. FollowsOptions /\ DOMAIN plan.assertions = DOMAIN options
          /\ Expected(options, Len(argv) + 1)
      BY <1>1, <2>1 DEF SuccessInv, CheckedInv, ReadInv
    <3>2. \A n \in DOMAIN plan.assertions :
             /\ plan.assertions[n].kind = options[n].kind
             /\ plan.assertions[n].value = options[n].value
      BY <3>1 DEF FollowsOptions
    <3>3. Expected(plan.assertions, Len(argv) + 1)
      BY <3>1, <3>2, SameAssertions
    <3> PICK list, end : list = plan.assertions /\ end = Len(argv) + 1
      OBVIOUS
    <3>4. Expected(list, end)'
      BY <1>1, <3>3, LineStays
    <3> QED
      BY <1>1, <1>2, <3>4
  <2> QED
    BY <1>1, <2>1 DEF ReadInv, CheckedInv
<1>3. CASE exit' = 1
  BY <1>1, <1>3, FailureReads
<1> QED
  BY <1>2, <1>3 DEF RunPlan, Leave

\* The cleanup changes neither the exit code nor what passed.
LEMMA CleanupReads == ASSUME SuccessInv, FreePlan \/ FreeOptions PROVE ReadInv' /\ CheckedInv'
<1>1. /\ UNCHANGED <<argv, exit, passed>> /\ argv \in Seq(Words)
      /\ pc \in {"free_plan", "free_options"} /\ pc' \in {"free_options", "end"}
  BY DEF FreePlan, FreeOptions, input, SuccessInv, ReadInv
<1>2. ASSUME exit = 0, argv[1] = "get" PROVE Expected(passed, Len(argv) + 1)'
  <2>1. Expected(passed, Len(argv) + 1)
    BY <1>1, <1>2 DEF SuccessInv, CheckedInv
  <2> PICK list, end : list = passed /\ end = Len(argv) + 1
    OBVIOUS
  <2>2. Expected(list, end)'
    BY <1>1, <2>1, LineStays
  <2> QED
    BY <1>1, <2>2
<1> QED
  BY <1>1, <1>2 DEF ReadInv, CheckedInv

LEMMA MainReads == ASSUME SuccessInv, Main PROVE ReadInv' /\ CheckedInv'
<1>1. pc = "main" /\ UNCHANGED <<argv, i, options>>
  BY DEF Main, input
<1>2. CASE pc' = "end" /\ exit' = -1
  BY <1>1, <1>2, FailureReads
<1>3. CASE Len(argv) >= 2 /\ pc' = "options"
  <2>1. argv \in Seq(Words) /\ i = 3 /\ Expected(options, i) /\ Len(argv) \in Nat
    BY <1>1, LenProperties DEF SuccessInv, ReadInv
  <2>2. Expected(options, i)'
    <3> PICK list, end : list = options /\ end = i
      OBVIOUS
    <3>1. Expected(list, end)'
      BY <1>1, <2>1, LineStays
    <3> QED
      BY <1>1, <3>1
  <2>3. i' \in 3 .. Len(argv') + 1
    BY <1>1, <1>3, <2>1
  <2> QED
    BY <1>1, <1>3, <2>1, <2>2, <2>3 DEF ReadInv, CheckedInv
<1> QED
  BY <1>2, <1>3 DEF Main, Leave

LEMMA StutterReads == ASSUME SuccessInv, UNCHANGED vars PROVE ReadInv' /\ CheckedInv'
<1>1. UNCHANGED <<argv, i, pc, options, plan, passed, exit>>
  BY DEF vars, input
<1>2. /\ Expected(options, i)' <=> Expected(options, i)
      /\ Expected(options, Len(argv) + 1)' <=> Expected(options, Len(argv) + 1)
      /\ Expected(passed, Len(argv) + 1)' <=> Expected(passed, Len(argv) + 1)
  <2> PICK o, p, e, l : o = options /\ p = passed /\ e = i /\ l = Len(argv) + 1
    OBVIOUS
  <2>1. /\ Expected(o, e)' <=> Expected(o, e)
        /\ Expected(o, l)' <=> Expected(o, l)
        /\ Expected(p, l)' <=> Expected(p, l)
    BY <1>1, LineStays
  <2> QED
    BY <1>1, <2>1
<1>3. ReadInv'
  BY <1>1, <1>2 DEF SuccessInv, ReadInv
<1>4. CheckedInv'
  BY <1>1, <1>2 DEF SuccessInv, CheckedInv, FollowsOptions
<1> QED
  BY <1>3, <1>4

LEMMA SuccessNext == ASSUME SuccessInv, [Next]_vars PROVE SuccessInv'
<1>1. CliInv'
  BY CliNext DEF SuccessInv
<1>2. ReadInv' /\ CheckedInv'
  BY MainReads, ParseReads, RunCommandReads, MakePlanReads, RunPlanReads, CleanupReads,
     StutterReads DEF Next, Ended
<1> QED
  BY <1>1, <1>2 DEF SuccessInv

\* "get" exits with 0 only after a run with every expectation of the command
\* line as an assertion, with its value and in its order, however many there
\* are and whatever could not be copied (cli_parser.c:72-163, commands.c:74-111).
THEOREM CliSuccessMeansChecked == Spec => []SuccessMeansChecked
<1>1. Init => SuccessInv
  BY SuccessInit
<1>2. SuccessInv /\ [Next]_vars => SuccessInv'
  BY SuccessNext
<1>3. SuccessInv => SuccessMeansChecked
  BY DEF SuccessInv, CheckedInv, SuccessMeansChecked
<1> QED
  BY <1>1, <1>2, <1>3, PTL DEF Spec

=============================================================================
