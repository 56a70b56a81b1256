-------------------------------- MODULE Cli --------------------------------
(***************************************************************************)
(* The command line (src/cli: main.c, cli_parser.c, commands.c): from argv *)
(* to CliOptions, from the options or a file to the RunPlan, and the way   *)
(* back through the cleanup labels to the exit code.  run_plan itself is   *)
(* module Engine and the file's parser module DslParser; here they are     *)
(* what they return.                                                       *)
(*                                                                         *)
(* A block of the heap is a triple: what for, and which.  A plan's copies  *)
(* are freed by free_run_plan, the decoded bytes of "hex:" patterns by     *)
(* free_cli_options, and the words of argv by nobody.                      *)
(***************************************************************************)
EXTENDS Integers, SequencesExt

CONSTANTS CommandLines,  \* the argv[1 ..] that are tried
          Words,         \* what they consist of
          Atoi,          \* the number that a word begins with
          Bytes,         \* the bytes of a word
          HexDigits,     \* what follows "hex:" in the words that begin so,
                         \* each digit as its value, other characters as -1
          MaxAssertion   \* MAX_ASSERTION, at most MAX_CASE_ASSERTIONS

OptionWords == {"--expect-status", "--expect-body", "--expect-header"}

ASSUME CliAssumption ==
    /\ OptionWords \cup {"get", "run", "post", ""} \subseteq Words
    /\ CommandLines \subseteq Seq(Words)
    /\ Atoi \in [Words -> Int]
    /\ DOMAIN Bytes = Words
    /\ DOMAIN HexDigits \subseteq Words
    /\ \A word \in DOMAIN HexDigits : HexDigits[word] \in Seq(-1 .. 15)
    /\ MaxAssertion \in Nat \ {0}

VARIABLES argv,
          pc, i,         \* where the program is, the i of parse_cli_options
          options,       \* options.assertions and their pointers
          owned,         \* options.owned_expected_body
          plan,          \* plan.assertions with their pointers, other strings
          live, wild,    \* allocated blocks; a free of something else happened
          passed,        \* history: the assertions of a run that returned 0
          exit           \* result, exit_code

input == <<argv, i>>
heap == <<live, wild>>
vars == <<input, pc, options, owned, plan, heap, passed, exit>>

NULL == <<"null", 0, 0>>
Argument == <<"argv", 0, 0>>
Single(name) == <<name, 0, 0>>
HexBlock(n) == <<"hex", n, 0>>
CopyOf(n, field) == <<"copy", n, field>>

Blocks ==
    {Single(name) : name \in {"db_path", "collection_name", "url", "dsl"}}
    \cup {HexBlock(n) : n \in 1 .. MaxAssertion}
    \cup {CopyOf(n, field) : n \in 1 .. MaxAssertion, field \in 1 .. 2}

\* kind and expected value of an assertion, and where its value is stored.
Assertion(kind, value, at) == [kind |-> kind, value |-> value, at |-> at]

\* init_run_plan, as far as it is modelled.
NoPlan == [strings |-> {}, assertions |-> <<>>]

TypeOK ==
    /\ argv \in Seq(Words)
    /\ pc \in {"main", "options", "command", "strings", "url", "assertions",
               "file", "run_plan", "free_plan", "free_options", "end"}
    /\ i \in 3 .. Len(argv) + 3
    /\ Len(options) <= MaxAssertion
    /\ Len(owned) <= Len(options)
    /\ Len(plan.assertions) <= Len(options)
    /\ plan.strings \subseteq Blocks /\ live \subseteq Blocks
    /\ exit \in {-1, 0, 1, 2}

Init ==
    /\ argv \in CommandLines
    /\ pc = "main" /\ i = 3
    /\ options = <<>> /\ owned = <<>>
    /\ plan = NoPlan
    /\ live = {} /\ wild = FALSE
    /\ passed = <<>> /\ exit = 0

Allocate(blocks) == live' = live \cup blocks /\ UNCHANGED wild
Free(blocks) == live' = live \ blocks /\ wild' = (wild \/ ~ blocks \subseteq live)

Leave(code, label) == exit' = code /\ pc' = label

-----------------------------------------------------------------------------
(* main and parse_cli_options *)

\* Too few words: the usage, before there are options to free.
Main ==
    /\ pc = "main"
    /\ \/ Len(argv) < 2 /\ Leave(-1, "end")
       \/ Len(argv) >= 2 /\ pc' = "options" /\ UNCHANGED exit
    /\ UNCHANGED <<input, options, owned, plan, heap, passed>>

Refuse == Leave(-1, "free_options") /\ UNCHANGED i

\* An option needs its n values and a free place.
Fits(n) == i + n <= Len(argv) /\ Len(options) < MaxAssertion
Reading(word) == pc = "options" /\ i <= Len(argv) /\ argv[i] = word
Add(assertion, n) ==
    options' = Append(options, assertion) /\ i' = i + n + 1 /\ UNCHANGED <<pc, exit>>

ExpectStatus ==
    /\ Reading("--expect-status")
    /\ \/ Fits(1) /\ Add(Assertion("status", <<Atoi[argv[i + 1]]>>, <<>>), 1)
       \/ ~ Fits(1) /\ Refuse /\ UNCHANGED options
    /\ UNCHANGED <<argv, owned, plan, heap, passed>>

\* parse_hex_bytes: two digits are a byte.
IsHex(hex) == hex # <<>> /\ Len(hex) % 2 = 0 /\ ~ Contains(hex, -1)
Decode(hex) == [k \in 1 .. Len(hex) \div 2 |-> 16 * hex[2 * k - 1] + hex[2 * k]]

\* Also the assertion of a malformed pattern has been counted already.
RefusePattern == options' = Append(options, Assertion("body", <<>>, <<NULL>>)) /\ Refuse

ExpectBody ==
    /\ Reading("--expect-body")
    /\ \/ ~ Fits(1) /\ Refuse /\ UNCHANGED <<options, owned, heap>>
       \/ Fits(1) /\ LET word == argv[i + 1] IN
          \/ /\ word \notin DOMAIN HexDigits
             /\ Add(Assertion("body", <<Bytes[word]>>, <<Argument>>), 1)
             /\ UNCHANGED <<owned, heap>>
          \/ /\ word \in DOMAIN HexDigits /\ IsHex(HexDigits[word])
             /\ LET bytes == HexBlock(Len(owned) + 1) IN
                /\ Allocate({bytes})
                /\ owned' = Append(owned, bytes)
                /\ Add(Assertion("body", <<Decode(HexDigits[word])>>, <<bytes>>), 1)
          \/ \* not hexadecimal, or no memory
             /\ word \in DOMAIN HexDigits
             /\ RefusePattern
             /\ UNCHANGED <<owned, heap>>
    /\ UNCHANGED <<argv, plan, passed>>

\* Mutant of ExpectHeader: only the name is passed over.
ExpectHeaderRereads ==
    /\ Reading("--expect-header")
    /\ \/ /\ Fits(2)
          /\ Add(Assertion("header", <<argv[i + 1], argv[i + 2]>>,
                           <<Argument, Argument>>), 1)
       \/ ~ Fits(2) /\ Refuse /\ UNCHANGED options
    /\ UNCHANGED <<argv, owned, plan, heap, passed>>

ExpectHeader ==
    /\ Reading("--expect-header")
    /\ \/ /\ Fits(2)
          /\ Add(Assertion("header", <<argv[i + 1], argv[i + 2]>>,
                           <<Argument, Argument>>), 2)
       \/ ~ Fits(2) /\ Refuse /\ UNCHANGED options
    /\ UNCHANGED <<argv, owned, plan, heap, passed>>

UnknownOption ==
    /\ pc = "options" /\ i <= Len(argv) /\ argv[i] \notin OptionWords
    /\ Refuse
    /\ UNCHANGED <<argv, options, owned, plan, heap, passed>>

EndOfOptions ==
    /\ pc = "options" /\ i > Len(argv)
    /\ pc' = "command"
    /\ UNCHANGED <<input, options, owned, plan, heap, passed, exit>>

-----------------------------------------------------------------------------
(* run_command, run_get_command and run_run_command *)

\* "post" is accepted and does nothing.
RunCommand ==
    /\ pc = "command"
    /\ CASE argv[1] = "get" /\ argv[2] # "" -> pc' = "strings" /\ UNCHANGED exit
         [] argv[1] = "get" /\ argv[2] = "" -> Leave(1, "free_plan")
         [] argv[1] = "run"                 -> pc' = "file" /\ UNCHANGED exit
         [] argv[1] = "post"                -> Leave(0, "free_options")
         [] OTHER                           -> Leave(1, "free_options")
    /\ UNCHANGED <<input, options, owned, plan, heap, passed>>

\* Each dup_string succeeds or returns NULL; the conversion fails on a NULL.
Copied(wanted, label) ==
    \E got \in SUBSET wanted :
        /\ Allocate(got)
        /\ plan' = [plan EXCEPT !.strings = @ \cup got]
        /\ IF got = wanted THEN pc' = label /\ UNCHANGED exit
           ELSE Leave(1, "free_plan")

CopyStrings ==
    /\ pc = "strings"
    /\ Copied({Single("db_path"), Single("collection_name")}, "url")
    /\ UNCHANGED <<input, options, owned, passed>>

CopyUrl ==
    /\ pc = "url"
    /\ Copied({Single("url")}, "assertions")
    /\ UNCHANGED <<input, options, owned, passed>>

Remaining == Len(plan.assertions) < Len(options)
NextAssertion == options[Len(plan.assertions) + 1]

\* Mutant of CopyAssertion: the plan takes over the options' pointers.
CopyAssertionShares ==
    /\ pc = "assertions" /\ Remaining
    /\ plan' = [plan EXCEPT !.assertions = Append(@, NextAssertion)]
    /\ UNCHANGED <<input, pc, options, owned, heap, passed, exit>>

\* malloc of a pattern, strdup of a name and of a value: a failure leaves NULL
\* in its place and the loop goes on.
CopyAssertion ==
    /\ pc = "assertions" /\ Remaining
    /\ LET n == Len(plan.assertions) + 1 IN
       \E got \in SUBSET DOMAIN NextAssertion.at :
          /\ Allocate({CopyOf(n, field) : field \in got})
          /\ plan' = [plan EXCEPT !.assertions = Append(@,
                [NextAssertion EXCEPT !.at = [field \in DOMAIN @ |->
                     IF field \in got THEN CopyOf(n, field) ELSE NULL]])]
    /\ UNCHANGED <<input, pc, options, owned, passed, exit>>

AllCopied ==
    /\ pc = "assertions" /\ ~ Remaining
    /\ pc' = "run_plan"
    /\ UNCHANGED <<input, options, owned, plan, heap, passed, exit>>

\* dsl_parse_run_plan_file: a plan with strings of its own, or an error (1 of
\* the parser, 2 for a file that cannot be read) and an empty plan.
ParseFile ==
    /\ pc = "file"
    /\ \/ /\ Allocate({Single("dsl")})
          /\ plan' = [plan EXCEPT !.strings = {Single("dsl")}]
          /\ pc' = "run_plan" /\ UNCHANGED exit
       \/ \E code \in {1, 2} : Leave(code, "free_plan") /\ UNCHANGED <<plan, heap>>
    /\ UNCHANGED <<input, options, owned, passed>>

\* run_plan returns 0 when the request and all assertions were ok.  An
\* assertion without its value never is (module Assertion).
RunPlan ==
    /\ pc = "run_plan"
    /\ \/ /\ \A n \in DOMAIN plan.assertions : ~ Contains(plan.assertions[n].at, NULL)
          /\ passed' = plan.assertions
          /\ Leave(0, "free_plan")
       \/ Leave(1, "free_plan") /\ UNCHANGED passed
    /\ UNCHANGED <<input, options, owned, plan, heap>>

\* What free_run_plan passes to free, NULL aside.
PointersOf(p) ==
    p.strings \cup
    ((UNION {ToSet(p.assertions[n].at) : n \in DOMAIN p.assertions}) \ {NULL})

FreePlan ==
    /\ pc = "free_plan"
    /\ Free(PointersOf(plan))
    /\ plan' = NoPlan
    /\ pc' = "free_options"
    /\ UNCHANGED <<input, options, owned, passed, exit>>

FreeOptions ==
    /\ pc = "free_options"
    /\ Free(ToSet(owned))
    /\ pc' = "end"
    /\ UNCHANGED <<input, options, owned, plan, passed, exit>>

Ended == pc = "end" /\ UNCHANGED vars

ParseOption ==
    ExpectStatus \/ ExpectBody \/ ExpectHeader \/ UnknownOption \/ EndOfOptions

MakePlan == CopyStrings \/ CopyUrl \/ CopyAssertion \/ AllCopied \/ ParseFile

Next ==
    \/ Main \/ ParseOption \/ RunCommand \/ MakePlan \/ RunPlan
    \/ FreePlan \/ FreeOptions \/ Ended

Spec == Init /\ [][Next]_vars

-----------------------------------------------------------------------------
(* The command line as it is meant *)

Values(word) == IF word = "--expect-header" THEN 2 ELSE 1

\* starts are the positions of the option words, the first that of argv[2], in
\* their order: each is followed by its values, a pattern of bytes by whole
\* bytes, and then by the next option word; end is behind the last one's values.
AreOptions(starts, end) ==
    LET Nth(n) == IF n \in DOMAIN starts THEN starts[n] ELSE end IN
    /\ Nth(1) = 3
    /\ \A n \in DOMAIN starts :
          LET word == argv[starts[n]]
              value == argv[starts[n] + 1]
          IN /\ word \in OptionWords
             /\ Nth(n + 1) = starts[n] + Values(word) + 1
             /\ word = "--expect-body" /\ value \in DOMAIN HexDigits => IsHex(HexDigits[value])

Pattern(word) ==
    IF word \in DOMAIN HexDigits THEN Decode(HexDigits[word]) ELSE Bytes[word]

Says(s) ==
    CASE argv[s] = "--expect-status" -> <<"status", <<Atoi[argv[s + 1]]>> >>
      [] argv[s] = "--expect-body" -> <<"body", <<Pattern(argv[s + 1])>> >>
      [] argv[s] = "--expect-header" -> <<"header", <<argv[s + 1], argv[s + 2]>> >>

\* The assertions of list are what the words up to position end say, no more, no
\* fewer and in their order.
Expected(list, end) ==
    \E starts \in [DOMAIN list -> 3 .. end - 1] :
        /\ AreOptions(starts, end)
        /\ \A n \in DOMAIN list : Says(starts[n]) = <<list[n].kind, list[n].value>>

-----------------------------------------------------------------------------
(* Properties *)

\* "get" exits with 0 only after a run in which every expectation on the
\* command line was an assertion, with its value and in its order, and held:
\* none is dropped, shifted into its neighbour's values or weakened by a failed
\* copy.  (cli_parser.c:72-163, commands.c:74-111)
SuccessMeansChecked ==
    pc = "end" /\ exit = 0 /\ argv[1] = "get" => Expected(passed, Len(argv) + 1)

\* Whatever is refused or fails on the way, every block is freed once, by its
\* owner, and nothing else is: the plan's copies are not the options' bytes, and
\* neither are words of argv.  (cli_parser.c:111-123, 167-172, commands.c:80-111,
\* 163-196, run_plan.c:23-82)
EachBlockFreedOnce == ~ wild /\ (pc = "end" => live = {})

-----------------------------------------------------------------------------
(* The inductive invariants behind the two *)

\* Sequences, whatever they hold.
IsSequence(s) == s \in Seq(ToSet(s))

\* An option is a record; the bytes decoded so far are numbered through.
OptionsInv ==
    /\ IsSequence(options) /\ IsSequence(owned)
    /\ \A n \in DOMAIN options :
          options[n] = Assertion(options[n].kind, options[n].value, options[n].at)
    /\ \A n \in DOMAIN owned : owned[n] = HexBlock(n)

\* A plan points to copies of its own only, and each assertion to other ones.
PlanInv ==
    /\ plan.strings \subseteq
          {Single(name) : name \in {"db_path", "collection_name", "url", "dsl"}}
    /\ plan = [strings |-> plan.strings, assertions |-> plan.assertions]
    /\ IsSequence(plan.assertions)
    /\ \A n \in DOMAIN plan.assertions : \A field \in DOMAIN plan.assertions[n].at :
          plan.assertions[n].at[field] \in {NULL, CopyOf(n, field)}

\* What is allocated is what the options and the plan own, until it is freed.
OwnersInv ==
    /\ ~ wild
    /\ live = IF pc = "end" THEN {} ELSE ToSet(owned) \cup PointersOf(plan)
    /\ pc = "main" => owned = <<>>
    /\ pc \in {"main", "options", "command", "strings", "file", "free_options"} =>
          plan = NoPlan

CliInv == OptionsInv /\ PlanInv /\ OwnersInv

\* What was read of the command line is what it says, the plan has the same
\* assertions, and only a run with all of them leaves the exit code 0.
ReadInv ==
    /\ argv \in Seq(Words)
    /\ pc = "main" => i = 3 /\ options = <<>>
    /\ pc = "options" => i \in 3 .. Len(argv) + 1
    /\ pc \in {"main", "options"} => Expected(options, i)
    /\ pc \in {"command", "strings", "url", "assertions", "file", "run_plan"} =>
          Expected(options, Len(argv) + 1)

\* The plan's assertions are the first ones of the options.
FollowsOptions ==
    /\ DOMAIN plan.assertions \subseteq DOMAIN options
    /\ \A n \in DOMAIN plan.assertions :
          /\ plan.assertions[n].kind = options[n].kind
          /\ plan.assertions[n].value = options[n].value

CheckedInv ==
    /\ pc = "file" => argv[1] # "get"
    /\ pc \in {"strings", "url"} => plan.assertions = <<>>
    /\ pc \in {"assertions", "run_plan"} /\ argv[1] = "get" => FollowsOptions
    /\ pc = "run_plan" /\ argv[1] = "get" => DOMAIN plan.assertions = DOMAIN options
    /\ pc \in {"free_plan", "free_options", "end"} /\ exit = 0 /\ argv[1] = "get" =>
          Expected(passed, Len(argv) + 1)

SuccessInv == CliInv /\ ReadInv /\ CheckedInv
=============================================================================
