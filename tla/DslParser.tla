----------------------------- MODULE DslParser -----------------------------
(***************************************************************************)
(* The recursive-descent parser of src/dsl/dsl_parser.c on every sequence  *)
(* of tokens that the lexer can return, with every failure of strdup.  One *)
(* step is one token consumed or one string copied.  read holds the tokens *)
(* returned so far: the last is parser->current, the one before it         *)
(* parser->previous.  An error is placed at a token, as its line and       *)
(* column are, and a string is named by the position in read of the token  *)
(* it copies: 0 is NULL, and copied holds the strings on the heap.  The    *)
(* names are other ones than those of DslLexer, so that both can be        *)
(* extended at once.                                                       *)
(***************************************************************************)
EXTENDS Integers, Sequences, FiniteSets, SequencesExt

CONSTANTS Methods,        \* the tokens GET, POST, PUT, DELETE, PATCH
          MaxCases,       \* MAX_REQUEST_CASES
          MaxAssertions,  \* MAX_CASE_ASSERTIONS
          MaxTokens       \* bound on the source

OtherTokens ==
    {"EOF", "ERROR", "NEWLINE", "BODY_STMT", "BODY_RAW", "EXPECT", "STATUS",
     "HEADER", "BODY", "CONTAINS", "INT", "STRING", "IDENT"}

ASSUME ParserAssumption ==
    /\ Methods \cap OtherTokens = {}
    /\ MaxCases \in Nat \ {0} /\ MaxAssertions \in Nat \ {0}
    /\ MaxTokens \in Nat \ {0}

Tokens == Methods \cup OtherTokens

VARIABLES read,                 \* what the lexer returned, current last
          stage,                \* where the parser is
          had_error, error_at,  \* parser->had_error, the token of error->line
          plan,                 \* plan->cases
          copied,               \* strings allocated and not freed
          header_name,          \* the local of parse_header_assertion
          oom                   \* history: an allocation failed

parserVars == <<read, had_error, error_at>>
memory == <<plan, copied, header_name, oom>>
allVars == <<parserVars, memory, stage>>

Kinds == {"status", "body", "header"}
Assertions == [kind : Kinds, key : Nat, value : Nat]
Cases == [method : Methods, url : Nat, body : Nat, assertions : Seq(Assertions)]

ParserTypeOK ==
    /\ read \in Seq(Tokens)
    /\ stage \in {"create", "program", "request_url", "request_copy", "body_raw",
                  "body_copy", "expect", "status_int", "body_contains",
                  "body_string", "body_assert", "header_key", "name_copy",
                  "header_value", "value_copy", "statement_end", "reject",
                  "accepted", "rejected"}
    /\ had_error \in BOOLEAN
    /\ error_at \in 0 .. Len(read)
    /\ plan \in Seq(Cases) /\ Len(plan) <= MaxCases
    /\ \A k \in DOMAIN plan : Len(plan[k].assertions) <= MaxAssertions
    /\ copied \subseteq 1 .. Len(read)
    /\ header_name \in 0 .. Len(read)
    /\ oom \in BOOLEAN

ParserInit ==
    /\ read = <<>> /\ stage = "create"
    /\ had_error = FALSE /\ error_at = 0
    /\ plan = <<>> /\ copied = {} /\ header_name = 0
    /\ oom = FALSE

-----------------------------------------------------------------------------
(* The tokens *)

\* After the keyword BODY the lexer returns the rest of the line, and only then.
MayFollow(token, after_body) ==
    IF after_body THEN token \in {"BODY_RAW", "ERROR"} ELSE token # "BODY_RAW"

\* The sequence ends with EOF.
NextTokens ==
    LET after_body == read # <<>> /\ Last(read) = "BODY_STMT"
    IN {t \in Tokens : /\ MayFollow(t, after_body)
                       /\ Len(read) >= MaxTokens - 1 /\ ~after_body => t = "EOF"}

\* advance_parser: an error token sets the error at once.
Advance ==
    \E t \in NextTokens :
        /\ read' = Append(read, t)
        /\ had_error' = (had_error \/ t = "ERROR")
        /\ error_at' = IF t = "ERROR" THEN Len(read) + 1 ELSE error_at

Current(types) == read # <<>> /\ Last(read) \in types
previous == Len(read) - 1

\* parser_error, and every caller returns false: the first error stays.
Fail ==
    /\ had_error' = TRUE
    /\ error_at' = IF had_error THEN error_at ELSE Len(read)
    /\ stage' = "reject"
    /\ UNCHANGED read

OutOfMemory == oom' = TRUE /\ Fail

Expected(types, next) ==
    /\ Current(types) /\ Advance
    /\ stage' = next

Consume(at, types, next) ==
    /\ stage = at
    /\ \/ Expected(types, next)
       \/ ~Current(types) /\ Fail
    /\ UNCHANGED memory

-----------------------------------------------------------------------------
(* dsl_parse_run_plan, parse_program and parse_statement *)

Create ==
    /\ stage = "create"
    /\ \/ Advance /\ stage' = "program" /\ UNCHANGED oom
       \/ oom' = TRUE /\ stage' = "rejected" /\ UNCHANGED parserVars
    /\ UNCHANGED <<plan, copied, header_name>>

Accept ==
    /\ stage = "program" /\ Current({"EOF"})
    /\ stage' = "accepted"
    /\ UNCHANGED <<parserVars, memory>>

\* Mutant of SkipNewline: the token is not consumed.
SkipNewlineNever ==
    /\ stage = "program" /\ Current({"NEWLINE"})
    /\ UNCHANGED allVars

SkipNewline ==
    /\ stage = "program" /\ Expected({"NEWLINE"}, "program")
    /\ UNCHANGED memory

RequestStmt ==
    /\ stage = "program" /\ Current(Methods)
    /\ \/ Len(plan) >= MaxCases /\ Fail
       \/ Len(plan) < MaxCases /\ Expected(Methods, "request_url")
    /\ UNCHANGED memory

BodyStmt ==
    /\ stage = "program" /\ Current({"BODY_STMT"})
    /\ \/ plan = <<>> /\ Fail
       \/ plan # <<>> /\ Expected({"BODY_STMT"}, "body_raw")
    /\ UNCHANGED memory

ExpectStmt ==
    /\ stage = "program" /\ Current({"EXPECT"})
    /\ \/ plan = <<>> /\ Fail
       \/ plan # <<>> /\ Expected({"EXPECT"}, "expect")
    /\ UNCHANGED memory

OtherStmt ==
    /\ stage = "program"
    /\ ~Current(Methods \cup {"EOF", "NEWLINE", "BODY_STMT", "EXPECT"})
    /\ Fail
    /\ UNCHANGED memory

\* Mutant of StatementEnd: the next statement may follow on the same line.
StatementEndAnywhere ==
    /\ stage = "statement_end"
    /\ stage' = "program"
    /\ UNCHANGED <<parserVars, memory>>

\* The tail of the three statements.
StatementEnd ==
    /\ stage = "statement_end"
    /\ \/ Expected({"NEWLINE"}, "program")
       \/ Current({"EOF"}) /\ stage' = "program" /\ UNCHANGED parserVars
       \/ ~Current({"NEWLINE", "EOF"}) /\ Fail
    /\ UNCHANGED memory

-----------------------------------------------------------------------------
(* parse_request_stmt and parse_body_stmt after their first token *)

RequestUrl == Consume("request_url", {"IDENT"}, "request_copy")

RequestCopy ==
    /\ stage = "request_copy"
    /\ \/ /\ plan' = Append(plan, [method |-> read[previous - 1], url |-> previous,
                                   body |-> 0, assertions |-> <<>>])
          /\ copied' = copied \cup {previous}
          /\ stage' = "statement_end"
          /\ UNCHANGED <<parserVars, oom>>
       \/ OutOfMemory /\ UNCHANGED <<plan, copied>>
    /\ UNCHANGED header_name

BodyValue == Consume("body_raw", {"BODY_RAW"}, "body_copy")

SetBody(string) == plan' = [plan EXCEPT ![Len(plan)].body = string]

\* Mutant of BodyCopy: the body of an earlier BODY line is not freed.
BodyCopyKeepsOld ==
    /\ stage = "body_copy"
    /\ SetBody(previous)
    /\ copied' = copied \cup {previous}
    /\ stage' = "statement_end"
    /\ UNCHANGED <<parserVars, oom, header_name>>

BodyCopy ==
    /\ stage = "body_copy"
    /\ \/ /\ SetBody(previous)
          /\ copied' = (copied \ {Last(plan).body}) \cup {previous}
          /\ stage' = "statement_end"
          /\ UNCHANGED <<parserVars, oom>>
       \/ /\ SetBody(0)
          /\ copied' = copied \ {Last(plan).body}
          /\ OutOfMemory
    /\ UNCHANGED header_name

-----------------------------------------------------------------------------
(* parse_expect_stmt and the three assertions *)

Assertion(kind, key, value) == [kind |-> kind, key |-> key, value |-> value]

AddAssertion(a) ==
    plan' = [plan EXCEPT ![Len(plan)].assertions = Append(@, a)]

AssertionKinds == {"STATUS", "BODY", "HEADER"}

\* Mutant of Expect: one assertion too many.
ExpectOneMore ==
    /\ stage = "expect"
    /\ \/ Expected({"STATUS"}, "status_int")
       \/ Expected({"BODY"}, "body_contains")
       \/ Expected({"HEADER"}, "header_key")
       \/ ~Current(AssertionKinds) /\ Fail
    /\ Len(Last(plan).assertions) <= MaxAssertions
    /\ UNCHANGED memory

Expect ==
    /\ stage = "expect"
    /\ IF Len(Last(plan).assertions) >= MaxAssertions THEN Fail
       ELSE \/ Expected({"STATUS"}, "status_int")
            \/ Expected({"BODY"}, "body_contains")
            \/ Expected({"HEADER"}, "header_key")
            \/ ~Current(AssertionKinds) /\ Fail
    /\ UNCHANGED memory

StatusInt ==
    /\ stage = "status_int"
    /\ \/ /\ Expected({"INT"}, "statement_end")
          /\ AddAssertion(Assertion("status", 0, Len(read)))
       \/ ~Current({"INT"}) /\ Fail /\ UNCHANGED plan
    /\ UNCHANGED <<copied, header_name, oom>>

BodyContains == Consume("body_contains", {"CONTAINS"}, "body_string")
BodyString == Consume("body_string", {"STRING"}, "body_assert")

\* The assertion is counted before its string is copied.
BodyAssert ==
    /\ stage = "body_assert"
    /\ \/ /\ AddAssertion(Assertion("body", 0, previous))
          /\ copied' = copied \cup {previous}
          /\ stage' = "statement_end"
          /\ UNCHANGED <<parserVars, oom>>
       \/ /\ AddAssertion(Assertion("body", 0, 0))
          /\ OutOfMemory /\ UNCHANGED copied
    /\ UNCHANGED header_name

HeaderKey == Consume("header_key", {"IDENT"}, "name_copy")

NameCopy ==
    /\ stage = "name_copy"
    /\ \/ /\ copied' = copied \cup {previous} /\ header_name' = previous
          /\ stage' = "header_value"
          /\ UNCHANGED <<parserVars, oom>>
       \/ OutOfMemory /\ UNCHANGED <<copied, header_name>>
    /\ UNCHANGED plan

DropName == copied' = copied \ {header_name} /\ header_name' = 0

\* Mutant of HeaderValue: a number is not a value.
HeaderValueNoInt ==
    /\ stage = "header_value"
    /\ \/ /\ Expected({"IDENT", "STRING"}, "value_copy")
          /\ UNCHANGED <<copied, header_name>>
       \/ ~Current({"IDENT", "STRING"}) /\ DropName /\ Fail
    /\ UNCHANGED <<plan, oom>>

HeaderValue ==
    /\ stage = "header_value"
    /\ \/ /\ Expected({"IDENT", "STRING", "INT"}, "value_copy")
          /\ UNCHANGED <<copied, header_name>>
       \/ ~Current({"IDENT", "STRING", "INT"}) /\ DropName /\ Fail
    /\ UNCHANGED <<plan, oom>>

ValueCopy ==
    /\ stage = "value_copy"
    /\ \/ /\ AddAssertion(Assertion("header", header_name, previous))
          /\ copied' = copied \cup {previous} /\ header_name' = 0
          /\ stage' = "statement_end"
          /\ UNCHANGED <<parserVars, oom>>
       \/ DropName /\ OutOfMemory /\ UNCHANGED plan

-----------------------------------------------------------------------------
\* The strings that free_run_plan finds.
StringsOf(c) ==
    ({c.url, c.body} \cup UNION {{c.assertions[j].key, c.assertions[j].value} :
                                   j \in {i \in DOMAIN c.assertions :
                                            c.assertions[i].kind # "status"}}) \ {0}

Reachable(cases) == UNION {StringsOf(cases[k]) : k \in DOMAIN cases}

Reject ==
    /\ stage = "reject"
    /\ copied' = copied \ Reachable(plan)
    /\ plan' = <<>>
    /\ stage' = "rejected"
    /\ UNCHANGED <<parserVars, header_name, oom>>

Returned == stage \in {"accepted", "rejected"} /\ UNCHANGED allVars

Statement ==
    \/ Accept \/ SkipNewline \/ RequestStmt \/ BodyStmt \/ ExpectStmt \/ OtherStmt

ParserNext ==
    \/ Create \/ Statement \/ StatementEnd
    \/ RequestUrl \/ RequestCopy \/ BodyValue \/ BodyCopy
    \/ Expect \/ StatusInt \/ BodyContains \/ BodyString \/ BodyAssert
    \/ HeaderKey \/ NameCopy \/ HeaderValue \/ ValueCopy
    \/ Reject \/ Returned

\* The parser is a function: it runs until it returns.
ParserSpec == ParserInit /\ [][ParserNext]_allVars /\ WF_allVars(ParserNext)

-----------------------------------------------------------------------------
(* The language *)

RequestLines == {<<m, "IDENT">> : m \in Methods}
ExpectLines ==
    {<<"EXPECT", "STATUS", "INT">>, <<"EXPECT", "BODY", "CONTAINS", "STRING">>}
    \cup {<<"EXPECT", "HEADER", "IDENT", v>> : v \in {"IDENT", "STRING", "INT"}}
Lines == RequestLines \cup ExpectLines \cup {<<"BODY_STMT", "BODY_RAW">>, <<>>}

\* A line begins at token i of s.
Begins(s, i) == i = 1 \/ s[i - 1] = "NEWLINE"

\* The tokens from i to n are the line l and its end, or begin it.
IsLine(s, i, n, l) ==
    /\ \A j \in DOMAIN l : i + j - 1 <= n => s[i + j - 1] = l[j]
    /\ i + Len(l) <= n => s[i + Len(l)] \in {"NEWLINE", "EOF"}

\* The first n tokens of s are a program or can be continued to one: every
\* line is one of the language, and a request is above the other statements.
Viable(s, n) ==
    /\ \A i \in 1 .. n : Begins(s, i) => \E l \in Lines : IsLine(s, i, n, l)
    /\ \A i \in 1 .. n : s[i] \in {"BODY_STMT", "EXPECT"} =>
                             \E j \in 1 .. i - 1 : s[j] \in Methods
    /\ \A i \in 1 .. n - 1 : s[i] # "EOF"

\* What the EXPECT at token i says.
AssertionOf(s, i) ==
    CASE s[i + 1] = "STATUS" -> Assertion("status", 0, i + 2)
      [] s[i + 1] = "BODY"   -> Assertion("body", 0, i + 3)
      [] OTHER               -> Assertion("header", i + 2, i + 3)

\* The keyword at one of the first n tokens, in a line below request k and
\* above the next.
Said(cases, s, n, k, keyword) ==
    {i \in 1 .. n : s[i] = keyword /\ \A m \in DOMAIN cases : cases[m].url < i <=> m <= k}

\* Case k is what its lines among the first n tokens of s say: the last BODY
\* line, and the EXPECT lines in their order.
CaseMeans(cases, s, n, k) ==
    LET c == cases[k]
        bodies == Said(cases, s, n, k, "BODY_STMT")
        expects == Said(cases, s, n, k, "EXPECT")
    IN /\ c.url \in 2 .. n /\ c.method = s[c.url - 1]
       /\ \A m \in 1 .. k - 1 : cases[m].url < c.url
       /\ c.body # 0 => c.body \in 2 .. n /\ c.body - 1 \in bodies
       /\ \A i \in bodies : i < c.body
       /\ \A i \in expects : \E j \in DOMAIN c.assertions :
                                c.assertions[j] = AssertionOf(s, i)
       /\ \A j \in DOMAIN c.assertions :
             /\ \E i \in expects : c.assertions[j] = AssertionOf(s, i)
             /\ c.assertions[j].value <= n
             /\ \A h \in 1 .. j - 1 : c.assertions[h].value < c.assertions[j].value

\* The cases are the requests of the first n tokens.
Means(cases, s, n) ==
    /\ \A i \in 1 .. n : s[i] \in Methods => \E k \in DOMAIN cases : cases[k].url = i + 1
    /\ \A k \in DOMAIN cases : CaseMeans(cases, s, n, k)

-----------------------------------------------------------------------------
(* Properties *)

\* An accepted source is a program of the language and the plan says what it
\* says: an EXPECT or BODY line belongs to the request above it, and the last
\* BODY line wins (dsl_parser.c:126-165, 301-311, 357-374, 405-412).
PlanIsMeaning ==
    stage = "accepted" => /\ Viable(read, Len(read)) /\ Last(read) = "EOF"
                          /\ ~had_error /\ Means(plan, read, Len(read))

\* A rejected source is none, and the error is at the first token that no
\* program can have there, unless a limit was reached or memory was short
\* (dsl_parser.c:53-77, 90-124, 224-234, 332-335, 407-410).
ErrorAtFirstBadToken ==
    stage = "reject" /\ ~oom =>
        /\ Viable(read, error_at - 1)
        /\ \/ ~Viable(read, error_at)
           \/ read[error_at] \in Methods /\ Len(plan) = MaxCases
           \/ /\ read[error_at - 1] = "EXPECT"
              /\ Len(Last(plan).assertions) = MaxAssertions

\* Every copied string is where free_run_plan or the running function finds it,
\* and a rejected plan keeps none (dsl_parser.c:303-311, 358-374, 512-571,
\* run_plan.c:23-82).
NoStringLost ==
    /\ copied = Reachable(plan) \cup ({header_name} \ {0})
    /\ stage \in {"accepted", "rejected", "reject"} => header_name = 0

\* The parser returns on every source, also after an error token and at the
\* end of the file (dsl_parser.c:224-234).
ParserReturns == <>(stage \in {"accepted", "rejected"})

-----------------------------------------------------------------------------
(* The inductive invariant behind the three invariants *)

Running == stage \notin {"create", "accepted", "reject", "rejected"}

ExpectStages ==
    {"expect", "status_int", "body_contains", "body_string", "body_assert",
     "header_key", "name_copy", "header_value", "value_copy"}

\* How many tokens of the statement are consumed, and how many before it.
Part ==
    CASE stage \in {"request_url", "body_raw", "expect"} -> 1
      [] stage \in {"request_copy", "body_copy", "status_int", "body_contains",
                    "header_key"} -> 2
      [] stage \in {"body_string", "name_copy", "header_value"} -> 3
      [] stage \in {"body_assert", "value_copy"} -> 4
      [] OTHER -> 0
finished == previous - Part

\* The error is at the current token, which is the only error token.
ErrorInv ==
    /\ Running => /\ read # <<>> /\ (had_error <=> Last(read) = "ERROR")
                  /\ had_error => error_at = Len(read)
    /\ stage = "reject" => had_error /\ error_at \in 1 .. Len(read)

\* The statement that is being parsed began at token finished + 1.
StatementInv ==
    LET token(i) == read[finished + i]
    IN /\ stage = "create" => /\ read = <<>> /\ plan = <<>> /\ header_name = 0
                             /\ ~had_error /\ ~oom
       /\ Running => finished \in Nat /\ Viable(read, previous)
       /\ Running /\ stage # "statement_end" =>
             \/ Begins(read, finished + 1)
             \/ stage = "program" /\ token(1) = "EOF" /\ Viable(read, Len(read))
       /\ stage \in {"request_url", "request_copy"} =>
             token(1) \in Methods /\ Len(plan) < MaxCases
       /\ stage = "request_copy" => token(2) = "IDENT"
       /\ stage \in {"body_raw", "body_copy"} => token(1) = "BODY_STMT" /\ plan # <<>>
       /\ stage = "body_copy" => token(2) = "BODY_RAW"
       /\ stage \in ExpectStages => token(1) = "EXPECT" /\ plan # <<>>
       /\ stage \in ExpectStages \ {"expect"} =>
             Len(Last(plan).assertions) < MaxAssertions
       /\ stage = "status_int" => token(2) = "STATUS"
       /\ stage \in {"body_contains", "body_string", "body_assert"} => token(2) = "BODY"
       /\ stage \in {"body_string", "body_assert"} => token(3) = "CONTAINS"
       /\ stage = "body_assert" => token(4) = "STRING"
       /\ stage \in {"header_key", "name_copy", "header_value", "value_copy"} =>
             token(2) = "HEADER"
       /\ stage \in {"name_copy", "header_value", "value_copy"} => token(3) = "IDENT"
       /\ stage = "value_copy" => token(4) \in {"IDENT", "STRING", "INT"}
       /\ stage = "statement_end" =>
             (Viable(read, Len(read)) <=> Last(read) \in {"NEWLINE", "EOF"})

\* The cases are what the finished statements say.
PlanInv == Running => Means(plan, read, finished)

\* Which tokens the strings of the plan copy.
CopiedInv ==
    /\ \A k \in DOMAIN plan :
          /\ read[plan[k].url] = "IDENT"
          /\ plan[k].body # 0 => read[plan[k].body] = "BODY_RAW"
          /\ \A j \in DOMAIN plan[k].assertions :
                LET a == plan[k].assertions[j]
                IN a.key <= a.value /\ \A p \in {a.key, a.value} \ {0} : read[p] # "BODY_RAW"
    /\ header_name = IF stage \in {"header_value", "value_copy"} THEN finished + 3 ELSE 0

ParserInv ==
    /\ ParserTypeOK /\ ErrorInv /\ StatementInv /\ PlanInv
    /\ PlanIsMeaning /\ ErrorAtFirstBadToken /\ NoStringLost
    /\ Running => CopiedInv
=============================================================================
