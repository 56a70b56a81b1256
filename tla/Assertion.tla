----------------------------- MODULE Assertion -----------------------------
(***************************************************************************)
(* eval_assertion of src/core/assertion.c: one assertion on one response.  *)
(* One iteration of the loops of header_contains and bytes_contains is one *)
(* step: at is line_start in the first, data + i in the second.  A pointer *)
(* is an index, and a C string s has its zero at Len(s) + 1.               *)
(***************************************************************************)
EXTENDS Integers, SequencesExt, FiniteSetsExt

CONSTANTS NULL,
          Char,      \* characters and bytes
          Lower,     \* tolower
          Texts,     \* headers and bodies of responses
          Words,     \* names, values and needles of assertions
          Statuses   \* status codes

ASSUME AssertionAssumption ==
    /\ Lower \in [Char -> Char]
    /\ Texts \subseteq Seq(Char) /\ Words \subseteq Seq(Char)
    /\ Statuses \subseteq Nat /\ Statuses # {}
    /\ NULL \notin Seq(Char) /\ NULL \notin BOOLEAN

VARIABLES text,      \* response->headers or response->body
          status,    \* response->status_code
          assertion, \* its type, the type of its value, and the value
          at,        \* 0 before the loop, then its position
          result     \* passed, once eval_assertion has returned

inputs == <<text, status, assertion>>
vars == <<inputs, at, result>>

\* The position of the terminating zero.
terminator == Len(text) + 1

Nullable(S) == S \cup {NULL}

Assertions ==
    [type : {"STATUS_EQ"}, value : {"INT"}, int : Statuses]
    \cup [type : {"BODY_CONTAINS"}, value : {"BYTES"}, data : Nullable(Words)]
    \cup [type : {"HEADER_CONTAINS"}, value : {"HEADER"},
          name : Nullable(Words), content : Nullable(Words)]
    \cup [type : {"STATUS_EQ", "BODY_CONTAINS", "HEADER_CONTAINS"}, value : {"STRING"}]

TypeOK ==
    /\ text \in Nullable(Seq(Char))
    /\ status \in Statuses
    /\ assertion \in Assertions
    /\ at \in 0 .. IF text = NULL THEN 0 ELSE terminator
    /\ result \in Nullable(BOOLEAN)

Init ==
    /\ assertion \in Assertions
    /\ IF assertion.type = "STATUS_EQ" THEN status \in Statuses /\ text = NULL
       ELSE status = (CHOOSE s \in Statuses : TRUE) /\ text \in Nullable(Texts)
    /\ at = 0 /\ result = NULL

-----------------------------------------------------------------------------
Of(type) == result = NULL /\ assertion.type = type

Return(passed) == result' = passed /\ UNCHANGED <<inputs, at>>
Goto(position) == at' = position /\ UNCHANGED <<inputs, result>>

EvalStatus ==
    /\ Of("STATUS_EQ")
    /\ Return(assertion.value = "INT" /\ status = assertion.int)

-----------------------------------------------------------------------------
(* bytes_contains *)

needle == assertion.data

HasBody == assertion.value = "BYTES" /\ text \notin {NULL, <<>>} /\ needle # NULL

EvalBody ==
    /\ Of("BODY_CONTAINS") /\ at = 0
    /\ \/ ~HasBody /\ Return(FALSE)
       \/ HasBody /\ needle = <<>> /\ Return(TRUE)
       \/ HasBody /\ Len(text) < Len(needle) /\ Return(FALSE)
       \/ HasBody /\ needle # <<>> /\ Len(text) >= Len(needle) /\ Goto(1)

\* The last position at which the needle fits.
last == Len(text) - Len(needle) + 1

\* memcmp at one position.
Same(i) == \A k \in DOMAIN needle : text[i + k - 1] = needle[k]

\* Mutant of CompareBytes: len is the length of the body.
CompareBytesToTheEnd ==
    /\ Of("BODY_CONTAINS") /\ at > 0
    /\ \/ at >= terminator /\ Return(FALSE)
       \/ at < terminator /\ at <= last /\ Same(at) /\ Return(TRUE)
       \/ at < terminator /\ ~(at <= last /\ Same(at)) /\ Goto(at + 1)

CompareBytes ==
    /\ Of("BODY_CONTAINS") /\ at > 0
    /\ \/ at > last /\ Return(FALSE)
       \/ at <= last /\ Same(at) /\ Return(TRUE)
       \/ at <= last /\ ~Same(at) /\ Goto(at + 1)

-----------------------------------------------------------------------------
(* header_contains *)

Spaces == {" ", "\t"}
Blanks == Spaces \cup {"\r"}

\* The first of the positions from .. to that holds c, or to.
Find(c, from, to) == Min({i \in from .. to : i = to \/ text[i] = c})

\* strchr, or the terminating zero.
LineEnd(start) == Find("\n", start, terminator)

SkipSpaces(p) == Min({i \in p .. terminator : i = terminator \/ text[i] \notin Spaces})

\* Mutant of RtrimEnd: the carriage return that ends a header line stays.
RtrimEndKeepsCr(start, end) ==
    Max({start} \cup {i + 1 : i \in {j \in start .. end - 1 : text[j] \notin Spaces}})

\* The end of start .. end - 1 without the blanks at its end.
RtrimEnd(start, end) ==
    Max({start} \cup {i + 1 : i \in {j \in start .. end - 1 : text[j] \notin Blanks}})

\* strncasecmp_simple
SameName(a, b) == Len(a) = Len(b) /\ \A i \in DOMAIN a : Lower[a[i]] = Lower[b[i]]

LineMatches(start) ==
    LET end == LineEnd(start)
        colon == Find(":", start, end)
        from == SkipSpaces(colon + 1)
    IN /\ colon < end
       /\ SameName(SubSeq(text, start, RtrimEnd(start, colon) - 1), assertion.name)
       /\ SubSeq(text, from, RtrimEnd(from, end) - 1) = assertion.content

HasHeaders ==
    /\ assertion.value = "HEADER" /\ text \notin {NULL, <<>>}
    /\ assertion.name # NULL /\ assertion.content # NULL

EvalHeader ==
    /\ Of("HEADER_CONTAINS") /\ at = 0
    /\ \/ ~HasHeaders /\ Return(FALSE)
       \/ HasHeaders /\ Goto(1)

\* Mutant of CompareLine: the newline is not passed.
CompareLineAgain ==
    /\ Of("HEADER_CONTAINS") /\ at > 0
    /\ \/ at < terminator /\ LineMatches(at) /\ Return(TRUE)
       \/ at < terminator /\ ~LineMatches(at) /\ Goto(LineEnd(at))
       \/ at = terminator /\ Return(FALSE)

CompareLine ==
    /\ Of("HEADER_CONTAINS") /\ at > 0
    /\ \/ at = terminator /\ Return(FALSE)
       \/ at < terminator /\ LineMatches(at) /\ Return(TRUE)
       \/ /\ at < terminator /\ ~LineMatches(at)
          /\ \/ LineEnd(at) = terminator /\ Return(FALSE)
             \/ LineEnd(at) < terminator /\ Goto(LineEnd(at) + 1)

-----------------------------------------------------------------------------
Returned == result # NULL /\ UNCHANGED vars

Next == EvalStatus \/ EvalBody \/ CompareBytes \/ EvalHeader \/ CompareLine \/ Returned

\* eval_assertion is a function: it runs until it returns.
Spec == Init /\ [][Next]_vars /\ WF_vars(Next)

-----------------------------------------------------------------------------
(* What the two searches promise, without their pointers *)

Holds(s, word) == \E front \in 0 .. Len(s) : IsPrefix(word, SubSeq(s, front + 1, Len(s)))

All(s, from, to, S) == \A i \in from .. to : s[i] \in S
Trimmed(s) == s # <<>> => s[Len(s)] \notin Blanks

\* line is "name blanks : spaces content blanks"; names are compared without
\* case, and the first colon ends the name.
Says(line, name, content) ==
    \E n, colon, a, b \in 0 .. Len(line) :
        /\ n < colon /\ colon <= a /\ a <= b
        /\ line[colon] = ":" /\ All(line, 1, colon - 1, Char \ {":"})
        /\ SameName(SubSeq(line, 1, n), name) /\ Trimmed(SubSeq(line, 1, n))
        /\ All(line, n + 1, colon - 1, Blanks)
        /\ All(line, colon + 1, a, Spaces)
        /\ SubSeq(line, a + 1, b) = content /\ Trimmed(content)
        /\ content # <<>> => Head(content) \notin Spaces
        /\ All(line, b + 1, Len(line), Blanks)

SaysSomewhere(s, name, content) ==
    \E i \in 1 .. Len(s), j \in 0 .. Len(s) :
        /\ i = 1 \/ s[i - 1] = "\n"
        /\ j = Len(s) \/ s[j + 1] = "\n"
        /\ All(s, i, j, Char \ {"\n"})
        /\ i <= j + 1 /\ Says(SubSeq(s, i, j), name, content)

Meaning ==
    CASE assertion.value = "STRING" -> FALSE
      [] assertion.value = "INT" -> status = assertion.int
      [] assertion.value = "BYTES" ->
            /\ text \notin {NULL, <<>>} /\ needle # NULL
            /\ Holds(text, needle)
      [] assertion.value = "HEADER" ->
            /\ NULL \notin {text, assertion.name, assertion.content}
            /\ SaysSomewhere(text, assertion.name, assertion.content)

-----------------------------------------------------------------------------
(* Properties *)

\* The verdict is what the assertion says of the response: a body contains the
\* bytes anywhere, the ends included; a header assertion holds exactly if one
\* line has this name, in any case, and exactly this value
\* (assertion.c:38-62, 99-145, 148-234).
VerdictIsMeaning == result # NULL => result = Meaning

\* No memcmp reaches behind the body, and no pointer of header_contains passes
\* the terminating zero or turns round: the name and the value have an end at
\* or after their start (assertion.c:52-56, 109-142).
ReadsStayInside ==
    result = NULL /\ at > 0 =>
        \/ /\ assertion.type = "BODY_CONTAINS"
           /\ at <= last + 1 /\ last >= 1
        \/ /\ assertion.type = "HEADER_CONTAINS"
           /\ at <= terminator
           /\ LET end == LineEnd(at)
                  colon == Find(":", at, end)
              IN colon < end => SkipSpaces(colon + 1) <= end

\* Both searches come to an end on every text (assertion.c:52, 109).
EvalReturns == <>(result # NULL)

-----------------------------------------------------------------------------
(* The inductive invariant behind the two invariants *)

\* Where a line of the headers starts.
LineStart(i) == i = 1 \/ text[i - 1] = "\n"

\* What lies before at has been searched in vain (assertion.c:52-57, 109-142).
SearchedBody ==
    /\ HasBody /\ needle # <<>> /\ last >= 1 /\ at <= last + 1
    /\ \A i \in 1 .. at - 1 : ~ Same(i)

SearchedHeaders ==
    /\ HasHeaders /\ LineStart(at)
    /\ \A i \in 1 .. at - 1 : LineStart(i) => ~ LineMatches(i)

AssertionInv ==
    /\ TypeOK
    /\ result = NULL /\ at > 0 =>
          \/ assertion.type = "BODY_CONTAINS" /\ SearchedBody
          \/ assertion.type = "HEADER_CONTAINS" /\ SearchedHeaders
    /\ VerdictIsMeaning
=============================================================================
