------------------------------ MODULE DslLexer ------------------------------
(***************************************************************************)
(* The lexer of the DSL (src/dsl/dsl_lexer.c), one step per character, and *)
(* dsl_lexer_get_tokens that gathers its tokens in a growing array.        *)
(*                                                                         *)
(* A character is its class, as far as the code tells characters apart;    *)
(* "space" is also a tab, "sign" one of ? & = %, "letter" all others that  *)
(* may start a word.  The text of a token is a range of positions.  One    *)
(* keyword matters to the lexer, BODY: here it is the word of one letter   *)
(* Body.  Copies to the heap may fail.                                     *)
(***************************************************************************)
EXTENDS Integers, Sequences, FiniteSets, SequencesExt

CONSTANTS Alphabet,   \* classes of characters
          MaxLength,  \* bound: the length of the input
          Room        \* the first capacity of the array, 16

Blank == {"space", "cr"}
IdentStart == {"letter", "Body"}
IdentChar == IdentStart \cup {"digit", "sign", "hash"}

ASSUME LexerAssumption ==
    /\ Alphabet \subseteq Blank \cup IdentChar \cup {"newline", "quote", "odd"}
    /\ MaxLength \in Nat
    /\ Room \in Nat \ {0}

VARIABLES
    input,               \* the text, without its terminating zero
    pos, line, column,   \* where the lexer is, pos from 0
    read_body_raw_next,
    pc,                  \* which function is running
    mark,                \* its locals: where the token starts, its place
    tokens, capacity,    \* the array of dsl_lexer_get_tokens
    strings              \* token strings on the heap

lexer == <<pos, line, column, read_body_raw_next>>
gathered == <<tokens, capacity, strings>>
vars == <<input, lexer, pc, mark, gathered>>

\* dsl_lexer_get_tokens has its first array, or no memory for it and ends with NULL.
FirstArray == {"next", "null"}

Init ==
    /\ input \in UNION {[1 .. n -> Alphabet] : n \in 0 .. MaxLength}
    /\ pos = 0 /\ line = 1 /\ column = 1
    /\ read_body_raw_next = FALSE
    /\ pc \in FirstArray
    /\ mark = [start |-> 0, end |-> 0, line |-> 1, column |-> 1]
    /\ tokens = <<>> /\ capacity = Room /\ strings = 0

-----------------------------------------------------------------------------
Char(p) == IF p < Len(input) THEN input[p + 1] ELSE "end"
peek == Char(pos)

\* Mutant of Place: a line begins in column 0.
PlaceZero ==
    IF peek = "newline" THEN line' = line + 1 /\ column' = 0
    ELSE column' = column + 1 /\ UNCHANGED line

Place ==
    IF peek = "newline" THEN line' = line + 1 /\ column' = 1
    ELSE column' = column + 1 /\ UNCHANGED line

\* advance, which stays at the end.
advance ==
    IF peek = "end" THEN UNCHANGED <<pos, line, column>>
    ELSE pos' = pos + 1 /\ Place

Stay == UNCHANGED <<pos, line, column>>

\* make_token, and the loop of dsl_lexer_get_tokens takes it.
Token(type, from, to, place) ==
    [type |-> type, from |-> from, to |-> to,
     line |-> place.line, column |-> place.column]

Take(token, copies) ==
    /\ tokens' = Append(tokens, token)
    /\ strings' = strings + copies
    /\ pc' = IF token.type \in {"EOF", "ERROR"} THEN "done" ELSE "grow"
    /\ UNCHANGED <<input, mark, capacity>>

Here == [line |-> line, column |-> column]

\* A token with its text, or, out of memory, an error without or with a message.
TakeText(type, from, to, place) ==
    \/ Take(Token(type, from, to, place), 1)
    \/ \E copies \in {0, 1} : Take(Token("ERROR", from, to, place), copies)

\* A scanning loop: on to the next character while it is in the set.
Loop(at, class) ==
    /\ pc = at /\ peek \in class
    /\ advance
    /\ UNCHANGED <<input, read_body_raw_next, pc, mark, gathered>>

\* A scanner starts: its locals are the place, and the text from start on.
Scan(at, start) ==
    /\ pc' = at
    /\ mark' = [start |-> start, end |-> start, line |-> line, column |-> column]
    /\ UNCHANGED <<input, gathered>>

-----------------------------------------------------------------------------
(* dsl_lexer_next_token *)

SkipSpaces == Loop("next", Blank)

Starts(class) == pc = "next" /\ peek \in class /\ ~ read_body_raw_next

BodyRaw ==
    /\ pc = "next" /\ peek \notin Blank /\ read_body_raw_next
    /\ read_body_raw_next' = FALSE
    /\ Scan("raw_blanks", pos)
    /\ Stay

Eof ==
    /\ Starts({"end"})
    /\ Take(Token("EOF", pos, pos, Here), 0)
    /\ Stay /\ UNCHANGED read_body_raw_next

\* The copy of its text may fail unnoticed.
Newline ==
    /\ Starts({"newline"})
    /\ advance
    /\ \E copies \in {0, 1} : Take(Token("NEWLINE", pos, pos + 1, Here), copies)
    /\ UNCHANGED read_body_raw_next

Quote ==
    /\ Starts({"quote"})
    /\ advance
    /\ Scan("string", pos + 1)
    /\ UNCHANGED read_body_raw_next

Word ==
    /\ \/ Starts({"digit"}) /\ Scan("number", pos)
       \/ Starts(IdentStart) /\ Scan("word", pos)
       \/ Starts({"hash"}) /\ Scan("comment", pos)
    /\ Stay /\ UNCHANGED read_body_raw_next

Unexpected ==
    /\ Starts({"sign", "odd"})
    /\ advance
    /\ \E copies \in {0, 1} : Take(Token("ERROR", pos, pos + 1, Here), copies)
    /\ UNCHANGED read_body_raw_next

-----------------------------------------------------------------------------
(* The scanners *)

Rest == {Char(p) : p \in 0 .. MaxLength} \ {"end", "newline"}

CommentChar == Loop("comment", Rest)

\* Mutant of CommentEnd: the loop looks for the line end only, and advance
\* stays at the end of the text.
CommentEndNewline ==
    /\ pc = "comment" /\ peek \notin Rest
    /\ pc' = IF peek = "newline" THEN "next" ELSE "comment"
    /\ UNCHANGED <<input, lexer, mark, gathered>>

\* dsl_lexer_next_token calls itself: at the line end or the end.
CommentEnd ==
    /\ pc = "comment" /\ peek \notin Rest
    /\ pc' = "next"
    /\ UNCHANGED <<input, lexer, mark, gathered>>

NumberChar == Loop("number", {"digit"})

NumberEnd ==
    /\ pc = "number" /\ peek # "digit"
    /\ TakeText("INT", mark.start, pos, mark)
    /\ UNCHANGED lexer

WordChar == Loop("word", IdentChar)

\* keyword_type: every other keyword is a word to the lexer.
Keyword == IF SubSeq(input, mark.start + 1, pos) = <<"Body">> THEN "BODY_STMT" ELSE "IDENT"

WordEnd ==
    /\ pc = "word" /\ peek \notin IdentChar
    /\ TakeText(Keyword, mark.start, pos, mark)
    /\ read_body_raw_next' = (Last(tokens').type = "BODY_STMT")
    /\ Stay

StringChar == Loop("string", Rest \ {"quote"})

Unterminated ==
    /\ pc = "string" /\ peek \in {"end", "newline"}
    /\ \E copies \in {0, 1} : Take(Token("ERROR", mark.start, pos, mark), copies)
    /\ UNCHANGED lexer

StringEnd ==
    /\ pc = "string" /\ peek = "quote"
    /\ advance
    /\ TakeText("STRING", mark.start, pos, mark)
    /\ UNCHANGED read_body_raw_next

RawBlank == Loop("raw_blanks", {"space"})

RawStart ==
    /\ pc = "raw_blanks" /\ peek # "space"
    /\ pc' = "raw"
    /\ mark' = [mark EXCEPT !.start = pos, !.column = column]
    /\ UNCHANGED <<input, lexer, gathered>>

RawChar == Loop("raw", Rest \ {"cr"})

RawEnd ==
    /\ pc = "raw" /\ peek \in {"end", "newline", "cr"}
    /\ pc' = "trim"
    /\ mark' = [mark EXCEPT !.end = pos]
    /\ UNCHANGED <<input, lexer, gathered>>

RawTrailing == mark.end > mark.start /\ Char(mark.end - 1) = "space"

RawTrim ==
    /\ pc = "trim" /\ RawTrailing
    /\ mark' = [mark EXCEPT !.end = @ - 1]
    /\ UNCHANGED <<input, lexer, pc, gathered>>

RawToken ==
    /\ pc = "trim" /\ ~ RawTrailing
    /\ TakeText("BODY_RAW", mark.start, mark.end, mark)
    /\ UNCHANGED lexer

-----------------------------------------------------------------------------
(* dsl_lexer_get_tokens *)

\* Mutant of Grow: the array is given up with the strings in it.
GrowDropsArray ==
    /\ pc = "grow"
    /\ \/ Len(tokens) < capacity /\ pc' = "next" /\ UNCHANGED gathered
       \/ /\ Len(tokens) >= capacity
          /\ \/ capacity' = capacity * 2 /\ pc' = "next" /\ UNCHANGED <<tokens, strings>>
             \/ tokens' = <<>> /\ pc' = "null" /\ UNCHANGED <<capacity, strings>>
    /\ UNCHANGED <<input, lexer, mark>>

\* A larger array, or all tokens are freed and the caller gets NULL.
Grow ==
    /\ pc = "grow"
    /\ \/ Len(tokens) < capacity /\ pc' = "next" /\ UNCHANGED gathered
       \/ /\ Len(tokens) >= capacity
          /\ \/ capacity' = capacity * 2 /\ pc' = "next" /\ UNCHANGED <<tokens, strings>>
             \/ tokens' = <<>> /\ strings' = 0 /\ pc' = "null" /\ UNCHANGED capacity
    /\ UNCHANGED <<input, lexer, mark>>

NextToken ==
    \/ SkipSpaces \/ BodyRaw \/ Eof \/ Newline \/ Quote \/ Word \/ Unexpected

Scanner ==
    \/ CommentChar \/ CommentEnd \/ NumberChar \/ NumberEnd \/ WordChar \/ WordEnd
    \/ StringChar \/ Unterminated \/ StringEnd
    \/ RawBlank \/ RawStart \/ RawChar \/ RawEnd \/ RawTrim \/ RawToken

Finished == pc \in {"done", "null"} /\ UNCHANGED vars

Next == NextToken \/ Scanner \/ Grow \/ Finished

Spec == Init /\ [][Next]_vars /\ WF_vars(Next)

-----------------------------------------------------------------------------
(* Properties *)

Types == {"EOF", "ERROR", "NEWLINE", "INT", "STRING", "IDENT", "BODY_STMT", "BODY_RAW"}
Position == 0 .. MaxLength

TypeOK ==
    /\ input \in Seq(Alphabet) /\ Len(input) <= MaxLength
    /\ pos \in Position /\ line \in 1 .. MaxLength + 1 /\ column \in 1 .. MaxLength + 1
    /\ read_body_raw_next \in BOOLEAN
    /\ mark \in [start : Position, end : Position, line : Nat, column : Nat]
    /\ tokens \in Seq([type : Types, from : Position, to : Position,
                       line : Nat, column : Nat])
    /\ Len(tokens) <= capacity
    /\ strings \in Nat

Text(t) == {Char(p) : p \in t.from .. t.to - 1}

\* Where a token begins and ends, its quotes included.
First(t) == IF t.type = "STRING" THEN t.from - 1 ELSE t.from
After(t) == IF t.type = "STRING" THEN t.to + 1 ELSE t.to

\* Characters that belong to no token: blanks, and comments to the line end.
Skipped(from, to) ==
    \A p \in from .. to - 1 :
        \/ Char(p) \in Blank
        \/ \E h \in from .. p : Char(h) = "hash" /\ \A q \in h .. p : Char(q) # "newline"

Newlines(p) == {q \in 0 .. p - 1 : Char(q) = "newline"}

\* The place of a position, counted from the start of the text.
LineOf(p) == Cardinality(Newlines(p)) + 1
ColumnOf(p) == IF Newlines(p) = {} THEN p + 1
               ELSE CHOOSE n \in 1 .. MaxLength : Char(p - n) = "newline"
                                /\ \A m \in 1 .. n - 1 : Char(p - m) # "newline"

\* What the text of a token may be, and that it is as long as it can be.
WellFormed(t) ==
    CASE t.type = "EOF" -> t.from = Len(input)
      [] t.type = "NEWLINE" -> Text(t) = {"newline"}
      [] t.type = "INT" -> Text(t) = {"digit"} /\ Char(t.to) # "digit"
      [] t.type \in {"IDENT", "BODY_STMT"} ->
            /\ Char(t.from) \in IdentStart /\ Text(t) \subseteq IdentChar
            /\ Char(t.to) \notin IdentChar
            /\ t.type = "BODY_STMT" <=> Text(t) = {"Body"} /\ t.to = t.from + 1
      [] t.type = "STRING" ->
            /\ Char(t.from - 1) = "quote" /\ Char(t.to) = "quote"
            /\ Text(t) \cap {"quote", "newline"} = {}
      [] t.type = "BODY_RAW" ->
            /\ Text(t) \cap {"newline", "cr"} = {}
            /\ t.from < t.to => "space" \notin {Char(t.from), Char(t.to - 1)}
            /\ \E e \in t.to .. Len(input) : Char(e) \in {"newline", "cr", "end"}
                                           /\ \A p \in t.to .. e - 1 : Char(p) = "space"
      [] OTHER -> TRUE

Before(i) == IF i = 1 THEN 0 ELSE After(tokens[i - 1])

\* The tokens are the text: in its order, with nothing between them that is
\* not blank or comment, each one whole and at its line and column, and the
\* raw rest of a line exactly behind BODY, which is what the parser goes by
\* (dsl_lexer.c:21-57, 76-225, 252-305).
TokensAreTheInput ==
    \A i \in DOMAIN tokens :
        LET t == tokens[i]
            raw == i > 1 /\ tokens[i - 1].type = "BODY_STMT"
        IN t.type # "ERROR" =>
              /\ Before(i) <= First(t) /\ Skipped(Before(i), First(t))
              /\ t.line = LineOf(First(t)) /\ t.column = ColumnOf(First(t))
              /\ WellFormed(t)
              /\ raw <=> t.type = "BODY_RAW"
              /\ t.type = "EOF" => i = Len(tokens)

\* The strings on the heap are those of the tokens in the array; none is left
\* when the array could not grow and the caller gets NULL
\* (dsl_lexer.c:307-361).
StringsHaveTheirToken ==
    /\ strings <= Cardinality({i \in DOMAIN tokens : tokens[i].type # "EOF"})
    /\ strings >= Cardinality({i \in DOMAIN tokens :
                                  tokens[i].type \notin {"EOF", "ERROR", "NEWLINE"}})

\* Every loop leaves its class of characters at the end at the latest: the
\* lexer returns EOF or an error (dsl_lexer.c:317-336).
LexerEnds == <>(pc \in {"done", "null"})

-----------------------------------------------------------------------------
(* The inductive invariant behind the two invariants *)

\* l and c are the line and column of position p; c - 1 steps back no line ends.
IsPlace(p, l, c) ==
    /\ l = LineOf(p) /\ l \in 1 .. p + 1
    /\ c \in 1 .. p + 1
    /\ \A m \in 1 .. c - 1 : Char(p - m) # "newline"
    /\ c = p + 1 \/ Char(p - c) = "newline"

\* Where the last token ended, and whether the rest of its line is raw.
Reached == Before(Len(tokens) + 1)
AfterBody == tokens # <<>> /\ Last(tokens).type = "BODY_STMT"

\* The next token may start at p: nothing is lost behind the last one.
Resumes(p) == Reached <= p /\ Skipped(Reached, p)

\* The token being scanned starts at p.
Started(p) == p \in 0 .. pos /\ Resumes(p) /\ IsPlace(p, mark.line, mark.column)

Scanned(class) == \A p \in mark.start .. pos - 1 : Char(p) \in class
ScannedNo(class) == \A p \in mark.start .. pos - 1 : Char(p) \notin class

ModeInv ==
    /\ pc \in {"next", "grow"} => (read_body_raw_next <=> AfterBody)
    /\ pc \in {"comment", "number", "word", "string"} =>
          ~ read_body_raw_next /\ ~ AfterBody
    /\ pc \in {"raw_blanks", "raw", "trim"} => ~ read_body_raw_next /\ AfterBody

ScanInv ==
    /\ pc \in {"next", "grow", "comment", "raw_blanks"} => Resumes(pos)
    /\ pc = "comment" =>
          /\ mark.start \in Reached .. pos
          /\ Char(mark.start) = "hash" /\ ScannedNo({"newline"})
    /\ pc = "number" =>
          Started(mark.start) /\ Char(mark.start) = "digit" /\ Scanned({"digit"})
    /\ pc = "word" =>
          Started(mark.start) /\ Char(mark.start) \in IdentStart /\ Scanned(IdentChar)
    /\ pc = "string" =>
          /\ mark.start \in 1 .. pos
          /\ Started(mark.start - 1) /\ Char(mark.start - 1) = "quote"
          /\ ScannedNo({"quote", "newline"})
    /\ pc = "raw_blanks" => mark.line = line
    /\ pc \in {"raw", "trim"} =>
          /\ Started(mark.start) /\ Char(mark.start) # "space"
          /\ ScannedNo({"newline", "cr"})
    /\ pc = "trim" =>
          /\ mark.end \in mark.start .. pos /\ peek \in {"end", "newline", "cr"}
          /\ \A p \in mark.end .. pos - 1 : Char(p) = "space"

\* t is what the text has behind position from, raw or not.
Fits(t, from, raw) ==
    /\ First(t) \in Nat /\ from <= First(t) /\ Skipped(from, First(t))
    /\ IsPlace(First(t), t.line, t.column)
    /\ WellFormed(t)
    /\ raw <=> t.type = "BODY_RAW"

TokenInv ==
    \A i \in DOMAIN tokens :
        /\ tokens[i].type \in {"EOF", "ERROR"} => i = Len(tokens) /\ pc = "done"
        /\ tokens[i].type # "ERROR" =>
              Fits(tokens[i], Before(i), i > 1 /\ tokens[i - 1].type = "BODY_STMT")

\* The array has room for the next token before it is made.
RoomInv ==
    /\ capacity \in Nat \ {0}
    /\ pc \notin {"grow", "done", "null"} => Len(tokens) < capacity

LexerInv ==
    /\ TypeOK /\ pos <= Len(input) /\ IsPlace(pos, line, column)
    /\ RoomInv /\ ModeInv /\ ScanInv /\ TokenInv /\ StringsHaveTheirToken
=============================================================================
