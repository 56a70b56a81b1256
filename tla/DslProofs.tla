----------------------------- MODULE DslProofs -----------------------------
(***************************************************************************)
(* Proofs about DslLexer and DslParser: the tokens are the text, a parsed  *)
(* plan is what the tokens say, and no string is lost, for texts and       *)
(* sequences of tokens of any length.  Both modules are extended, since    *)
(* the parser reads what the lexer returns.                                *)
(***************************************************************************)
EXTENDS DslLexer, DslParser, SequenceTheorems, FiniteSetTheorems, TLAPS

-----------------------------------------------------------------------------
(* Characters and places *)

LEMMA Characters ==
    ASSUME TypeOK
    PROVE  /\ Len(input) \in Nat /\ MaxLength \in Nat
           /\ \A p \in Nat : Char(p) = "end" <=> p >= Len(input)
           /\ \A p \in 0 .. Len(input) : Char(p) \in Rest <=> Char(p) \notin {"end", "newline"}
<1>1. Len(input) \in Nat /\ MaxLength \in Nat /\ Len(input) <= MaxLength
      /\ \A i \in 1 .. Len(input) : input[i] \in Alphabet
  BY LexerAssumption, LenProperties, ElementOfSeq DEF TypeOK
<1>2. "end" \notin Alphabet
  BY LexerAssumption DEF Blank, IdentChar, IdentStart
<1>3. ASSUME NEW p \in Nat PROVE Char(p) = "end" <=> p >= Len(input)
  <2>1. CASE p < Len(input)
    <3>1. p + 1 \in 1 .. Len(input) /\ Char(p) = input[p + 1]
      BY <1>1, <2>1 DEF Char
    <3>2. Char(p) \in Alphabet
      BY <1>1, <3>1
    <3> QED
      BY <1>1, <1>2, <2>1, <3>2
  <2>2. CASE ~ (p < Len(input))
    BY <1>1, <2>2 DEF Char
  <2> QED
    BY <2>1, <2>2
<1>4. ASSUME NEW p \in 0 .. Len(input)
      PROVE  Char(p) \in Rest <=> Char(p) \notin {"end", "newline"}
  <2>1. p \in 0 .. MaxLength
    BY <1>1
  <2> QED
    BY <2>1 DEF Rest
<1> QED
  BY <1>1, <1>3, <1>4

\* What is said of positions is said of the text alone.
LEMMA TextStays ==
    ASSUME input' = input
    PROVE  /\ \A p : Char(p)' = Char(p)
           /\ \A p : LineOf(p)' = LineOf(p)
           /\ \A p, l, c : IsPlace(p, l, c)' <=> IsPlace(p, l, c)
           /\ \A from, to : Skipped(from, to)' <=> Skipped(from, to)
           /\ \A t : WellFormed(t)' <=> WellFormed(t)
           /\ \A t, from, raw : Fits(t, from, raw)' <=> Fits(t, from, raw)
<1>1. \A p : Char(p)' = Char(p)
  BY DEF Char
<1>2. \A p : LineOf(p)' = LineOf(p)
  BY DEF LineOf, Newlines, Char
<1>3. \A p, l, c : IsPlace(p, l, c)' <=> IsPlace(p, l, c)
  BY <1>1, <1>2 DEF IsPlace
<1>4. \A from, to : Skipped(from, to)' <=> Skipped(from, to)
  BY DEF Skipped, Char
<1>5. \A t : WellFormed(t)' <=> WellFormed(t)
  BY DEF WellFormed, Text, Char
<1>6. \A t, from, raw : Fits(t, from, raw)' <=> Fits(t, from, raw)
  BY <1>3, <1>4, <1>5 DEF Fits, First
<1> QED
  BY <1>1, <1>2, <1>3, <1>4, <1>5, <1>6

LEMMA NewlinesFinite ==
    ASSUME NEW p \in Nat PROVE IsFiniteSet(Newlines(p)) /\ Cardinality(Newlines(p)) \in Nat
<1>1. IsFiniteSet(0 .. p - 1)
  BY FS_Interval
<1>2. IsFiniteSet(Newlines(p))
  BY <1>1, FS_Subset DEF Newlines
<1> QED
  BY <1>2, FS_CardinalityType

\* The place of the next position, as Place computes it.
LEMMA NextPlace ==
    ASSUME NEW p \in Nat, NEW l, NEW c, IsPlace(p, l, c)
    PROVE  /\ Char(p) = "newline" => IsPlace(p + 1, l + 1, 1)
           /\ Char(p) # "newline" => IsPlace(p + 1, l, c + 1)
<1>1. /\ l = LineOf(p) /\ l \in 1 .. p + 1 /\ c \in 1 .. p + 1
      /\ \A m \in 1 .. c - 1 : Char(p - m) # "newline"
      /\ c = p + 1 \/ Char(p - c) = "newline"
  BY DEF IsPlace
<1>2. ASSUME Char(p) = "newline" PROVE IsPlace(p + 1, l + 1, 1)
  <2>1. Newlines(p + 1) = Newlines(p) \cup {p} /\ p \notin Newlines(p)
    BY <1>2 DEF Newlines
  <2>2. Cardinality(Newlines(p + 1)) = Cardinality(Newlines(p)) + 1
    BY <2>1, NewlinesFinite, FS_AddElement
  <2>3. LineOf(p + 1) = l + 1
    BY <1>1, <2>2, NewlinesFinite DEF LineOf
  <2>4. Char(p + 1 - 1) = "newline"
    BY <1>2
  <2>5. \A m \in 1 .. 1 - 1 : Char(p + 1 - m) # "newline"
    OBVIOUS
  <2> QED
    BY <1>1, <2>3, <2>4, <2>5 DEF IsPlace
<1>3. ASSUME Char(p) # "newline" PROVE IsPlace(p + 1, l, c + 1)
  <2>1. Newlines(p + 1) = Newlines(p)
    <3>1. \A q \in 0 .. (p + 1) - 1 : q \in 0 .. p - 1 \/ q = p
      OBVIOUS
    <3>2. \A q \in 0 .. p - 1 : q \in 0 .. (p + 1) - 1
      OBVIOUS
    <3> QED
      BY <1>3, <3>1, <3>2 DEF Newlines
  <2>2. LineOf(p + 1) = l
    BY <1>1, <2>1 DEF LineOf
  <2>3. ASSUME NEW m \in 1 .. (c + 1) - 1 PROVE Char(p + 1 - m) # "newline"
    <3>1. CASE m = 1
      <4>1. p + 1 - m = p
        BY <3>1
      <4> QED
        BY <1>3, <4>1
    <3>2. CASE m # 1
      <4>1. m - 1 \in 1 .. c - 1 /\ p + 1 - m = p - (m - 1)
        BY <1>1, <3>2
      <4> QED
        BY <1>1, <4>1
    <3> QED
      BY <3>1, <3>2
  <2>4. c + 1 = p + 1 + 1 \/ Char(p + 1 - (c + 1)) = "newline"
    <3>1. p + 1 - (c + 1) = p - c
      BY <1>1
    <3>2. CASE c = p + 1
      BY <3>2
    <3>3. CASE Char(p - c) = "newline"
      BY <3>1, <3>3
    <3> QED
      BY <1>1, <3>2, <3>3
  <2>5. l \in 1 .. (p + 1) + 1 /\ c + 1 \in 1 .. (p + 1) + 1
    BY <1>1
  <2> QED
    BY <2>2, <2>3, <2>4, <2>5 DEF IsPlace
<1> QED
  BY <1>2, <1>3

\* A place is the line and column counted from the start of the text.
LEMMA PlaceIsCounted ==
    ASSUME MaxLength \in Nat, NEW p \in 0 .. MaxLength, NEW l, NEW c, IsPlace(p, l, c)
    PROVE  l = LineOf(p) /\ c = ColumnOf(p)
<1>1. /\ l = LineOf(p) /\ c \in 1 .. p + 1
      /\ \A m \in 1 .. c - 1 : Char(p - m) # "newline"
      /\ c = p + 1 \/ Char(p - c) = "newline"
  BY DEF IsPlace
<1>2. CASE c = p + 1
  <2>1. ASSUME NEW q \in Newlines(p) PROVE FALSE
    <3>1. q \in 0 .. p - 1 /\ Char(q) = "newline"
      BY DEF Newlines
    <3>2. p - q \in 1 .. c - 1 /\ p - (p - q) = q
      BY <1>2, <3>1
    <3> QED
      BY <1>1, <3>1, <3>2
  <2>2. Newlines(p) = {}
    BY <2>1
  <2> QED
    BY <1>1, <1>2, <2>2 DEF ColumnOf
<1>3. CASE c # p + 1
  <2>1. c \in 1 .. MaxLength /\ p - c \in 0 .. p - 1 /\ Char(p - c) = "newline"
    <3>1. c \in 1 .. p
      BY <1>1, <1>3
    <3>2. Char(p - c) = "newline"
      BY <1>1, <1>3
    <3> QED
      BY <3>1, <3>2
  <2>2. Newlines(p) # {}
    BY <2>1 DEF Newlines
  <2> DEFINE P(n) == Char(p - n) = "newline" /\ \A m \in 1 .. n - 1 : Char(p - m) # "newline"
  <2>3. P(c)
    BY <1>1, <2>1
  <2>4. ASSUME NEW n \in 1 .. MaxLength, P(n) PROVE n = c
    <3>1. ~ (n \in 1 .. c - 1)
      BY <1>1, <2>4
    <3>2. ~ (c \in 1 .. n - 1)
      BY <2>1, <2>4
    <3> QED
      BY <2>1, <3>1, <3>2
  <2>5. ColumnOf(p) = CHOOSE n \in 1 .. MaxLength : P(n)
    BY <2>2 DEF ColumnOf
  <2> HIDE DEF P
  <2>6. c = CHOOSE n \in 1 .. MaxLength : P(n)
    BY <2>1, <2>3, <2>4
  <2> QED
    BY <1>1, <2>5, <2>6
<1> QED
  BY <1>2, <1>3

-----------------------------------------------------------------------------
(* Steps of the position *)

\* advance goes one position on, and the place with it.
LEMMA AdvanceMoves ==
    ASSUME TypeOK, pos <= Len(input), IsPlace(pos, line, column), peek # "end", advance
    PROVE  /\ pos' = pos + 1 /\ pos' \in Position /\ pos < Len(input)
           /\ IsPlace(pos', line', column')
           /\ line' \in 1 .. MaxLength + 1 /\ column' \in 1 .. MaxLength + 1
           /\ peek # "newline" => line' = line
<1>1. pos \in Nat /\ Len(input) \in Nat /\ MaxLength \in Nat /\ Len(input) <= MaxLength
      /\ pos < Len(input)
  <2>1. pos \in Nat /\ Len(input) \in Nat /\ MaxLength \in Nat /\ Len(input) <= MaxLength
    BY Characters DEF TypeOK, Position
  <2>2. ~ (pos >= Len(input))
    BY <2>1, Characters DEF peek
  <2> QED
    BY <2>1, <2>2
<1>2. pos' = pos + 1 /\ Place
  BY DEF advance
<1>3. /\ peek = "newline" => line' = line + 1 /\ column' = 1
      /\ peek # "newline" => line' = line /\ column' = column + 1
  BY <1>2 DEF Place
<1>4. /\ peek = "newline" => IsPlace(pos + 1, line + 1, 1)
      /\ peek # "newline" => IsPlace(pos + 1, line, column + 1)
  BY <1>1, NextPlace DEF peek
<1>5. IsPlace(pos', line', column')
  BY <1>2, <1>3, <1>4
<1>6. line' \in 1 .. pos' + 1 /\ column' \in 1 .. pos' + 1
  BY <1>5 DEF IsPlace
<1>7. pos' \in 0 .. MaxLength /\ pos' + 1 <= MaxLength + 1 /\ pos' \in Nat
  BY <1>1, <1>2
<1>8. line' \in 1 .. MaxLength + 1 /\ column' \in 1 .. MaxLength + 1
  <2>1. \A q \in Nat : q <= MaxLength => 1 .. q + 1 \subseteq 1 .. MaxLength + 1
    BY <1>1
  <2>2. pos' \in Nat /\ pos' <= MaxLength
    BY <1>7
  <2>3. 1 .. pos' + 1 \subseteq 1 .. MaxLength + 1
    BY <2>1, <2>2
  <2> QED
    BY <1>6, <2>3
<1> QED
  BY <1>1, <1>2, <1>3, <1>5, <1>7, <1>8 DEF Position

\* The types of a position and its place.
LEMMA Numbers ==
    ASSUME LexerInv
    PROVE  /\ pos \in Nat /\ Len(input) \in Nat /\ MaxLength \in Nat
           /\ pos <= Len(input) /\ Len(input) <= MaxLength
           /\ line \in Nat /\ column \in Nat
           /\ mark.start \in Nat /\ mark.end \in Nat
           /\ Len(tokens) \in Nat /\ DOMAIN tokens = 1 .. Len(tokens)
           /\ \A i \in 1 .. Len(tokens) : tokens[i] \in
                 [type : Types, from : Position, to : Position, line : Nat, column : Nat]
           /\ peek = "end" <=> pos = Len(input)
           /\ peek \in Rest <=> peek \notin {"end", "newline"}
<1>1. TypeOK /\ pos <= Len(input)
  BY DEF LexerInv
<1>2. pos \in Nat /\ Len(input) \in Nat /\ MaxLength \in Nat /\ Len(input) <= MaxLength
      /\ mark.start \in Nat /\ mark.end \in Nat
      /\ line \in 1 .. MaxLength + 1 /\ column \in 1 .. MaxLength + 1
  BY <1>1, Characters DEF TypeOK, Position
<1>3. line \in Nat /\ column \in Nat
  BY <1>2
<1>4. peek = "end" <=> pos = Len(input)
  BY <1>1, <1>2, Characters DEF peek
<1>5. peek \in Rest <=> peek \notin {"end", "newline"}
  <2>1. pos \in 0 .. Len(input)
    BY <1>1, <1>2
  <2> QED
    BY <1>1, <2>1, Characters DEF peek
<1>6. tokens \in Seq([type : Types, from : Position, to : Position, line : Nat, column : Nat])
  BY <1>1 DEF TypeOK
<1>7. Len(tokens) \in Nat /\ DOMAIN tokens = 1 .. Len(tokens)
      /\ \A i \in 1 .. Len(tokens) : tokens[i] \in
            [type : Types, from : Position, to : Position, line : Nat, column : Nat]
  BY <1>6, LenProperties, ElementOfSeq
<1> QED
  BY <1>1, <1>2, <1>3, <1>4, <1>5, <1>7

\* Of a position in Nat, of a token: its begin and its end.
LEMMA ReachedIsANumber == ASSUME LexerInv PROVE Reached \in Int
<1>1. CASE Len(tokens) = 0
  BY <1>1 DEF Reached, Before
<1>2. CASE Len(tokens) # 0
  <2>1. Len(tokens) + 1 # 1 /\ (Len(tokens) + 1) - 1 \in 1 .. Len(tokens)
    BY <1>2, Numbers
  <2>2. tokens[(Len(tokens) + 1) - 1].to \in Nat
    BY <2>1, Numbers DEF Position
  <2> QED
    BY <2>1, <2>2 DEF Reached, Before, After
<1> QED
  BY <1>1, <1>2

\* One more skipped character: a blank, or one of a comment.
LEMMA SkipsOneMore ==
    ASSUME NEW from \in Int, NEW p \in Nat, Skipped(from, p),
           \/ Char(p) \in Blank
           \/ \E h \in from .. p : Char(h) = "hash" /\ \A q \in h .. p : Char(q) # "newline"
    PROVE  Skipped(from, p + 1)
<1>1. \A q \in from .. (p + 1) - 1 : q \in from .. p - 1 \/ q = p
  OBVIOUS
<1> QED
  BY <1>1 DEF Skipped

\* Behind from, nothing is skipped.
LEMMA SkipsNothing == ASSUME NEW from \in Int PROVE Skipped(from, from)
<1>1. \A q \in from .. from - 1 : FALSE
  OBVIOUS
<1> QED
  BY <1>1 DEF Skipped

\* What a step leaves as it is when it makes no token.
LEMMA TokensStay ==
    ASSUME LexerInv, UNCHANGED <<input, gathered>>,
           pc \notin {"done", "null"}, pc' \notin {"done", "null"},
           pc' # "grow" => pc # "grow" \/ Len(tokens) < capacity
    PROVE  /\ TokenInv' /\ StringsHaveTheirToken' /\ RoomInv'
           /\ Reached' = Reached /\ (AfterBody' <=> AfterBody)
           /\ \A p : Resumes(p)' <=> Resumes(p)
<1>1. UNCHANGED <<input, tokens, capacity, strings>>
  BY DEF gathered
<1>2. \A i : Before(i)' = Before(i)
  BY <1>1 DEF Before, After
<1>3. TokenInv'
  <2>1. \A i \in DOMAIN tokens :
           /\ tokens[i].type \notin {"EOF", "ERROR"}
           /\ Fits(tokens[i], Before(i), i > 1 /\ tokens[i - 1].type = "BODY_STMT")
    BY DEF LexerInv, TokenInv
  <2>2. \A t, from, raw : Fits(t, from, raw)' <=> Fits(t, from, raw)
    BY <1>1, TextStays
  <2>3. \A i \in DOMAIN tokens :
           Fits(tokens[i], Before(i), i > 1 /\ tokens[i - 1].type = "BODY_STMT")'
    BY <1>1, <1>2, <2>1, <2>2
  <2> QED
    BY <1>1, <2>1, <2>3 DEF TokenInv
<1>4. StringsHaveTheirToken'
  BY <1>1 DEF LexerInv, StringsHaveTheirToken
<1>5. RoomInv'
  BY <1>1 DEF LexerInv, RoomInv
<1>6. Reached' = Reached
  BY <1>1 DEF Reached, Before, After
<1>7. AfterBody' <=> AfterBody
  BY <1>1 DEF AfterBody, Last
<1>8. \A p : Resumes(p)' <=> Resumes(p)
  BY <1>1, <1>6, TextStays DEF Resumes
<1> QED
  BY <1>3, <1>4, <1>5, <1>6, <1>7, <1>8

Marks == [start : Position, end : Position, line : Nat, column : Nat]

\* A step that makes no token, with or without a character.
LEMMA StepKeeps ==
    ASSUME LexerInv, UNCHANGED <<input, gathered>>,
           pc \notin {"grow", "done", "null"}, pc' \notin {"grow", "done", "null"},
           Stay \/ (peek # "end" /\ advance),
           mark' \in Marks,
           read_body_raw_next' \in BOOLEAN, ModeInv', ScanInv'
    PROVE  LexerInv'
<1>1. UNCHANGED <<input, tokens, capacity, strings>>
  BY DEF gathered
<1>2. TokenInv' /\ StringsHaveTheirToken' /\ RoomInv'
  BY TokensStay
<1>3. /\ pos' \in Position /\ pos' <= Len(input)
      /\ line' \in 1 .. MaxLength + 1 /\ column' \in 1 .. MaxLength + 1
      /\ IsPlace(pos', line', column')
  <2>1. CASE Stay
    BY <2>1 DEF Stay, LexerInv, TypeOK
  <2>2. CASE peek # "end" /\ advance
    BY <2>2, AdvanceMoves, Numbers DEF LexerInv
  <2> QED
    BY <2>1, <2>2
<1>4. IsPlace(pos, line, column)'
  <2> PICK p, l, c : p = pos' /\ l = line' /\ c = column'
    OBVIOUS
  <2>1. IsPlace(p, l, c)
    BY <1>3
  <2>2. IsPlace(p, l, c)'
    BY <1>1, <2>1, TextStays
  <2> QED
    BY <2>2
<1>5. TypeOK'
  BY <1>1, <1>3 DEF LexerInv, TypeOK, Marks
<1> QED
  BY <1>1, <1>2, <1>3, <1>4, <1>5 DEF LexerInv

\* What has been scanned, and one character more.
LEMMA ScannedMore ==
    ASSUME UNCHANGED <<input, mark>>, pos \in Nat, mark.start \in Int, pos' = pos + 1,
           NEW class
    PROVE  /\ Scanned(class) /\ peek \in class => Scanned(class)'
           /\ ScannedNo(class) /\ peek \notin class => ScannedNo(class)'
<1>1. \A q \in mark.start .. pos' - 1 : q \in mark.start .. pos - 1 \/ q = pos
  OBVIOUS
<1>2. \A q : Char(q)' = Char(q)
  BY TextStays
<1>3. ASSUME Scanned(class), peek \in class PROVE Scanned(class)'
  <2>1. \A q \in mark.start .. pos' - 1 : Char(q) \in class
    BY <1>1, <1>3 DEF Scanned, peek
  <2> QED
    BY <1>2, <2>1 DEF Scanned
<1>4. ASSUME ScannedNo(class), peek \notin class PROVE ScannedNo(class)'
  <2>1. \A q \in mark.start .. pos' - 1 : Char(q) \notin class
    BY <1>1, <1>4 DEF ScannedNo, peek
  <2> QED
    BY <1>2, <2>1 DEF ScannedNo
<1> QED
  BY <1>3, <1>4

\* The start of a token stays one while the scan goes on.
LEMMA StartedStays ==
    ASSUME UNCHANGED <<input, tokens>>, pos \in Nat, pos' \in Nat, pos <= pos',
           mark'.line = mark.line, mark'.column = mark.column,
           NEW p \in Int, Started(p)
    PROVE  Started(p)'
<1>1. Reached' = Reached
  BY DEF Reached, Before, After
<1>2. Resumes(p)'
  BY <1>1, TextStays DEF Started, Resumes
<1>3. IsPlace(p, mark.line, mark.column)'
  <2> PICK l, c : l = mark.line /\ c = mark.column
    OBVIOUS
  <2>1. IsPlace(p, l, c)'
    BY TextStays DEF Started
  <2> QED
    BY <2>1
<1>4. p \in 0 .. pos'
  BY DEF Started
<1> QED
  BY <1>2, <1>3, <1>4 DEF Started

\* A character more between the last token and the next one.
LEMMA NotLost ==
    ASSUME LexerInv, UNCHANGED <<input, tokens>>, Resumes(pos), pos' = pos + 1,
           \/ peek \in Blank
           \/ \E h \in Reached .. pos : Char(h) = "hash" /\ \A q \in h .. pos : Char(q) # "newline"
    PROVE  Resumes(pos)'
<1>1. Reached \in Int /\ pos \in Nat /\ Reached <= pos /\ Skipped(Reached, pos)
  BY ReachedIsANumber, Numbers DEF Resumes
<1>2. Skipped(Reached, pos + 1)
  BY <1>1, SkipsOneMore DEF peek
<1>3. Reached' = Reached
  BY DEF Reached, Before, After
<1> PICK q, r : q = pos' /\ r = Reached
  OBVIOUS
<1>4. Skipped(r, q)' /\ r <= q
  BY <1>1, <1>2, TextStays
<1> QED
  BY <1>3, <1>4 DEF Resumes

\* Blanks between tokens.
LEMMA SkipSpacesKeeps == ASSUME LexerInv, SkipSpaces PROVE LexerInv'
<1>1. /\ pc = "next" /\ pc' = "next" /\ peek \in Blank /\ advance
      /\ UNCHANGED <<input, read_body_raw_next, mark, gathered>> /\ UNCHANGED tokens
  BY DEF SkipSpaces, Loop, gathered
<1>2. peek # "end"
  BY <1>1 DEF Blank
<1>3. pos' = pos + 1
  BY <1>1, <1>2, AdvanceMoves DEF LexerInv
<1>4. Resumes(pos)
  BY <1>1 DEF LexerInv, ScanInv
<1>5. Resumes(pos)'
  BY <1>1, <1>3, <1>4, NotLost
<1>6. ScanInv'
  BY <1>1, <1>5 DEF ScanInv
<1>7. AfterBody' <=> AfterBody
  BY <1>1 DEF AfterBody, Last
<1>8. ModeInv'
  BY <1>1, <1>7 DEF LexerInv, ModeInv
<1>9. mark' \in Marks /\ read_body_raw_next' \in BOOLEAN
  BY <1>1 DEF LexerInv, TypeOK, Marks
<1> QED
  BY <1>1, <1>2, <1>6, <1>8, <1>9, StepKeeps

\* The steps inside a word, a number, a string, a comment and a raw body: the
\* scan goes on with one character more of its class.
LEMMA ScanStepFacts ==
    ASSUME LexerInv, NEW at, NEW class, Loop(at, class), "end" \notin class,
           at \in {"comment", "number", "word", "string", "raw_blanks", "raw"}
    PROVE  /\ pc = at /\ pc' = at /\ peek \in class /\ peek # "end" /\ advance
           /\ UNCHANGED <<input, read_body_raw_next, mark, gathered>>
           /\ UNCHANGED <<input, mark>> /\ UNCHANGED <<input, tokens>>
           /\ pos' = pos + 1 /\ pos \in Nat /\ pos' \in Nat /\ pos <= pos'
           /\ mark.start \in Nat
           /\ mark' \in Marks /\ read_body_raw_next' \in BOOLEAN /\ ModeInv'
<1>1. /\ pc = at /\ pc' = at /\ peek \in class /\ peek # "end" /\ advance
      /\ UNCHANGED <<input, read_body_raw_next, mark, gathered>> /\ UNCHANGED tokens
  BY DEF Loop, gathered
<1>2. pos' = pos + 1 /\ pos \in Nat /\ mark.start \in Nat
  BY <1>1, AdvanceMoves, Numbers DEF LexerInv
<1>3. AfterBody' <=> AfterBody
  BY <1>1 DEF AfterBody, Last
<1>4. ModeInv'
  BY <1>1, <1>3 DEF LexerInv, ModeInv
<1>5. mark' \in Marks /\ read_body_raw_next' \in BOOLEAN
  BY <1>1 DEF LexerInv, TypeOK, Marks
<1> QED
  BY <1>1, <1>2, <1>4, <1>5

LEMMA CommentCharKeeps == ASSUME LexerInv, CommentChar PROVE LexerInv'
<1> "end" \notin Rest
  BY DEF Rest
<1>1. Loop("comment", Rest)
  BY DEF CommentChar
<1>2. /\ pc = "comment" /\ pc' = "comment" /\ peek \in Rest /\ peek # "end" /\ advance
      /\ UNCHANGED <<input, read_body_raw_next, mark, gathered>>
      /\ UNCHANGED <<input, mark>> /\ UNCHANGED <<input, tokens>>
      /\ pos' = pos + 1 /\ pos \in Nat /\ pos' \in Nat /\ pos <= pos'
      /\ mark.start \in Nat
      /\ mark' \in Marks /\ read_body_raw_next' \in BOOLEAN /\ ModeInv'
  BY <1>1, ScanStepFacts
<1>3. peek # "newline"
  BY <1>2 DEF Rest
<1>4. /\ Resumes(pos) /\ mark.start \in Reached .. pos
      /\ Char(mark.start) = "hash" /\ ScannedNo({"newline"})
  BY <1>2 DEF LexerInv, ScanInv
<1>5. \A q \in mark.start .. pos : Char(q) # "newline"
  <2>1. \A q \in mark.start .. pos : q \in mark.start .. pos - 1 \/ q = pos
    BY <1>2
  <2> QED
    BY <1>3, <1>4, <2>1 DEF ScannedNo, peek
<1>6. Resumes(pos)'
  BY <1>2, <1>4, <1>5, NotLost
<1>7. ScannedNo({"newline"})'
  BY <1>2, <1>3, <1>4, ScannedMore
<1>8. Char(mark.start)' = "hash" /\ mark'.start \in Reached' .. pos'
  <2>1. Reached' = Reached /\ Reached \in Int
    BY <1>2, ReachedIsANumber DEF Reached, Before, After
  <2>2. Char(mark.start)' = "hash"
    <3> PICK p : p = mark.start
      OBVIOUS
    <3>1. Char(p)' = "hash"
      BY <1>2, <1>4, TextStays
    <3> QED
      BY <1>2, <3>1
  <2> QED
    BY <1>2, <1>4, <2>1, <2>2
<1>9. ScanInv'
  BY <1>2, <1>6, <1>7, <1>8 DEF ScanInv
<1> QED
  BY <1>2, <1>9, StepKeeps

LEMMA NumberCharKeeps == ASSUME LexerInv, NumberChar PROVE LexerInv'
<1>1. Loop("number", {"digit"})
  BY DEF NumberChar
<1>2. /\ pc = "number" /\ pc' = "number" /\ peek = "digit" /\ peek # "end" /\ advance
      /\ UNCHANGED <<input, read_body_raw_next, mark, gathered>>
      /\ UNCHANGED <<input, mark>> /\ UNCHANGED <<input, tokens>>
      /\ pos' = pos + 1 /\ pos \in Nat /\ pos' \in Nat /\ pos <= pos'
      /\ mark.start \in Nat
      /\ mark' \in Marks /\ read_body_raw_next' \in BOOLEAN /\ ModeInv'
  BY <1>1, ScanStepFacts
<1>3. Started(mark.start) /\ Char(mark.start) = "digit" /\ Scanned({"digit"})
  BY <1>2 DEF LexerInv, ScanInv
<1>4. Scanned({"digit"})'
  BY <1>2, <1>3, ScannedMore
<1>5. Started(mark.start)' /\ Char(mark.start)' = "digit"
  <2> PICK p \in Nat : p = mark.start
    BY <1>2
  <2>1. Started(p)' /\ Char(p)' = "digit"
    BY <1>2, <1>3, StartedStays, TextStays
  <2> QED
    BY <1>2, <2>1
<1>6. ScanInv'
  BY <1>2, <1>4, <1>5 DEF ScanInv
<1> QED
  BY <1>2, <1>6, StepKeeps

LEMMA WordCharKeeps == ASSUME LexerInv, WordChar PROVE LexerInv'
<1> "end" \notin IdentChar
  BY DEF IdentChar, IdentStart
<1>1. Loop("word", IdentChar)
  BY DEF WordChar
<1>2. /\ pc = "word" /\ pc' = "word" /\ peek \in IdentChar /\ peek # "end" /\ advance
      /\ UNCHANGED <<input, read_body_raw_next, mark, gathered>>
      /\ UNCHANGED <<input, mark>> /\ UNCHANGED <<input, tokens>>
      /\ pos' = pos + 1 /\ pos \in Nat /\ pos' \in Nat /\ pos <= pos'
      /\ mark.start \in Nat
      /\ mark' \in Marks /\ read_body_raw_next' \in BOOLEAN /\ ModeInv'
  BY <1>1, ScanStepFacts
<1>3. Started(mark.start) /\ Char(mark.start) \in IdentStart /\ Scanned(IdentChar)
  BY <1>2 DEF LexerInv, ScanInv
<1>4. Scanned(IdentChar)'
  BY <1>2, <1>3, ScannedMore
<1>5. Started(mark.start)' /\ Char(mark.start)' \in IdentStart
  <2> PICK p \in Nat : p = mark.start
    BY <1>2
  <2>1. Started(p)' /\ Char(p)' \in IdentStart
    BY <1>2, <1>3, StartedStays, TextStays
  <2> QED
    BY <1>2, <2>1
<1>6. ScanInv'
  BY <1>2, <1>4, <1>5 DEF ScanInv
<1> QED
  BY <1>2, <1>6, StepKeeps

LEMMA StringCharKeeps == ASSUME LexerInv, StringChar PROVE LexerInv'
<1> "end" \notin Rest \ {"quote"}
  BY DEF Rest
<1>1. Loop("string", Rest \ {"quote"})
  BY DEF StringChar
<1>2. /\ pc = "string" /\ pc' = "string" /\ peek \in Rest \ {"quote"}
      /\ peek # "end" /\ advance
      /\ UNCHANGED <<input, read_body_raw_next, mark, gathered>>
      /\ UNCHANGED <<input, mark>> /\ UNCHANGED <<input, tokens>>
      /\ pos' = pos + 1 /\ pos \in Nat /\ pos' \in Nat /\ pos <= pos'
      /\ mark.start \in Nat
      /\ mark' \in Marks /\ read_body_raw_next' \in BOOLEAN /\ ModeInv'
  BY <1>1, ScanStepFacts
<1>3. /\ mark.start \in 1 .. pos /\ Started(mark.start - 1)
      /\ Char(mark.start - 1) = "quote" /\ ScannedNo({"quote", "newline"})
  BY <1>2 DEF LexerInv, ScanInv
<1>4. ScannedNo({"quote", "newline"})'
  <2>1. peek \notin {"quote", "newline"}
    BY <1>2 DEF Rest
  <2> QED
    BY <1>2, <1>3, <2>1, ScannedMore
<1>5. Started(mark.start - 1)' /\ Char(mark.start - 1)' = "quote"
  <2> PICK p \in Int : p = mark.start - 1
    BY <1>2
  <2>1. Started(p)' /\ Char(p)' = "quote"
    BY <1>2, <1>3, StartedStays, TextStays
  <2> QED
    BY <1>2, <2>1
<1>6. mark'.start \in 1 .. pos'
  BY <1>2, <1>3
<1>7. ScanInv'
  BY <1>2, <1>4, <1>5, <1>6 DEF ScanInv
<1> QED
  BY <1>2, <1>7, StepKeeps

LEMMA RawBlankKeeps == ASSUME LexerInv, RawBlank PROVE LexerInv'
<1>1. Loop("raw_blanks", {"space"})
  BY DEF RawBlank
<1>2. /\ pc = "raw_blanks" /\ pc' = "raw_blanks" /\ peek = "space" /\ peek # "end" /\ advance
      /\ UNCHANGED <<input, read_body_raw_next, mark, gathered>>
      /\ UNCHANGED <<input, mark>> /\ UNCHANGED <<input, tokens>>
      /\ pos' = pos + 1 /\ pos \in Nat /\ pos' \in Nat /\ pos <= pos'
      /\ mark.start \in Nat
      /\ mark' \in Marks /\ read_body_raw_next' \in BOOLEAN /\ ModeInv'
  BY <1>1, ScanStepFacts
<1>3. Resumes(pos) /\ mark.line = line
  BY <1>2 DEF LexerInv, ScanInv
<1>4. Resumes(pos)'
  BY <1>2, <1>3, NotLost DEF Blank
<1>5. line' = line
  BY <1>2, AdvanceMoves DEF LexerInv
<1>6. ScanInv'
  BY <1>2, <1>3, <1>4, <1>5 DEF ScanInv
<1> QED
  BY <1>2, <1>6, StepKeeps

LEMMA RawCharKeeps == ASSUME LexerInv, RawChar PROVE LexerInv'
<1> "end" \notin Rest \ {"cr"}
  BY DEF Rest
<1>1. Loop("raw", Rest \ {"cr"})
  BY DEF RawChar
<1>2. /\ pc = "raw" /\ pc' = "raw" /\ peek \in Rest \ {"cr"} /\ peek # "end" /\ advance
      /\ UNCHANGED <<input, read_body_raw_next, mark, gathered>>
      /\ UNCHANGED <<input, mark>> /\ UNCHANGED <<input, tokens>>
      /\ pos' = pos + 1 /\ pos \in Nat /\ pos' \in Nat /\ pos <= pos'
      /\ mark.start \in Nat
      /\ mark' \in Marks /\ read_body_raw_next' \in BOOLEAN /\ ModeInv'
  BY <1>1, ScanStepFacts
<1>3. Started(mark.start) /\ Char(mark.start) # "space" /\ ScannedNo({"newline", "cr"})
  BY <1>2 DEF LexerInv, ScanInv
<1>4. ScannedNo({"newline", "cr"})'
  <2>1. peek \notin {"newline", "cr"}
    BY <1>2 DEF Rest
  <2> QED
    BY <1>2, <1>3, <2>1, ScannedMore
<1>5. Started(mark.start)' /\ Char(mark.start)' # "space"
  <2> PICK p \in Nat : p = mark.start
    BY <1>2
  <2>1. Started(p)' /\ Char(p)' # "space"
    BY <1>2, <1>3, StartedStays, TextStays
  <2> QED
    BY <1>2, <2>1
<1>6. ScanInv'
  BY <1>2, <1>4, <1>5 DEF ScanInv
<1> QED
  BY <1>2, <1>6, StepKeeps

-----------------------------------------------------------------------------
(* The steps from one function to another *)

\* A scan that begins here begins where a token may start.
LEMMA StartedHere ==
    ASSUME LexerInv, UNCHANGED <<input, gathered>>,
           pos' \in Nat, pos <= pos', Resumes(pos),
           mark'.line = line, mark'.column = column, NEW p, p = pos
    PROVE  Started(p)'
<1>1. UNCHANGED <<input, tokens>> /\ Reached' = Reached
  BY DEF gathered, Reached, Before, After
<1>2. Resumes(p)'
  BY <1>1, TextStays DEF Resumes
<1>3. IsPlace(p, mark.line, mark.column)'
  <2> PICK l, c : l = line /\ c = column
    OBVIOUS
  <2>1. IsPlace(p, l, c)'
    BY <1>1, TextStays DEF LexerInv
  <2> QED
    BY <2>1
<1>4. p \in 0 .. pos'
  BY Numbers
<1> QED
  BY <1>2, <1>3, <1>4 DEF Started

\* What a step that starts a scanner, or leaves one, has in common.
LEMMA JumpFacts ==
    ASSUME LexerInv, UNCHANGED <<input, gathered>>,
           pc \notin {"grow", "done", "null"}, pc' \notin {"grow", "done", "null"}, Stay
    PROVE  /\ UNCHANGED <<input, tokens>> /\ pos' = pos /\ pos' \in Nat
           /\ line' = line /\ column' = column
           /\ Reached' = Reached /\ Reached \in Int /\ (AfterBody' <=> AfterBody)
           /\ Resumes(pos) => Resumes(pos)'
           /\ \A class : mark'.start = pos => Scanned(class)' /\ ScannedNo(class)'
<1>1. UNCHANGED <<input, tokens>> /\ pos' = pos /\ pos' \in Nat /\ line' = line /\ column' = column
  BY Numbers DEF gathered, Stay
<1>2. Reached' = Reached /\ (AfterBody' <=> AfterBody) /\ \A p : Resumes(p)' <=> Resumes(p)
  BY TokensStay
<1>3. Resumes(pos) => Resumes(pos)'
  <2> PICK p : p = pos
    OBVIOUS
  <2>1. Resumes(p)' <=> Resumes(p)
    BY <1>2
  <2> QED
    BY <1>1, <2>1
<1>4. ASSUME NEW class, mark'.start = pos PROVE Scanned(class)' /\ ScannedNo(class)'
  <2>1. \A q \in mark'.start .. pos' - 1 : FALSE
    BY <1>1, <1>4
  <2> QED
    BY <2>1 DEF Scanned, ScannedNo
<1> QED
  BY <1>1, <1>2, <1>3, <1>4, ReachedIsANumber

LEMMA BodyRawKeeps == ASSUME LexerInv, BodyRaw PROVE LexerInv'
<1>1. /\ pc = "next" /\ pc' = "raw_blanks" /\ read_body_raw_next /\ ~ read_body_raw_next'
      /\ mark' = [start |-> pos, end |-> pos, line |-> line, column |-> column]
      /\ UNCHANGED <<input, gathered>> /\ Stay /\ read_body_raw_next' \in BOOLEAN
  BY DEF BodyRaw, Scan
<1>2. Resumes(pos) /\ AfterBody
  BY <1>1 DEF LexerInv, ScanInv, ModeInv
<1>3. Resumes(pos)' /\ AfterBody' /\ line' = line
  BY <1>1, <1>2, JumpFacts
<1>4. mark' \in Marks
  BY <1>1, Numbers DEF Marks, LexerInv, TypeOK
<1>5. mark'.line = line'
  BY <1>1, <1>3
<1>6. ModeInv' /\ ScanInv'
  BY <1>1, <1>3, <1>5 DEF ModeInv, ScanInv
<1> QED
  BY <1>1, <1>4, <1>6, StepKeeps

LEMMA WordKeeps == ASSUME LexerInv, Word PROVE LexerInv'
<1>1. /\ pc = "next" /\ ~ read_body_raw_next /\ ~ read_body_raw_next'
      /\ pc' \in {"number", "word", "comment"}
      /\ mark' = [start |-> pos, end |-> pos, line |-> line, column |-> column]
      /\ UNCHANGED <<input, gathered>> /\ Stay /\ read_body_raw_next' \in BOOLEAN
      /\ pc' = "number" => peek = "digit"
      /\ pc' = "word" => peek \in IdentStart
      /\ pc' = "comment" => peek = "hash"
  BY DEF Word, Starts, Scan, LexerInv, TypeOK
<1>2. Resumes(pos) /\ ~ AfterBody
  BY <1>1 DEF LexerInv, ScanInv, ModeInv
<1>3. /\ Resumes(pos)' /\ ~ AfterBody' /\ pos' = pos /\ pos' \in Nat /\ pos <= pos'
      /\ Reached' = Reached /\ Reached \in Int /\ UNCHANGED input
      /\ mark'.start = pos /\ mark'.line = line /\ mark'.column = column
  BY <1>1, <1>2, JumpFacts
<1>4. \A class : Scanned(class)' /\ ScannedNo(class)'
  BY <1>1, <1>3, JumpFacts
<1>5. mark' \in Marks
  BY <1>1, Numbers DEF Marks, LexerInv, TypeOK
<1>6. Started(mark.start)' /\ Char(mark.start)' = peek
  <2> PICK p : p = pos
    OBVIOUS
  <2>1. Started(p)' /\ Char(p)' = peek
    BY <1>1, <1>2, <1>3, StartedHere, TextStays DEF peek
  <2> QED
    BY <1>3, <2>1
<1>7. mark'.start \in Reached' .. pos'
  BY <1>2, <1>3 DEF Resumes
<1>8. ModeInv'
  BY <1>1, <1>3 DEF ModeInv
<1>9. ScanInv'
  BY <1>1, <1>3, <1>4, <1>6, <1>7 DEF ScanInv
<1> QED
  BY <1>1, <1>5, <1>8, <1>9, StepKeeps

LEMMA QuoteKeeps == ASSUME LexerInv, Quote PROVE LexerInv'
<1>1. /\ pc = "next" /\ ~ read_body_raw_next /\ ~ read_body_raw_next'
      /\ pc' = "string" /\ peek = "quote" /\ peek # "end" /\ advance
      /\ mark' = [start |-> pos + 1, end |-> pos + 1, line |-> line, column |-> column]
      /\ UNCHANGED <<input, gathered>> /\ read_body_raw_next' \in BOOLEAN
  BY DEF Quote, Starts, Scan, LexerInv, TypeOK
<1>2. Resumes(pos) /\ ~ AfterBody
  BY <1>1 DEF LexerInv, ScanInv, ModeInv
<1>3. /\ pos' = pos + 1 /\ pos' \in Position /\ pos \in Nat /\ pos' \in Nat /\ pos <= pos'
      /\ mark'.start = pos' /\ mark'.line = line /\ mark'.column = column
      /\ line \in Nat /\ column \in Nat
  BY <1>1, Numbers, AdvanceMoves DEF LexerInv
<1>4. mark' \in Marks
  BY <1>1, <1>3 DEF Marks
<1>5. ~ AfterBody' /\ UNCHANGED input
  BY <1>1, <1>2 DEF AfterBody, Last, gathered
<1>6. Started(mark.start - 1)' /\ Char(mark.start - 1)' = "quote"
  <2> PICK p : p = pos
    OBVIOUS
  <2>1. Started(p)' /\ Char(p)' = "quote"
    BY <1>1, <1>2, <1>3, StartedHere, TextStays DEF peek
  <2>2. mark'.start - 1 = p
    BY <1>3
  <2> QED
    BY <2>1, <2>2
<1>7. ScannedNo({"quote", "newline"})'
  <2>1. \A q \in mark'.start .. pos' - 1 : FALSE
    BY <1>3
  <2> QED
    BY <2>1 DEF ScannedNo
<1>8. mark'.start \in 1 .. pos'
  BY <1>3
<1>9. ModeInv'
  BY <1>1, <1>5 DEF ModeInv
<1>10. ScanInv'
  BY <1>1, <1>6, <1>7, <1>8 DEF ScanInv
<1> QED
  BY <1>1, <1>4, <1>9, <1>10, StepKeeps

LEMMA CommentEndKeeps == ASSUME LexerInv, CommentEnd PROVE LexerInv'
<1>1. /\ pc = "comment" /\ pc' = "next" /\ UNCHANGED <<input, gathered>> /\ Stay
      /\ UNCHANGED <<mark, read_body_raw_next>>
  BY DEF CommentEnd, lexer, Stay
<1>2. Resumes(pos) /\ ~ AfterBody /\ ~ read_body_raw_next
  BY <1>1 DEF LexerInv, ScanInv, ModeInv
<1>3. Resumes(pos)' /\ ~ AfterBody' /\ ~ read_body_raw_next'
  BY <1>1, <1>2, JumpFacts
<1>4. mark' \in Marks /\ read_body_raw_next' \in BOOLEAN
  BY <1>1 DEF LexerInv, TypeOK, Marks
<1>5. ModeInv' /\ ScanInv'
  BY <1>1, <1>3 DEF ModeInv, ScanInv
<1> QED
  BY <1>1, <1>4, <1>5, StepKeeps

LEMMA RawStartKeeps == ASSUME LexerInv, RawStart PROVE LexerInv'
<1>1. /\ pc = "raw_blanks" /\ pc' = "raw" /\ peek # "space"
      /\ mark' = [mark EXCEPT !.start = pos, !.column = column]
      /\ UNCHANGED <<input, gathered>> /\ Stay /\ UNCHANGED read_body_raw_next
  BY DEF RawStart, lexer, Stay
<1>2. Resumes(pos) /\ AfterBody /\ ~ read_body_raw_next /\ mark.line = line
  BY <1>1 DEF LexerInv, ScanInv, ModeInv
<1>3. mark' \in Marks /\ mark'.start = pos /\ mark'.line = line /\ mark'.column = column
      /\ read_body_raw_next' \in BOOLEAN
  <2>1. mark \in Marks /\ pos \in Position /\ column \in Nat
    BY Numbers DEF LexerInv, TypeOK, Marks
  <2> QED
    BY <1>1, <1>2, <2>1 DEF Marks, LexerInv, TypeOK
<1>4. /\ AfterBody' /\ pos' = pos /\ pos' \in Nat /\ pos <= pos' /\ UNCHANGED input
      /\ \A class : Scanned(class)' /\ ScannedNo(class)'
  BY <1>1, <1>2, <1>3, JumpFacts
<1>5. Started(mark.start)' /\ Char(mark.start)' = peek
  <2> PICK p : p = pos
    OBVIOUS
  <2>1. Started(p)' /\ Char(p)' = peek
    BY <1>1, <1>2, <1>3, <1>4, StartedHere, TextStays DEF peek
  <2> QED
    BY <1>3, <2>1
<1>6. ModeInv'
  BY <1>1, <1>2, <1>4 DEF ModeInv
<1>7. ScanInv'
  BY <1>1, <1>4, <1>5 DEF ScanInv
<1> QED
  BY <1>1, <1>3, <1>6, <1>7, StepKeeps

LEMMA RawEndKeeps == ASSUME LexerInv, RawEnd PROVE LexerInv'
<1>1. /\ pc = "raw" /\ pc' = "trim" /\ peek \in {"end", "newline", "cr"}
      /\ mark' = [mark EXCEPT !.end = pos]
      /\ UNCHANGED <<input, gathered>> /\ Stay /\ UNCHANGED read_body_raw_next
      /\ UNCHANGED <<input, tokens>>
  BY DEF RawEnd, lexer, Stay, gathered
<1>2. /\ Started(mark.start) /\ Char(mark.start) # "space" /\ ScannedNo({"newline", "cr"})
      /\ AfterBody /\ ~ read_body_raw_next
  BY <1>1 DEF LexerInv, ScanInv, ModeInv
<1>3. /\ mark' \in Marks /\ mark'.start = mark.start /\ mark'.end = pos
      /\ mark'.line = mark.line /\ mark'.column = mark.column
      /\ read_body_raw_next' \in BOOLEAN
  BY <1>1, Numbers DEF Marks, LexerInv, TypeOK
<1>4. AfterBody' /\ pos' = pos /\ pos' \in Nat /\ pos <= pos' /\ mark.start \in Nat
  BY <1>1, <1>2, Numbers, JumpFacts
<1>5. Started(mark.start)' /\ Char(mark.start)' # "space" /\ peek' = peek
  <2> PICK p \in Int, q \in Int : p = mark.start /\ q = pos
    BY <1>4, Numbers
  <2>1. Started(p)' /\ Char(p)' # "space" /\ Char(q)' = Char(q)
    BY <1>1, <1>2, <1>3, <1>4, StartedStays, TextStays
  <2> QED
    BY <1>3, <1>4, <2>1 DEF peek
<1>6. ScannedNo({"newline", "cr"})'
  <2>1. \A p : Char(p)' = Char(p)
    BY <1>1, TextStays
  <2> QED
    BY <1>2, <1>3, <1>4, <2>1 DEF ScannedNo
<1>7. mark'.end \in mark'.start .. pos' /\ \A p \in mark'.end .. pos' - 1 : FALSE
  BY <1>2, <1>3, <1>4 DEF Started
<1>8. ModeInv'
  BY <1>1, <1>2, <1>4 DEF ModeInv
<1>9. ScanInv'
  BY <1>1, <1>5, <1>6, <1>7 DEF ScanInv
<1> QED
  BY <1>1, <1>3, <1>8, <1>9, StepKeeps

LEMMA RawTrimKeeps == ASSUME LexerInv, RawTrim PROVE LexerInv'
<1>1. /\ pc = "trim" /\ pc' = "trim" /\ RawTrailing
      /\ mark' = [mark EXCEPT !.end = @ - 1]
      /\ UNCHANGED <<input, gathered>> /\ Stay /\ UNCHANGED read_body_raw_next
      /\ UNCHANGED <<input, tokens>>
  BY DEF RawTrim, lexer, Stay, gathered
<1>2. /\ Started(mark.start) /\ Char(mark.start) # "space" /\ ScannedNo({"newline", "cr"})
      /\ mark.end \in mark.start .. pos /\ peek \in {"end", "newline", "cr"}
      /\ \A p \in mark.end .. pos - 1 : Char(p) = "space"
      /\ AfterBody /\ ~ read_body_raw_next
  BY <1>1 DEF LexerInv, ScanInv, ModeInv
<1>3. mark \in Marks /\ mark.start \in Nat /\ mark.end \in Nat /\ pos \in Nat
  BY Numbers DEF LexerInv, TypeOK, Marks
<1>4. mark.end > mark.start /\ Char(mark.end - 1) = "space"
  BY <1>1 DEF RawTrailing
<1>5. mark.end - 1 \in Position
  <2>1. mark.end \in 0 .. MaxLength /\ MaxLength \in Nat
    BY <1>3, Numbers DEF Marks, Position
  <2> QED
    BY <1>3, <1>4, <2>1 DEF Position
<1>6. /\ mark' \in Marks /\ mark'.start = mark.start /\ mark'.end = mark.end - 1
      /\ mark'.line = mark.line /\ mark'.column = mark.column
      /\ read_body_raw_next' \in BOOLEAN
  BY <1>1, <1>3, <1>5 DEF Marks, LexerInv, TypeOK
<1>7. AfterBody' /\ pos' = pos /\ pos' \in Nat /\ pos <= pos'
  BY <1>1, <1>2, JumpFacts
<1>8. Started(mark.start)' /\ Char(mark.start)' # "space" /\ peek' = peek
  <2> PICK p \in Int, q \in Int : p = mark.start /\ q = pos
    BY <1>3
  <2>1. Started(p)' /\ Char(p)' # "space" /\ Char(q)' = Char(q)
    BY <1>1, <1>2, <1>3, <1>6, <1>7, StartedStays, TextStays
  <2> QED
    BY <1>6, <1>7, <2>1 DEF peek
<1>9. \A p : Char(p)' = Char(p)
  BY <1>1, TextStays
<1>10. ScannedNo({"newline", "cr"})'
  BY <1>2, <1>6, <1>7, <1>9 DEF ScannedNo
<1>11. mark'.end \in mark'.start .. pos' /\ \A p \in mark'.end .. pos' - 1 : Char(p)' = "space"
  <2>1. \A p \in mark'.end .. pos' - 1 : p \in mark.end .. pos - 1 \/ p = mark.end - 1
    BY <1>3, <1>6, <1>7
  <2>2. mark'.end \in mark'.start .. pos'
    BY <1>2, <1>3, <1>4, <1>6, <1>7
  <2> QED
    BY <1>2, <1>4, <1>9, <2>1, <2>2
<1>12. ModeInv'
  BY <1>1, <1>2, <1>7 DEF ModeInv
<1>13. ScanInv'
  BY <1>1, <1>2, <1>8, <1>10, <1>11 DEF ScanInv
<1> QED
  BY <1>1, <1>6, <1>12, <1>13, StepKeeps

-----------------------------------------------------------------------------
(* The steps that make a token *)

TokenRecords == [type : Types, from : Position, to : Position, line : Nat, column : Nat]

\* Of the tokens so far, one more is counted.
LEMMA OneMore ==
    ASSUME NEW n \in Nat, NEW A, A \subseteq 1 .. n
    PROVE  Cardinality(A \cup {n + 1}) = Cardinality(A) + 1 /\ Cardinality(A) \in Nat
<1>1. IsFiniteSet(1 .. n)
  BY FS_Interval
<1>2. IsFiniteSet(A) /\ Cardinality(A) \in Nat
  BY <1>1, FS_Subset, FS_CardinalityType
<1>3. n + 1 \notin A
  OBVIOUS
<1> QED
  BY <1>2, <1>3, FS_AddElement

\* The array with the token behind the others.
LEMMA TakeFacts ==
    ASSUME LexerInv, NEW token \in TokenRecords, NEW copies, Take(token, copies)
    PROVE  /\ UNCHANGED <<input, mark, capacity>> /\ UNCHANGED input
           /\ tokens' \in Seq(TokenRecords)
           /\ Len(tokens') = Len(tokens) + 1 /\ DOMAIN tokens' = 1 .. Len(tokens) + 1
           /\ \A i \in 1 .. Len(tokens) : tokens'[i] = tokens[i]
           /\ tokens'[Len(tokens) + 1] = token
           /\ strings' = strings + copies
           /\ pc' = IF token.type \in {"EOF", "ERROR"} THEN "done" ELSE "grow"
           /\ \A i \in 1 .. Len(tokens) + 1 : Before(i)' = Before(i)
           /\ Reached' = After(token)
           /\ AfterBody' <=> token.type = "BODY_STMT"
           /\ AfterBody <=> Len(tokens) + 1 > 1 /\ tokens[Len(tokens)].type = "BODY_STMT"
<1> DEFINE n == Len(tokens)
<1>1. tokens \in Seq(TokenRecords) /\ n \in Nat /\ DOMAIN tokens = 1 .. n
  BY Numbers DEF LexerInv, TypeOK, TokenRecords
<1>2. /\ tokens' = Append(tokens, token) /\ strings' = strings + copies
      /\ pc' = IF token.type \in {"EOF", "ERROR"} THEN "done" ELSE "grow"
      /\ UNCHANGED <<input, mark, capacity>>
  BY DEF Take
<1>3. tokens' \in Seq(TokenRecords) /\ Len(tokens') = n + 1
      /\ (\A i \in 1 .. n : tokens'[i] = tokens[i]) /\ tokens'[n + 1] = token
  BY <1>1, <1>2, AppendProperties
<1>4. DOMAIN tokens' = 1 .. n + 1
  BY <1>3, LenProperties
<1>5. ASSUME NEW i \in 1 .. n + 1 PROVE Before(i)' = Before(i)
  <2>1. CASE i = 1
    BY <2>1 DEF Before
  <2>2. CASE i # 1
    <3>1. i - 1 \in 1 .. n
      BY <1>1, <2>2
    <3> QED
      BY <1>3, <2>2, <3>1 DEF Before, After
  <2> QED
    BY <2>1, <2>2
<1>6. Reached' = After(token)
  <2>1. Len(tokens') + 1 # 1 /\ (Len(tokens') + 1) - 1 = n + 1
    BY <1>1, <1>3
  <2> QED
    BY <1>3, <2>1 DEF Reached, Before, After
<1>7. AfterBody' <=> token.type = "BODY_STMT"
  <2>1. tokens' # <<>> /\ Last(tokens') = token
    <3>1. Len(tokens') # 0
      BY <1>1, <1>3
    <3> QED
      BY <1>3, <3>1 DEF Last
  <2> QED
    BY <2>1 DEF AfterBody
<1>8. AfterBody <=> n + 1 > 1 /\ tokens[n].type = "BODY_STMT"
  <2>1. tokens # <<>> <=> n + 1 > 1
    BY <1>1, EmptySeq
  <2> QED
    BY <2>1 DEF AfterBody, Last
<1> QED
  BY <1>2, <1>3, <1>4, <1>5, <1>6, <1>7, <1>8

\* The strings and the tokens that have one.
LEMMA TakeStrings ==
    ASSUME LexerInv, NEW token \in TokenRecords, NEW copies \in {0, 1}, Take(token, copies),
           token.type = "EOF" => copies = 0,
           token.type \notin {"EOF", "ERROR", "NEWLINE"} => copies = 1
    PROVE  StringsHaveTheirToken' /\ strings' \in Nat
<1> DEFINE n == Len(tokens)
           May == {i \in DOMAIN tokens : tokens[i].type # "EOF"}
           Must == {i \in DOMAIN tokens : tokens[i].type \notin {"EOF", "ERROR", "NEWLINE"}}
<1>1. n \in Nat /\ DOMAIN tokens = 1 .. n /\ strings \in Nat
  BY Numbers DEF LexerInv, TypeOK
<1>2. /\ DOMAIN tokens' = 1 .. n + 1 /\ strings' = strings + copies
      /\ \A i \in 1 .. n : tokens'[i] = tokens[i]
      /\ tokens'[n + 1] = token
  BY TakeFacts
<1>3. \A i : i \in 1 .. n + 1 <=> i \in 1 .. n \/ i = n + 1
  BY <1>1
<1>4. May' = IF token.type # "EOF" THEN May \cup {n + 1} ELSE May
  <2> HIDE DEF n
  <2> QED
    BY <1>1, <1>2, <1>3
<1>5. Must' = IF token.type \notin {"EOF", "ERROR", "NEWLINE"} THEN Must \cup {n + 1} ELSE Must
  <2> HIDE DEF n
  <2> QED
    BY <1>1, <1>2, <1>3
<1>6. May \subseteq 1 .. n /\ Must \subseteq 1 .. n
  BY <1>1
<1>7. strings <= Cardinality(May) /\ strings >= Cardinality(Must)
  BY DEF LexerInv, StringsHaveTheirToken
<1>8. StringsHaveTheirToken' <=> strings' <= Cardinality(May') /\ strings' >= Cardinality(Must')
  BY DEF StringsHaveTheirToken
<1> HIDE DEF n, May, Must
<1>9. /\ Cardinality(May \cup {n + 1}) = Cardinality(May) + 1 /\ Cardinality(May) \in Nat
      /\ Cardinality(Must \cup {n + 1}) = Cardinality(Must) + 1 /\ Cardinality(Must) \in Nat
  BY <1>1, <1>6, OneMore
<1>10. CASE token.type = "EOF"
  BY <1>1, <1>2, <1>4, <1>5, <1>7, <1>8, <1>9, <1>10
<1>11. CASE token.type \in {"ERROR", "NEWLINE"}
  <2>1. May' = May \cup {n + 1} /\ Must' = Must
    BY <1>4, <1>5, <1>11
  <2> QED
    BY <1>1, <1>2, <1>7, <1>8, <1>9, <2>1
<1>12. CASE token.type \notin {"EOF", "ERROR", "NEWLINE"}
  <2>1. May' = May \cup {n + 1} /\ Must' = Must \cup {n + 1} /\ copies = 1
    BY <1>4, <1>5, <1>12
  <2> QED
    BY <1>1, <1>2, <1>7, <1>8, <1>9, <2>1
<1> QED
  BY <1>10, <1>11, <1>12

\* A step that makes a token keeps the invariant when the token fits and the
\* lexer goes on behind it.
LEMMA TakeKeeps ==
    ASSUME LexerInv, pc \notin {"grow", "done", "null"},
           NEW token \in TokenRecords, NEW copies \in {0, 1}, Take(token, copies),
           token.type = "EOF" => copies = 0,
           token.type \notin {"EOF", "ERROR", "NEWLINE"} => copies = 1,
           token.type # "ERROR" => Fits(token, Reached, AfterBody),
           token.type \notin {"EOF", "ERROR"} =>
              /\ After(token) <= pos' /\ Skipped(After(token), pos')
              /\ read_body_raw_next' <=> token.type = "BODY_STMT",
           Stay \/ (peek # "end" /\ advance), read_body_raw_next' \in BOOLEAN
    PROVE  LexerInv'
<1> PICK n \in Nat : n = Len(tokens)
  BY Numbers
<1>1. n \in Nat /\ DOMAIN tokens = 1 .. n /\ n < capacity /\ capacity \in Nat \ {0}
  BY Numbers DEF LexerInv, RoomInv
<1>2. /\ UNCHANGED <<input, mark, capacity>> /\ UNCHANGED input
      /\ tokens' \in Seq(TokenRecords)
      /\ Len(tokens') = n + 1 /\ DOMAIN tokens' = 1 .. n + 1
      /\ \A i \in 1 .. n : tokens'[i] = tokens[i]
      /\ tokens'[n + 1] = token
      /\ pc' = IF token.type \in {"EOF", "ERROR"} THEN "done" ELSE "grow"
      /\ \A i \in 1 .. n + 1 : Before(i)' = Before(i)
      /\ Reached' = After(token)
      /\ AfterBody' <=> token.type = "BODY_STMT"
      /\ AfterBody <=> n + 1 > 1 /\ tokens[n].type = "BODY_STMT"
  BY TakeFacts
<1>3. StringsHaveTheirToken' /\ strings' \in Nat
  BY TakeStrings
<1>4. RoomInv' /\ Len(tokens') <= capacity'
  BY <1>1, <1>2 DEF RoomInv
<1>5. ModeInv'
  BY <1>2 DEF ModeInv
<1>6. ScanInv'
  <2>1. CASE token.type \in {"EOF", "ERROR"}
    BY <1>2, <2>1 DEF ScanInv
  <2>2. CASE token.type \notin {"EOF", "ERROR"}
    <3>1. Resumes(pos)'
      <4> PICK p, a : p = pos' /\ a = After(token)
        OBVIOUS
      <4>1. Skipped(a, p) /\ a <= p
        BY <2>2
      <4>2. Skipped(a, p)'
        BY <1>2, <4>1, TextStays
      <4> QED
        BY <1>2, <4>1, <4>2 DEF Resumes
    <3> QED
      BY <1>2, <2>2, <3>1 DEF ScanInv
  <2> QED
    BY <2>1, <2>2
<1>7. TokenInv'
  <2>1. ASSUME NEW i \in 1 .. n
        PROVE  /\ tokens[i].type \notin {"EOF", "ERROR"}
               /\ Fits(tokens[i], Before(i), i > 1 /\ tokens[i - 1].type = "BODY_STMT")
    BY <1>1 DEF LexerInv, TokenInv
  <2>2. \A t, from, raw : Fits(t, from, raw)' <=> Fits(t, from, raw)
    BY <1>2, TextStays
  <2>3. ASSUME NEW i \in 1 .. n
        PROVE  Fits(tokens[i], Before(i), i > 1 /\ tokens[i - 1].type = "BODY_STMT")'
    <3>1. i \in 1 .. n + 1 /\ (i > 1 => i - 1 \in 1 .. n)
      BY <1>1
    <3>2. tokens'[i] = tokens[i] /\ Before(i)' = Before(i)
          /\ (i > 1 => tokens'[i - 1] = tokens[i - 1])
      BY <1>2, <3>1
    <3> PICK t, b : t = tokens[i] /\ b = Before(i)
      OBVIOUS
    <3> PICK raw \in BOOLEAN : raw <=> i > 1 /\ tokens[i - 1].type = "BODY_STMT"
      OBVIOUS
    <3>3. Fits(t, b, raw)'
      <4>1. raw = (i > 1 /\ tokens[i - 1].type = "BODY_STMT")
        BY SMT
      <4> QED
        BY <2>1, <2>2, <4>1
    <3>4. t = tokens'[i] /\ b = Before(i)'
      BY <3>2
    <3>5. raw = (i > 1 /\ tokens'[i - 1].type = "BODY_STMT")
      BY <3>2
    <3> QED
      BY <3>3, <3>4, <3>5
  <2>4. ASSUME token.type # "ERROR"
        PROVE  Fits(tokens[n + 1], Before(n + 1),
                    n + 1 > 1 /\ tokens[(n + 1) - 1].type = "BODY_STMT")'
    <3> PICK b : b = Reached
      OBVIOUS
    <3> PICK raw \in BOOLEAN : raw <=> AfterBody
      OBVIOUS
    <3>1. Fits(token, b, raw)'
      <4>1. raw = AfterBody
        BY DEF AfterBody
      <4> QED
        BY <2>2, <2>4, <4>1
    <3>2. n + 1 \in 1 .. n + 1 /\ (n + 1) - 1 = n /\ (n + 1 > 1 => n \in 1 .. n)
      BY <1>1
    <3>3. b = Before(n + 1)'
      BY <1>2, <3>2 DEF Reached
    <3>4. raw = (n + 1 > 1 /\ tokens'[(n + 1) - 1].type = "BODY_STMT")
      BY <1>2, <3>2
    <3> QED
      BY <1>2, <3>1, <3>3, <3>4
  <2>5. ASSUME NEW i \in DOMAIN tokens'
        PROVE  /\ tokens'[i].type \in {"EOF", "ERROR"} => i = Len(tokens') /\ pc' = "done"
               /\ tokens'[i].type # "ERROR" =>
                    Fits(tokens[i], Before(i), i > 1 /\ tokens[i - 1].type = "BODY_STMT")'
    <3>1. CASE i \in 1 .. n
      BY <1>2, <2>1, <2>3, <3>1
    <3>2. CASE i = n + 1
      BY <1>2, <2>4, <3>2
    <3> QED
      BY <1>1, <1>2, <3>1, <3>2
  <2> QED
    BY <2>5 DEF TokenInv
<1>8. /\ pos' \in Position /\ pos' <= Len(input)
      /\ line' \in 1 .. MaxLength + 1 /\ column' \in 1 .. MaxLength + 1
      /\ IsPlace(pos', line', column')
  <2>1. CASE Stay
    BY <2>1 DEF Stay, LexerInv, TypeOK
  <2>2. CASE peek # "end" /\ advance
    BY <2>2, AdvanceMoves, Numbers DEF LexerInv
  <2> QED
    BY <2>1, <2>2
<1>9. IsPlace(pos, line, column)'
  <2> PICK p, l, c : p = pos' /\ l = line' /\ c = column'
    OBVIOUS
  <2>1. IsPlace(p, l, c)'
    BY <1>2, <1>8, TextStays
  <2> QED
    BY <2>1
<1>10. TypeOK'
  BY <1>2, <1>3, <1>4, <1>8 DEF LexerInv, TypeOK, TokenRecords
<1> QED
  BY <1>2, <1>3, <1>4, <1>5, <1>6, <1>7, <1>8, <1>9, <1>10 DEF LexerInv

\* What a token is made of.
LEMMA TokenParts ==
    ASSUME NEW type \in Types, NEW from \in Position, NEW to \in Position, NEW place,
           place.line \in Nat, place.column \in Nat
    PROVE  /\ Token(type, from, to, place) \in TokenRecords
           /\ Token(type, from, to, place).type = type
           /\ Token(type, from, to, place).from = from
           /\ Token(type, from, to, place).to = to
           /\ Token(type, from, to, place).line = place.line
           /\ Token(type, from, to, place).column = place.column
BY DEF Token, TokenRecords

\* A token that begins where one may start fits behind the last one.
LEMMA FitsFrom ==
    ASSUME NEW t, NEW p \in Nat, First(t) = p, Resumes(p), IsPlace(p, t.line, t.column),
           WellFormed(t), AfterBody <=> t.type = "BODY_RAW"
    PROVE  Fits(t, Reached, AfterBody)
BY DEF Fits, Resumes

\* A token with its text, or an error when there is no memory for it.
LEMMA TakeTextKeeps ==
    ASSUME LexerInv, pc \notin {"grow", "done", "null"},
           NEW type \in Types \ {"EOF", "ERROR", "NEWLINE"},
           NEW from \in Position, NEW to \in Position, NEW place,
           place.line \in Nat, place.column \in Nat,
           TakeText(type, from, to, place),
           Fits(Token(type, from, to, place), Reached, AfterBody),
           After(Token(type, from, to, place)) <= pos',
           Skipped(After(Token(type, from, to, place)), pos'),
           tokens' = Append(tokens, Token(type, from, to, place)) =>
              (read_body_raw_next' <=> type = "BODY_STMT"),
           Stay \/ (peek # "end" /\ advance), read_body_raw_next' \in BOOLEAN
    PROVE  LexerInv'
<1>1. CASE Take(Token(type, from, to, place), 1)
  <2>1. read_body_raw_next' <=> type = "BODY_STMT"
    BY <1>1 DEF Take
  <2> DEFINE t == Token(type, from, to, place)
  <2>2. t \in TokenRecords /\ t.type = type
    BY TokenParts
  <2>3. /\ Take(t, 1) /\ 1 \in {0, 1} /\ Fits(t, Reached, AfterBody)
        /\ After(t) <= pos' /\ Skipped(After(t), pos')
    BY <1>1
  <2> HIDE DEF t
  <2> QED
    BY <2>1, <2>2, <2>3, TakeKeeps
<1>2. ASSUME NEW copies \in {0, 1}, Take(Token("ERROR", from, to, place), copies)
      PROVE  LexerInv'
  <2> DEFINE t == Token("ERROR", from, to, place)
  <2>1. t \in TokenRecords /\ t.type = "ERROR"
    BY TokenParts DEF Types
  <2>2. Take(t, copies)
    BY <1>2
  <2> HIDE DEF t
  <2> QED
    BY <2>1, <2>2, TakeKeeps
<1> QED
  BY <1>1, <1>2 DEF TakeText

LEMMA EofKeeps == ASSUME LexerInv, Eof PROVE LexerInv'
<1> DEFINE t == Token("EOF", pos, pos, Here)
<1>1. /\ pc = "next" /\ peek = "end" /\ ~ read_body_raw_next
      /\ Take(t, 0) /\ Stay /\ read_body_raw_next' \in BOOLEAN
  BY DEF Eof, Starts, LexerInv, TypeOK
<1>2. Resumes(pos) /\ ~ AfterBody /\ IsPlace(pos, line, column) /\ pos = Len(input)
  BY <1>1, Numbers DEF LexerInv, ScanInv, ModeInv
<1>3. pos \in Position /\ pos \in Nat /\ Here.line \in Nat /\ Here.column \in Nat
  BY Numbers DEF LexerInv, TypeOK, Here
<1>4. /\ t \in TokenRecords /\ t.type = "EOF" /\ t.from = pos
      /\ t.line = line /\ t.column = column
  BY <1>3, TokenParts DEF Types, Here
<1> HIDE DEF t
<1>5. First(t) = pos
  BY <1>4 DEF First
<1>6. WellFormed(t)
  BY <1>2, <1>4 DEF WellFormed
<1>7. Fits(t, Reached, AfterBody)
  BY <1>2, <1>3, <1>4, <1>5, <1>6, FitsFrom
<1> QED
  BY <1>1, <1>4, <1>7, TakeKeeps

LEMMA NewlineKeeps == ASSUME LexerInv, Newline PROVE LexerInv'
<1> DEFINE t == Token("NEWLINE", pos, pos + 1, Here)
<1>1. /\ pc = "next" /\ peek = "newline" /\ peek # "end" /\ advance
      /\ ~ read_body_raw_next /\ ~ read_body_raw_next' /\ read_body_raw_next' \in BOOLEAN
  BY DEF Newline, Starts, LexerInv, TypeOK
<1>2. PICK copies \in {0, 1} : Take(t, copies)
  BY DEF Newline
<1>3. Resumes(pos) /\ ~ AfterBody /\ IsPlace(pos, line, column)
  BY <1>1 DEF LexerInv, ScanInv, ModeInv
<1>4. /\ pos \in Position /\ pos \in Nat /\ pos' = pos + 1 /\ pos + 1 \in Position
      /\ Here.line \in Nat /\ Here.column \in Nat
  BY <1>1, Numbers, AdvanceMoves DEF LexerInv, TypeOK, Here
<1>5. /\ t \in TokenRecords /\ t.type = "NEWLINE" /\ t.from = pos /\ t.to = pos + 1
      /\ t.line = line /\ t.column = column
  BY <1>4, TokenParts DEF Types, Here
<1> HIDE DEF t
<1>6. First(t) = pos /\ After(t) = pos'
  BY <1>4, <1>5 DEF First, After
<1>7. WellFormed(t)
  <2>1. \A p : p \in t.from .. t.to - 1 <=> p = pos
    BY <1>4, <1>5
  <2>2. Text(t) = {"newline"}
    BY <1>1, <2>1 DEF Text, peek
  <2> QED
    BY <1>5, <2>2 DEF WellFormed
<1>8. Fits(t, Reached, AfterBody)
  BY <1>3, <1>4, <1>5, <1>6, <1>7, FitsFrom
<1>9. After(t) <= pos' /\ Skipped(After(t), pos')
  <2> PICK q \in Int : q = pos'
    BY <1>4
  <2>1. Skipped(q, q) /\ q <= q
    BY SkipsNothing
  <2> QED
    BY <1>6, <2>1
<1> QED
  BY <1>1, <1>2, <1>5, <1>8, <1>9, TakeKeeps

LEMMA UnexpectedKeeps == ASSUME LexerInv, Unexpected PROVE LexerInv'
<1> DEFINE t == Token("ERROR", pos, pos + 1, Here)
<1>1. /\ pc = "next" /\ peek # "end" /\ advance /\ read_body_raw_next' \in BOOLEAN
  BY DEF Unexpected, Starts, LexerInv, TypeOK
<1>2. PICK copies \in {0, 1} : Take(t, copies)
  BY DEF Unexpected
<1>3. /\ pos \in Position /\ pos + 1 \in Position /\ Here.line \in Nat /\ Here.column \in Nat
  BY <1>1, Numbers, AdvanceMoves DEF LexerInv, TypeOK, Here
<1>4. t \in TokenRecords /\ t.type = "ERROR"
  BY <1>3, TokenParts DEF Types
<1> HIDE DEF t
<1> QED
  BY <1>1, <1>2, <1>4, TakeKeeps

LEMMA UnterminatedKeeps == ASSUME LexerInv, Unterminated PROVE LexerInv'
<1> DEFINE t == Token("ERROR", mark.start, pos, mark)
<1>1. pc = "string" /\ Stay /\ read_body_raw_next' \in BOOLEAN
  BY DEF Unterminated, lexer, Stay, LexerInv, TypeOK
<1>2. PICK copies \in {0, 1} : Take(t, copies)
  BY DEF Unterminated
<1>3. /\ pos \in Position /\ mark.start \in Position /\ mark.line \in Nat /\ mark.column \in Nat
  BY DEF LexerInv, TypeOK
<1>4. t \in TokenRecords /\ t.type = "ERROR"
  BY <1>3, TokenParts DEF Types
<1> HIDE DEF t
<1> QED
  BY <1>1, <1>2, <1>4, TakeKeeps

\* What a scan knows of the place it started at.
LEMMA StartedFacts ==
    ASSUME LexerInv, NEW p, Started(p)
    PROVE  /\ p \in Nat /\ p <= pos /\ Resumes(p)
           /\ IsPlace(p, mark.line, mark.column)
BY Numbers DEF Started

LEMMA NumberEndKeeps == ASSUME LexerInv, NumberEnd PROVE LexerInv'
<1> DEFINE t == Token("INT", mark.start, pos, mark)
<1>1. /\ pc = "number" /\ peek # "digit" /\ TakeText("INT", mark.start, pos, mark)
      /\ Stay /\ read_body_raw_next' = read_body_raw_next
  BY DEF NumberEnd, lexer, Stay
<1>2. /\ Started(mark.start) /\ Char(mark.start) = "digit" /\ Scanned({"digit"})
      /\ ~ AfterBody /\ ~ read_body_raw_next
  BY <1>1 DEF LexerInv, ScanInv, ModeInv
<1>3. /\ mark.start \in Nat /\ mark.start <= pos /\ Resumes(mark.start)
      /\ IsPlace(mark.start, mark.line, mark.column)
  BY <1>2, StartedFacts
<1>4. /\ pos \in Position /\ pos \in Nat /\ pos' = pos /\ mark.start \in Position
      /\ mark.line \in Nat /\ mark.column \in Nat
  BY <1>1, Numbers DEF LexerInv, TypeOK, Stay
<1>5. /\ t.type = "INT" /\ t.from = mark.start /\ t.to = pos
      /\ t.line = mark.line /\ t.column = mark.column
  BY DEF Token
<1> HIDE DEF t
<1>6. First(t) = mark.start /\ After(t) = pos'
  BY <1>4, <1>5 DEF First, After
<1>7. WellFormed(t)
  <2>1. mark.start < pos
    <3>1. mark.start # pos
      BY <1>1, <1>2 DEF peek
    <3> QED
      BY <1>3, <1>4, <3>1
  <2>2. Text(t) = {"digit"}
    <3>1. \A p \in t.from .. t.to - 1 : Char(p) = "digit"
      BY <1>2, <1>5 DEF Scanned
    <3>2. mark.start \in t.from .. t.to - 1
      BY <1>3, <1>4, <1>5, <2>1
    <3> QED
      BY <3>1, <3>2 DEF Text
  <2>3. Char(t.to) # "digit"
    BY <1>1, <1>5 DEF peek
  <2> QED
    BY <1>5, <2>2, <2>3 DEF WellFormed
<1>8. Fits(t, Reached, AfterBody)
  BY <1>2, <1>3, <1>5, <1>6, <1>7, FitsFrom
<1>9. After(t) <= pos' /\ Skipped(After(t), pos')
  <2> PICK q \in Int : q = pos'
    BY <1>4
  <2>1. Skipped(q, q) /\ q <= q
    BY SkipsNothing
  <2> QED
    BY <1>6, <2>1
<1>10. read_body_raw_next' <=> "INT" = "BODY_STMT"
  BY <1>1, <1>2
<1>11. "INT" \in Types \ {"EOF", "ERROR", "NEWLINE"} /\ read_body_raw_next' \in BOOLEAN
  BY <1>1 DEF Types, LexerInv, TypeOK
<1> USE DEF t
<1> QED
  BY <1>1, <1>4, <1>8, <1>9, <1>10, <1>11, TakeTextKeeps

LEMMA StringEndKeeps == ASSUME LexerInv, StringEnd PROVE LexerInv'
<1> DEFINE t == Token("STRING", mark.start, pos, mark)
<1>1. /\ pc = "string" /\ peek = "quote" /\ TakeText("STRING", mark.start, pos, mark)
      /\ peek # "end" /\ advance /\ read_body_raw_next' = read_body_raw_next
  BY DEF StringEnd
<1>2. /\ mark.start \in 1 .. pos /\ Started(mark.start - 1)
      /\ Char(mark.start - 1) = "quote" /\ ScannedNo({"quote", "newline"})
      /\ ~ AfterBody /\ ~ read_body_raw_next
  BY <1>1 DEF LexerInv, ScanInv, ModeInv
<1>3. /\ mark.start - 1 \in Nat /\ Resumes(mark.start - 1)
      /\ IsPlace(mark.start - 1, mark.line, mark.column)
  BY <1>2, StartedFacts
<1>4. /\ pos \in Position /\ pos \in Nat /\ pos' = pos + 1 /\ mark.start \in Position
      /\ mark.line \in Nat /\ mark.column \in Nat
  BY <1>1, Numbers, AdvanceMoves DEF LexerInv, TypeOK
<1>5. /\ t.type = "STRING" /\ t.from = mark.start /\ t.to = pos
      /\ t.line = mark.line /\ t.column = mark.column
  BY DEF Token
<1> HIDE DEF t
<1>6. First(t) = mark.start - 1 /\ After(t) = pos'
  BY <1>4, <1>5 DEF First, After
<1>7. WellFormed(t)
  <2>1. Text(t) \cap {"quote", "newline"} = {}
    <3>1. \A p \in t.from .. t.to - 1 : Char(p) \notin {"quote", "newline"}
      BY <1>2, <1>5 DEF ScannedNo
    <3> QED
      BY <3>1 DEF Text
  <2>2. Char(t.from - 1) = "quote" /\ Char(t.to) = "quote"
    BY <1>1, <1>2, <1>5 DEF peek
  <2> QED
    BY <1>5, <2>1, <2>2 DEF WellFormed
<1>8. Fits(t, Reached, AfterBody)
  BY <1>2, <1>3, <1>5, <1>6, <1>7, FitsFrom
<1>9. After(t) <= pos' /\ Skipped(After(t), pos')
  <2> PICK q \in Int : q = pos'
    BY <1>4
  <2>1. Skipped(q, q) /\ q <= q
    BY SkipsNothing
  <2> QED
    BY <1>6, <2>1
<1>10. read_body_raw_next' <=> "STRING" = "BODY_STMT"
  BY <1>1, <1>2
<1>11. "STRING" \in Types \ {"EOF", "ERROR", "NEWLINE"} /\ read_body_raw_next' \in BOOLEAN
  BY <1>1 DEF Types, LexerInv, TypeOK
<1> USE DEF t
<1> QED
  BY <1>1, <1>4, <1>8, <1>9, <1>10, <1>11, TakeTextKeeps

LEMMA RawTokenKeeps == ASSUME LexerInv, RawToken PROVE LexerInv'
<1> DEFINE t == Token("BODY_RAW", mark.start, mark.end, mark)
<1>1. /\ pc = "trim" /\ ~ RawTrailing /\ TakeText("BODY_RAW", mark.start, mark.end, mark)
      /\ Stay /\ read_body_raw_next' = read_body_raw_next
  BY DEF RawToken, lexer, Stay
<1>2. /\ Started(mark.start) /\ Char(mark.start) # "space" /\ ScannedNo({"newline", "cr"})
      /\ mark.end \in mark.start .. pos /\ peek \in {"end", "newline", "cr"}
      /\ \A p \in mark.end .. pos - 1 : Char(p) = "space"
      /\ AfterBody /\ ~ read_body_raw_next
  BY <1>1 DEF LexerInv, ScanInv, ModeInv
<1>3. /\ mark.start \in Nat /\ mark.start <= pos /\ Resumes(mark.start)
      /\ IsPlace(mark.start, mark.line, mark.column)
  BY <1>2, StartedFacts
<1>4. /\ pos \in Nat /\ pos' = pos /\ mark.start \in Position /\ mark.end \in Position
      /\ mark.end \in Nat /\ mark.line \in Nat /\ mark.column \in Nat
      /\ pos <= Len(input) /\ Len(input) \in Nat
  BY <1>1, Numbers DEF LexerInv, TypeOK, Stay
<1>5. /\ t.type = "BODY_RAW" /\ t.from = mark.start /\ t.to = mark.end
      /\ t.line = mark.line /\ t.column = mark.column
  BY <1>4, TokenParts DEF Types
<1> HIDE DEF t
<1>6. First(t) = mark.start /\ After(t) = mark.end
  BY <1>5 DEF First, After
<1>7. WellFormed(t)
  <2>1. Text(t) \cap {"newline", "cr"} = {}
    <3>1. \A p \in t.from .. t.to - 1 : p \in mark.start .. pos - 1
      BY <1>2, <1>3, <1>4, <1>5
    <3>2. \A p \in t.from .. t.to - 1 : Char(p) \notin {"newline", "cr"}
      BY <1>2, <3>1 DEF ScannedNo
    <3> QED
      BY <3>2 DEF Text
  <2>2. t.from < t.to => "space" \notin {Char(t.from), Char(t.to - 1)}
    BY <1>1, <1>2, <1>4, <1>5 DEF RawTrailing
  <2>3. /\ pos \in t.to .. Len(input) /\ Char(pos) \in {"newline", "cr", "end"}
        /\ \A p \in t.to .. pos - 1 : Char(p) = "space"
    BY <1>2, <1>4, <1>5 DEF peek
  <2> QED
    BY <1>5, <2>1, <2>2, <2>3 DEF WellFormed
<1>8. Fits(t, Reached, AfterBody)
  BY <1>2, <1>3, <1>5, <1>6, <1>7, FitsFrom
<1>9. After(t) <= pos' /\ Skipped(After(t), pos')
  <2>1. After(t) <= pos'
    BY <1>2, <1>4, <1>6
  <2>2. \A p \in After(t) .. pos' - 1 : Char(p) \in Blank
    BY <1>2, <1>4, <1>6 DEF Blank
  <2> PICK q, a : q = pos' /\ a = After(t)
    OBVIOUS
  <2>3. Skipped(a, q)
    BY <2>2 DEF Skipped
  <2> QED
    BY <2>1, <2>3
<1>10. read_body_raw_next' <=> "BODY_RAW" = "BODY_STMT"
  BY <1>1, <1>2
<1>11. "BODY_RAW" \in Types \ {"EOF", "ERROR", "NEWLINE"} /\ read_body_raw_next' \in BOOLEAN
  BY <1>1 DEF Types, LexerInv, TypeOK
<1> USE DEF t
<1> QED
  BY <1>1, <1>4, <1>8, <1>9, <1>10, <1>11, TakeTextKeeps

\* A word is the keyword exactly when it is its one letter.
LEMMA KeywordIsBody ==
    ASSUME LexerInv, mark.start < pos
    PROVE  Keyword = IF pos = mark.start + 1 /\ Char(mark.start) = "Body"
                     THEN "BODY_STMT" ELSE "IDENT"
<1> DEFINE word == SubSeq(input, mark.start + 1, pos)
<1>1. /\ input \in Seq(Alphabet) /\ pos \in Nat /\ mark.start \in Nat
      /\ pos <= Len(input) /\ Len(input) \in Nat
  BY Numbers DEF LexerInv, TypeOK
<1>2. /\ mark.start + 1 \in 1 .. Len(input) + 1 /\ pos \in mark.start + 1 - 1 .. Len(input)
      /\ mark.start < Len(input)
  BY <1>1
<1>3. /\ word \in Seq(Alphabet) /\ Len(word) = pos - (mark.start + 1) + 1
      /\ \A i \in 1 .. pos - (mark.start + 1) + 1 : word[i] = input[mark.start + 1 + i - 1]
  BY <1>1, <1>2, SubSeqProperties
<1>4. Len(word) = pos - mark.start /\ 1 \in 1 .. pos - (mark.start + 1) + 1
  BY <1>1, <1>3
<1>5. word[1] = Char(mark.start)
  <2>1. mark.start + 1 + 1 - 1 = mark.start + 1
    BY <1>1
  <2> QED
    BY <1>2, <1>3, <1>4, <2>1 DEF Char
<1>6. word = <<"Body">> <=> pos = mark.start + 1 /\ Char(mark.start) = "Body"
  <2> HIDE DEF word
  <2>1. ASSUME word = <<"Body">> PROVE pos = mark.start + 1 /\ Char(mark.start) = "Body"
    <3>1. Len(word) = 1 /\ word[1] = "Body"
      BY <2>1
    <3> QED
      BY <1>1, <1>4, <1>5, <3>1
  <2>2. ASSUME pos = mark.start + 1, Char(mark.start) = "Body" PROVE word = <<"Body">>
    <3>1. Len(word) = 1 /\ word[1] = "Body"
      BY <1>1, <1>4, <1>5, <2>2
    <3> QED
      BY <1>3, <3>1
  <2> QED
    BY <2>1, <2>2
<1> QED
  BY <1>6 DEF Keyword

LEMMA WordEndKeeps == ASSUME LexerInv, WordEnd PROVE LexerInv'
<1> DEFINE t == Token(Keyword, mark.start, pos, mark)
<1>1. /\ pc = "word" /\ peek \notin IdentChar /\ TakeText(Keyword, mark.start, pos, mark)
      /\ Stay /\ read_body_raw_next' = (Last(tokens').type = "BODY_STMT")
      /\ read_body_raw_next' \in BOOLEAN
  BY DEF WordEnd
<1>2. /\ Started(mark.start) /\ Char(mark.start) \in IdentStart /\ Scanned(IdentChar)
      /\ ~ AfterBody
  BY <1>1 DEF LexerInv, ScanInv, ModeInv
<1>3. /\ mark.start \in Nat /\ mark.start <= pos /\ Resumes(mark.start)
      /\ IsPlace(mark.start, mark.line, mark.column)
  BY <1>2, StartedFacts
<1>4. /\ pos \in Position /\ pos \in Nat /\ pos' = pos /\ mark.start \in Position
      /\ mark.line \in Nat /\ mark.column \in Nat
  BY <1>1, Numbers DEF LexerInv, TypeOK, Stay
<1>5. mark.start < pos
  <2>1. Char(mark.start) \in IdentChar
    BY <1>2 DEF IdentChar
  <2>2. mark.start # pos
    BY <1>1, <2>1 DEF peek
  <2> QED
    BY <1>3, <1>4, <2>2
<1>6. Keyword = IF pos = mark.start + 1 /\ Char(mark.start) = "Body"
                THEN "BODY_STMT" ELSE "IDENT"
  BY <1>5, KeywordIsBody
<1>7. Keyword \in Types \ {"EOF", "ERROR", "NEWLINE"}
  BY <1>6 DEF Types
<1>8. /\ t.type = Keyword /\ t.from = mark.start /\ t.to = pos
      /\ t.line = mark.line /\ t.column = mark.column
  BY DEF Token
<1> HIDE DEF t
<1>9. t.type \in {"BODY_STMT", "IDENT"}
  BY <1>6, <1>8
<1>10. First(t) = mark.start /\ After(t) = pos'
  BY <1>4, <1>8, <1>9 DEF First, After
<1>11. WellFormed(t)
  <2>1. \A p \in t.from .. t.to - 1 : Char(p) \in IdentChar
    BY <1>2, <1>8 DEF Scanned
  <2>2. Text(t) \subseteq IdentChar
    BY <2>1 DEF Text
  <2>3. Char(t.from) \in IdentStart /\ Char(t.to) \notin IdentChar
    BY <1>1, <1>2, <1>8 DEF peek
  <2>4. t.type = "BODY_STMT" <=> Text(t) = {"Body"} /\ t.to = t.from + 1
    <3>1. CASE t.to = t.from + 1
      <4>1. \A p : p \in t.from .. t.to - 1 <=> p = mark.start
        BY <1>3, <1>8, <3>1
      <4>2. Text(t) = {Char(mark.start)}
        BY <4>1 DEF Text
      <4>3. Text(t) = {"Body"} <=> Char(mark.start) = "Body"
        BY <4>2
      <4> QED
        BY <1>6, <1>8, <3>1, <4>3
    <3>2. CASE t.to # t.from + 1
      BY <1>6, <1>8, <3>2
    <3> QED
      BY <3>1, <3>2
  <2> QED
    BY <1>9, <2>2, <2>3, <2>4 DEF WellFormed
<1>12. Fits(t, Reached, AfterBody)
  BY <1>2, <1>3, <1>8, <1>9, <1>10, <1>11, FitsFrom
<1>13. After(t) <= pos' /\ Skipped(After(t), pos')
  <2> PICK q \in Int : q = pos'
    BY <1>4
  <2>1. Skipped(q, q) /\ q <= q
    BY SkipsNothing
  <2> QED
    BY <1>10, <2>1
<1>14. tokens' = Append(tokens, t) => (read_body_raw_next' <=> Keyword = "BODY_STMT")
  <2> SUFFICES ASSUME tokens' = Append(tokens, t)
               PROVE  read_body_raw_next' <=> Keyword = "BODY_STMT"
    OBVIOUS
  <2>1. tokens \in Seq(TokenRecords) /\ t \in TokenRecords
    <3> USE DEF t
    <3> QED
      BY <1>4, <1>7, TokenParts DEF LexerInv, TypeOK, TokenRecords
  <2>2. Len(tokens') = Len(tokens) + 1 /\ tokens'[Len(tokens) + 1] = t
    BY <2>1, AppendProperties
  <2>3. Last(tokens') = t
    BY <2>2 DEF Last
  <2> QED
    BY <1>1, <1>8, <2>3
<1> USE DEF t
<1> QED
  BY <1>1, <1>4, <1>7, <1>12, <1>13, <1>14, TakeTextKeeps

-----------------------------------------------------------------------------
(* dsl_lexer_get_tokens, and all steps together *)

LEMMA GrowKeeps == ASSUME LexerInv, Grow PROVE LexerInv'
<1>1. pc = "grow" /\ UNCHANGED <<input, lexer, mark>>
  BY DEF Grow
<1>2. UNCHANGED <<input, pos, line, column, read_body_raw_next, mark>> /\ UNCHANGED input
  BY <1>1 DEF lexer
<1>3. /\ TypeOK /\ pos <= Len(input) /\ IsPlace(pos, line, column)
      /\ capacity \in Nat \ {0} /\ Len(tokens) \in Nat
  BY Numbers DEF LexerInv, RoomInv
<1>4. pos' <= Len(input') /\ IsPlace(pos, line, column)'
  <2> PICK p, l, c : p = pos /\ l = line /\ c = column
    OBVIOUS
  <2>1. IsPlace(p, l, c)'
    BY <1>2, <1>3, TextStays
  <2> QED
    BY <1>2, <1>3, <2>1
<1>5. CASE UNCHANGED <<tokens, strings>> /\ pc' = "next" /\ Len(tokens) < capacity'
           /\ capacity' \in Nat \ {0} /\ capacity <= capacity'
  <2>1. \A i : Before(i)' = Before(i)
    BY <1>5 DEF Before, After
  <2>2. Reached' = Reached /\ (AfterBody' <=> AfterBody)
    BY <1>5 DEF Reached, Before, After, AfterBody, Last
  <2>3. TokenInv'
    <3>1. \A i \in DOMAIN tokens :
             /\ tokens[i].type \notin {"EOF", "ERROR"}
             /\ Fits(tokens[i], Before(i), i > 1 /\ tokens[i - 1].type = "BODY_STMT")
      BY <1>1 DEF LexerInv, TokenInv
    <3>2. \A t, from, raw : Fits(t, from, raw)' <=> Fits(t, from, raw)
      BY <1>2, TextStays
    <3>3. \A i \in DOMAIN tokens :
             Fits(tokens[i], Before(i), i > 1 /\ tokens[i - 1].type = "BODY_STMT")'
      BY <1>5, <2>1, <3>1, <3>2
    <3> QED
      BY <1>5, <3>1, <3>3 DEF TokenInv
  <2>4. StringsHaveTheirToken'
    BY <1>5 DEF LexerInv, StringsHaveTheirToken
  <2>5. ModeInv'
    BY <1>1, <1>2, <1>5, <2>2 DEF LexerInv, ModeInv
  <2>6. ScanInv'
    <3>1. Resumes(pos)
      BY <1>1 DEF LexerInv, ScanInv
    <3> PICK p, r : p = pos /\ r = Reached
      OBVIOUS
    <3>2. r <= p /\ Skipped(r, p)'
      BY <1>2, <3>1, TextStays DEF Resumes
    <3>3. Resumes(pos)'
      BY <1>2, <2>2, <3>2 DEF Resumes
    <3> QED
      BY <1>5, <3>3 DEF ScanInv
  <2>7. RoomInv'
    BY <1>5 DEF RoomInv
  <2>8. TypeOK'
    BY <1>2, <1>3, <1>5 DEF TypeOK
  <2> QED
    BY <1>4, <2>3, <2>4, <2>5, <2>6, <2>7, <2>8 DEF LexerInv
<1>6. CASE tokens' = <<>> /\ strings' = 0 /\ pc' = "null" /\ UNCHANGED capacity
  <2>1. TokenInv' /\ ModeInv' /\ ScanInv' /\ RoomInv'
    BY <1>3, <1>6 DEF TokenInv, ModeInv, ScanInv, RoomInv
  <2>2. StringsHaveTheirToken'
    <3>1. \A S : {i \in DOMAIN tokens' : tokens'[i].type \notin S} = {}
      BY <1>6
    <3>2. /\ {i \in DOMAIN tokens' : tokens'[i].type # "EOF"} = {}
          /\ {i \in DOMAIN tokens' : tokens'[i].type \notin {"EOF", "ERROR", "NEWLINE"}} = {}
      BY <1>6
    <3>3. Cardinality({}) = 0
      BY FS_EmptySet
    <3> QED
      BY <1>6, <3>2, <3>3 DEF StringsHaveTheirToken
  <2>3. TypeOK'
    BY <1>2, <1>3, <1>6 DEF TypeOK
  <2> QED
    BY <1>4, <2>1, <2>2, <2>3 DEF LexerInv
<1>7. CASE Len(tokens) < capacity /\ pc' = "next" /\ UNCHANGED gathered
  BY <1>3, <1>5, <1>7 DEF gathered
<1>8. CASE Len(tokens) >= capacity /\ capacity' = capacity * 2 /\ pc' = "next"
           /\ UNCHANGED <<tokens, strings>>
  <2>1. Len(tokens) <= capacity
    BY <1>3 DEF TypeOK
  <2>2. Len(tokens) < capacity * 2 /\ capacity * 2 \in Nat \ {0} /\ capacity <= capacity * 2
    BY <1>3, <2>1
  <2> QED
    BY <1>5, <1>8, <2>2
<1> QED
  BY <1>6, <1>7, <1>8 DEF Grow

LEMMA StutterKeeps == ASSUME LexerInv, UNCHANGED vars PROVE LexerInv'
<1>1. /\ UNCHANGED <<input, pos, line, column, read_body_raw_next, pc, mark>>
      /\ UNCHANGED <<tokens, capacity, strings>>
  BY DEF vars, lexer, gathered
<1>2. TypeOK' /\ pos' <= Len(input') /\ RoomInv' /\ StringsHaveTheirToken'
  BY <1>1 DEF LexerInv, TypeOK, RoomInv, StringsHaveTheirToken
<1>3. IsPlace(pos, line, column)'
  BY <1>1 DEF LexerInv, IsPlace, LineOf, Newlines, Char
<1>4. Reached' = Reached /\ (AfterBody' <=> AfterBody) /\ peek' = peek
  BY <1>1 DEF Reached, Before, After, AfterBody, Last, peek, Char
<1>5. ModeInv'
  BY <1>1, <1>4 DEF LexerInv, ModeInv
<1>6. ScanInv'
  <2>1. \A p : Resumes(p)' <=> Resumes(p)
    BY <1>1, <1>4, TextStays DEF Resumes
  <2>2. \A p : Char(p)' = Char(p)
    BY <1>1, TextStays
  <2>3. \A class : (Scanned(class)' <=> Scanned(class)) /\ (ScannedNo(class)' <=> ScannedNo(class))
    BY <1>1, <2>2 DEF Scanned, ScannedNo
  <2>4. \A p : Started(p)' <=> Started(p)
    <3> PICK l, c : l = mark.line /\ c = mark.column
      OBVIOUS
    <3>1. \A p : IsPlace(p, l, c)' <=> IsPlace(p, l, c)
      BY <1>1, TextStays
    <3>2. l = mark'.line /\ c = mark'.column
      BY <1>1
    <3> QED
      BY <1>1, <2>1, <3>1, <3>2 DEF Started
  <2>5. Resumes(pos)' <=> Resumes(pos)
    <3> PICK p : p = pos
      OBVIOUS
    <3>1. Resumes(p)' <=> Resumes(p)
      BY <2>1
    <3> QED
      BY <1>1, <3>1
  <2>6. /\ Started(mark.start)' <=> Started(mark.start)
        /\ Started(mark.start - 1)' <=> Started(mark.start - 1)
        /\ Char(mark.start)' = Char(mark.start)
        /\ Char(mark.start - 1)' = Char(mark.start - 1)
    <3> PICK p, q : p = mark.start /\ q = mark.start - 1
      OBVIOUS
    <3>1. /\ Started(p)' <=> Started(p)
          /\ Started(q)' <=> Started(q)
          /\ Char(p)' = Char(p) /\ Char(q)' = Char(q)
      BY <2>2, <2>4
    <3> QED
      BY <1>1, <3>1
  <2>7. ScanInv
    BY DEF LexerInv
  <2> QED
    BY <1>1, <1>4, <2>2, <2>3, <2>5, <2>6, <2>7 DEF ScanInv
<1>7. TokenInv'
  <2>1. \A i : Before(i)' = Before(i)
    BY <1>1 DEF Before, After
  <2>2. \A t, from, raw : Fits(t, from, raw)' <=> Fits(t, from, raw)
    BY <1>1, TextStays
  <2>3. \A i \in DOMAIN tokens :
           Fits(tokens[i], Before(i), i > 1 /\ tokens[i - 1].type = "BODY_STMT")' <=>
           Fits(tokens[i], Before(i), i > 1 /\ tokens[i - 1].type = "BODY_STMT")
    BY <1>1, <2>1, <2>2
  <2>4. TokenInv
    BY DEF LexerInv
  <2> QED
    BY <1>1, <2>3, <2>4 DEF TokenInv
<1> QED
  BY <1>2, <1>3, <1>5, <1>6, <1>7 DEF LexerInv

LEMMA LexerInit == ASSUME Init PROVE LexerInv
<1>1. /\ pos = 0 /\ line = 1 /\ column = 1 /\ read_body_raw_next = FALSE
      /\ pc \in {"next", "null"}
      /\ mark = [start |-> 0, end |-> 0, line |-> 1, column |-> 1]
      /\ tokens = <<>> /\ capacity = Room /\ strings = 0
  BY DEF Init, FirstArray
<1>2. MaxLength \in Nat /\ Room \in Nat \ {0}
  BY LexerAssumption
<1>3. PICK n \in 0 .. MaxLength : input \in [1 .. n -> Alphabet]
  BY DEF Init
<1>4. n \in Nat /\ input \in Seq(Alphabet) /\ Len(input) = n /\ n <= MaxLength
  <2>1. n \in Nat /\ n <= MaxLength
    BY <1>2
  <2>2. input \in Seq(Alphabet)
    BY <1>3, <2>1, SeqDef
  <2>3. DOMAIN input = 1 .. n /\ DOMAIN input = 1 .. Len(input) /\ Len(input) \in Nat
    BY <1>3, <2>2, LenProperties
  <2> QED
    BY <2>1, <2>2, <2>3
<1>5. TypeOK
  <2>1. mark \in [start : Position, end : Position, line : Nat, column : Nat]
    BY <1>1, <1>2 DEF Position
  <2>2. pos \in Position /\ line \in 1 .. MaxLength + 1 /\ column \in 1 .. MaxLength + 1
    BY <1>1, <1>2 DEF Position
  <2>3. Len(tokens) <= capacity /\ strings \in Nat /\ read_body_raw_next \in BOOLEAN
    <3>1. Len(<<>>) = 0
      BY EmptySeq
    <3>2. read_body_raw_next \in BOOLEAN
      BY <1>1
    <3> QED
      BY <1>1, <1>2, <3>1, <3>2
  <2>4. tokens \in Seq([type : Types, from : Position, to : Position,
                        line : Nat, column : Nat])
    BY <1>1, EmptySeq
  <2> QED
    BY <1>4, <2>1, <2>2, <2>3, <2>4 DEF TypeOK
<1>6. IsPlace(pos, line, column)
  <2>1. Newlines(0) = {}
    BY DEF Newlines
  <2>2. LineOf(0) = 1
    BY <2>1, FS_EmptySet DEF LineOf
  <2>3. \A m \in 1 .. 1 - 1 : FALSE
    OBVIOUS
  <2> QED
    BY <1>1, <2>2, <2>3 DEF IsPlace
<1>7. StringsHaveTheirToken
  <2>1. /\ {i \in DOMAIN tokens : tokens[i].type # "EOF"} = {}
        /\ {i \in DOMAIN tokens : tokens[i].type \notin {"EOF", "ERROR", "NEWLINE"}} = {}
    BY <1>1
  <2> QED
    BY <1>1, <2>1, FS_EmptySet DEF StringsHaveTheirToken
<1>8. RoomInv /\ ModeInv /\ TokenInv
  BY <1>1, <1>2 DEF RoomInv, ModeInv, TokenInv, AfterBody
<1>9. ScanInv
  <2>1. Reached = 0
    BY <1>1 DEF Reached, Before
  <2>2. Resumes(pos)
    BY <1>1, <2>1, SkipsNothing DEF Resumes
  <2> QED
    BY <1>1, <2>2 DEF ScanInv
<1> QED
  BY <1>1, <1>4, <1>5, <1>6, <1>7, <1>8, <1>9 DEF LexerInv

LEMMA LexerNext == ASSUME LexerInv, [Next]_vars PROVE LexerInv'
<1>1. CASE NextToken
  BY <1>1, SkipSpacesKeeps, BodyRawKeeps, EofKeeps, NewlineKeeps, QuoteKeeps, WordKeeps,
     UnexpectedKeeps DEF NextToken
<1>2. CASE Scanner
  BY <1>2, CommentCharKeeps, CommentEndKeeps, NumberCharKeeps, NumberEndKeeps, WordCharKeeps,
     WordEndKeeps, StringCharKeeps, UnterminatedKeeps, StringEndKeeps, RawBlankKeeps,
     RawStartKeeps, RawCharKeeps, RawEndKeeps, RawTrimKeeps, RawTokenKeeps DEF Scanner
<1>3. CASE Grow
  BY <1>3, GrowKeeps
<1>4. CASE Finished
  BY <1>4, StutterKeeps DEF Finished
<1>5. CASE UNCHANGED vars
  BY <1>5, StutterKeeps
<1> QED
  BY <1>1, <1>2, <1>3, <1>4, <1>5 DEF Next

\* In every state the lexer knows where it is, what it scanned since the start
\* of the token, and that the tokens so far are the text so far
\* (dsl_lexer.c:21-361).
THEOREM LexerInvariant == Spec => []LexerInv
<1> QED
  BY LexerInit, LexerNext, PTL DEF Spec

\* The tokens are the text: nothing between them but blanks and comments, each
\* whole and at its line and column, counted from the start of the text
\* (dsl_lexer.c:21-57, 76-225, 252-305).
THEOREM LexerTokensAreTheInput == Spec => []TokensAreTheInput
<1>1. ASSUME LexerInv PROVE TokensAreTheInput
  <2> SUFFICES ASSUME NEW i \in DOMAIN tokens, tokens[i].type # "ERROR"
               PROVE  LET t == tokens[i]
                          raw == i > 1 /\ tokens[i - 1].type = "BODY_STMT"
                      IN /\ Before(i) <= First(t) /\ Skipped(Before(i), First(t))
                         /\ t.line = LineOf(First(t)) /\ t.column = ColumnOf(First(t))
                         /\ WellFormed(t)
                         /\ raw <=> t.type = "BODY_RAW"
                         /\ t.type = "EOF" => i = Len(tokens)
    BY DEF TokensAreTheInput
  <2> DEFINE t == tokens[i]
             raw == i > 1 /\ tokens[i - 1].type = "BODY_STMT"
  <2>1. Fits(t, Before(i), raw) /\ (t.type = "EOF" => i = Len(tokens))
    BY <1>1 DEF LexerInv, TokenInv
  <2>2. t.type \in Types /\ t.from \in Position /\ MaxLength \in Nat
    BY <1>1, Numbers
  <2> HIDE DEF t, raw
  <2>3. /\ First(t) \in Nat /\ Before(i) <= First(t) /\ Skipped(Before(i), First(t))
        /\ IsPlace(First(t), t.line, t.column) /\ WellFormed(t)
        /\ raw <=> t.type = "BODY_RAW"
    BY <2>1 DEF Fits
  <2>4. First(t) \in 0 .. MaxLength
    BY <2>2, <2>3 DEF First, Position
  <2>5. t.line = LineOf(First(t)) /\ t.column = ColumnOf(First(t))
    BY <2>2, <2>3, <2>4, PlaceIsCounted
  <2> QED
    BY <2>1, <2>3, <2>5 DEF t, raw
<1> QED
  BY <1>1, LexerInvariant, PTL

\* No string is lost and none is counted that no token has, also when the array
\* cannot grow (dsl_lexer.c:307-361).
THEOREM LexerStringsHaveTheirToken == Spec => []StringsHaveTheirToken
<1>1. LexerInv => StringsHaveTheirToken
  BY DEF LexerInv
<1> QED
  BY <1>1, LexerInvariant, PTL

-----------------------------------------------------------------------------
(* What the parser takes for granted of its lexer *)

\* NextTokens is right about the lexer: the raw rest of a line follows BODY and
\* nothing else, and nothing follows the end of the file or an error
\* (dsl_lexer.c:265-305, 317-336, dsl_parser.c:106).
THEOREM LexerReturnsWhatTheParserReads ==
    Spec => [](\A i \in DOMAIN tokens :
                  /\ MayFollow(tokens[i].type, i > 1 /\ tokens[i - 1].type = "BODY_STMT")
                  /\ tokens[i].type \in {"EOF", "ERROR"} => i = Len(tokens))
<1>1. ASSUME LexerInv, NEW i \in DOMAIN tokens
      PROVE  /\ MayFollow(tokens[i].type, i > 1 /\ tokens[i - 1].type = "BODY_STMT")
             /\ tokens[i].type \in {"EOF", "ERROR"} => i = Len(tokens)
  <2>1. /\ tokens[i].type \in {"EOF", "ERROR"} => i = Len(tokens)
        /\ tokens[i].type # "ERROR" =>
              ((i > 1 /\ tokens[i - 1].type = "BODY_STMT") <=> tokens[i].type = "BODY_RAW")
    BY <1>1 DEF LexerInv, TokenInv, Fits
  <2> QED
    BY <2>1 DEF MayFollow
<1>2. LexerInv => \A i \in DOMAIN tokens :
         /\ MayFollow(tokens[i].type, i > 1 /\ tokens[i - 1].type = "BODY_STMT")
         /\ tokens[i].type \in {"EOF", "ERROR"} => i = Len(tokens)
  BY <1>1
<1> QED
  BY <1>2, LexerInvariant, PTL

-----------------------------------------------------------------------------
(* The language, token by token *)

Ends == {"NEWLINE", "EOF"}

LineTree(s, i, n) ==
    \/ s[i] \in Ends
    \/ /\ s[i] \in Methods
       /\ i + 1 <= n => s[i + 1] = "IDENT"
       /\ i + 2 <= n => s[i + 2] \in Ends
    \/ /\ s[i] = "BODY_STMT"
       /\ i + 1 <= n => s[i + 1] = "BODY_RAW"
       /\ i + 2 <= n => s[i + 2] \in Ends
    \/ /\ s[i] = "EXPECT"
       /\ i + 1 <= n => s[i + 1] \in AssertionKinds
       /\ i + 1 <= n /\ s[i + 1] = "STATUS" =>
             /\ i + 2 <= n => s[i + 2] = "INT"
             /\ i + 3 <= n => s[i + 3] \in Ends
       /\ i + 1 <= n /\ s[i + 1] = "BODY" =>
             /\ i + 2 <= n => s[i + 2] = "CONTAINS"
             /\ i + 3 <= n => s[i + 3] = "STRING"
             /\ i + 4 <= n => s[i + 4] \in Ends
       /\ i + 1 <= n /\ s[i + 1] = "HEADER" =>
             /\ i + 2 <= n => s[i + 2] = "IDENT"
             /\ i + 3 <= n => s[i + 3] \in {"IDENT", "STRING", "INT"}
             /\ i + 4 <= n => s[i + 4] \in Ends

\* What it is for the tokens from i to n to begin a line, by the line's length.
LEMMA LineLengths ==
    ASSUME NEW s, NEW i \in Nat, NEW n \in Int, NEW a, NEW b, NEW c, NEW d
    PROVE  /\ IsLine(s, i, n, <<>>) <=> (i <= n => s[i] \in Ends)
           /\ IsLine(s, i, n, <<a, b>>) <=>
                 /\ i <= n => s[i] = a
                 /\ i + 1 <= n => s[i + 1] = b
                 /\ i + 2 <= n => s[i + 2] \in Ends
           /\ IsLine(s, i, n, <<a, b, c>>) <=>
                 /\ i <= n => s[i] = a
                 /\ i + 1 <= n => s[i + 1] = b
                 /\ i + 2 <= n => s[i + 2] = c
                 /\ i + 3 <= n => s[i + 3] \in Ends
           /\ IsLine(s, i, n, <<a, b, c, d>>) <=>
                 /\ i <= n => s[i] = a
                 /\ i + 1 <= n => s[i + 1] = b
                 /\ i + 2 <= n => s[i + 2] = c
                 /\ i + 3 <= n => s[i + 3] = d
                 /\ i + 4 <= n => s[i + 4] \in Ends
<1>1. IsLine(s, i, n, <<>>) <=> (i <= n => s[i] \in Ends)
  BY DEF IsLine, Ends
<1>2. IsLine(s, i, n, <<a, b>>) <=>
                 /\ i <= n => s[i] = a
                 /\ i + 1 <= n => s[i + 1] = b
                 /\ i + 2 <= n => s[i + 2] \in Ends
  BY DEF IsLine, Ends
<1>3. IsLine(s, i, n, <<a, b, c>>) <=>
                 /\ i <= n => s[i] = a
                 /\ i + 1 <= n => s[i + 1] = b
                 /\ i + 2 <= n => s[i + 2] = c
                 /\ i + 3 <= n => s[i + 3] \in Ends
  BY DEF IsLine, Ends
<1>4. IsLine(s, i, n, <<a, b, c, d>>) <=>
                 /\ i <= n => s[i] = a
                 /\ i + 1 <= n => s[i + 1] = b
                 /\ i + 2 <= n => s[i + 2] = c
                 /\ i + 3 <= n => s[i + 3] = d
                 /\ i + 4 <= n => s[i + 4] \in Ends
  BY DEF IsLine, Ends
<1> QED
  BY <1>1, <1>2, <1>3, <1>4

\* The lines of the grammar as a tree of tokens (dsl_parser.c:126-412).
LEMMA LineTokens ==
    ASSUME NEW s, NEW i \in Nat, NEW n \in Int, i <= n
    PROVE  (\E l \in Lines : IsLine(s, i, n, l)) <=> LineTree(s, i, n)
<1>1. ASSUME NEW l \in Lines, IsLine(s, i, n, l) PROVE LineTree(s, i, n)
  <2>1. CASE l = <<>>
    BY <1>1, <2>1, LineLengths DEF LineTree
  <2>2. CASE l \in RequestLines
    <3>1. PICK m \in Methods : l = <<m, "IDENT">>
      BY <2>2 DEF RequestLines
    <3> QED
      BY <1>1, <3>1, LineLengths DEF LineTree
  <2>3. CASE l = <<"BODY_STMT", "BODY_RAW">>
    BY <1>1, <2>3, LineLengths DEF LineTree
  <2>4. CASE l = <<"EXPECT", "STATUS", "INT">>
    <3>1. IsLine(s, i, n, <<"EXPECT", "STATUS", "INT">>)
      BY <1>1, <2>4
    <3>2. /\ i <= n => s[i] = "EXPECT"
          /\ i + 1 <= n => s[i + 1] = "STATUS"
          /\ i + 2 <= n => s[i + 2] = "INT"
          /\ i + 3 <= n => s[i + 3] \in Ends
      BY <3>1, LineLengths
    <3> QED
      BY <3>2 DEF LineTree, AssertionKinds
  <2>5. CASE l = <<"EXPECT", "BODY", "CONTAINS", "STRING">>
    <3>1. IsLine(s, i, n, <<"EXPECT", "BODY", "CONTAINS", "STRING">>)
      BY <1>1, <2>5
    <3>2. /\ i <= n => s[i] = "EXPECT"
          /\ i + 1 <= n => s[i + 1] = "BODY"
          /\ i + 2 <= n => s[i + 2] = "CONTAINS"
          /\ i + 3 <= n => s[i + 3] = "STRING"
          /\ i + 4 <= n => s[i + 4] \in Ends
      BY <3>1, LineLengths
    <3> QED
      BY <3>2 DEF LineTree, AssertionKinds
  <2>6. ASSUME NEW v \in {"IDENT", "STRING", "INT"}, l = <<"EXPECT", "HEADER", "IDENT", v>>
        PROVE  LineTree(s, i, n)
    <3>1. IsLine(s, i, n, <<"EXPECT", "HEADER", "IDENT", v>>)
      BY <1>1, <2>6
    <3>2. /\ i <= n => s[i] = "EXPECT"
          /\ i + 1 <= n => s[i + 1] = "HEADER"
          /\ i + 2 <= n => s[i + 2] = "IDENT"
          /\ i + 3 <= n => s[i + 3] = v
          /\ i + 4 <= n => s[i + 4] \in Ends
      BY <3>1, LineLengths
    <3> QED
      BY <2>6, <3>2 DEF LineTree, AssertionKinds
  <2> QED
    BY <1>1, <2>1, <2>2, <2>3, <2>4, <2>5, <2>6 DEF Lines, ExpectLines
<1>2. ASSUME LineTree(s, i, n) PROVE \E l \in Lines : IsLine(s, i, n, l)
  <2>1. CASE s[i] \in Ends
    <3>1. IsLine(s, i, n, <<>>)
      BY <2>1, LineLengths
    <3> QED
      BY <3>1 DEF Lines
  <2>2. CASE s[i] \in Methods /\ ~ s[i] \in Ends
    <3>1. PICK m \in Methods : s[i] = m
      BY <2>2
    <3>2. /\ i + 1 <= n => s[i + 1] = "IDENT"
          /\ i + 2 <= n => s[i + 2] \in Ends
      BY <1>2, <2>2, ParserAssumption DEF LineTree, OtherTokens
    <3>3. IsLine(s, i, n, <<m, "IDENT">>)
      BY <3>1, <3>2, LineLengths
    <3> QED
      BY <3>3 DEF Lines, RequestLines
  <2>3. CASE s[i] = "BODY_STMT"
    <3>1. IsLine(s, i, n, <<"BODY_STMT", "BODY_RAW">>)
      BY <1>2, <2>3, LineLengths, ParserAssumption DEF LineTree, OtherTokens, Ends
    <3> QED
      BY <3>1 DEF Lines
  <2>4. CASE s[i] = "EXPECT" /\ (i + 1 <= n => s[i + 1] = "STATUS")
    <3>1. /\ i + 2 <= n => s[i + 2] = "INT"
          /\ i + 3 <= n => s[i + 3] \in Ends
      BY <1>2, <2>4, ParserAssumption DEF LineTree, OtherTokens, Ends
    <3>2. IsLine(s, i, n, <<"EXPECT", "STATUS", "INT">>)
      BY <2>4, <3>1, LineLengths
    <3> QED
      BY <3>2 DEF Lines, ExpectLines
  <2>5. CASE s[i] = "EXPECT" /\ i + 1 <= n /\ s[i + 1] = "BODY"
    <3>1. IsLine(s, i, n, <<"EXPECT", "BODY", "CONTAINS", "STRING">>)
      BY <1>2, <2>5, LineLengths, ParserAssumption DEF LineTree, OtherTokens, Ends
    <3> QED
      BY <3>1 DEF Lines, ExpectLines
  <2>6. CASE s[i] = "EXPECT" /\ i + 1 <= n /\ s[i + 1] = "HEADER"
    <3>1. PICK v \in {"IDENT", "STRING", "INT"} : i + 3 <= n => s[i + 3] = v
      BY <1>2, <2>6, ParserAssumption DEF LineTree, OtherTokens, Ends
    <3>2. IsLine(s, i, n, <<"EXPECT", "HEADER", "IDENT", v>>)
      BY <1>2, <2>6, <3>1, LineLengths, ParserAssumption DEF LineTree, OtherTokens, Ends
    <3> QED
      BY <3>2 DEF Lines, ExpectLines
  <2> QED
    BY <1>2, <2>1, <2>2, <2>3, <2>4, <2>5, <2>6, ParserAssumption
    DEF LineTree, OtherTokens, Ends, AssertionKinds
<1> QED
  BY <1>1, <1>2

\* A line that has its end keeps it.
LEMMA LineStays ==
    ASSUME NEW s, NEW i \in Nat, NEW m \in Int, NEW j \in i .. m,
           LineTree(s, i, m), s[j] \in Ends,
           NEW n \in Int
    PROVE  LineTree(s, i, n)
BY ParserAssumption DEF LineTree, OtherTokens, Ends, AssertionKinds

\* Only the line that the next token is in decides whether it may follow.
LEMMA NextTokenViable ==
    ASSUME NEW s, NEW n \in Nat \ {0}, Viable(s, n - 1), n > 1 => s[n - 1] # "EOF",
           NEW b \in 1 .. n, Begins(s, b), \A i \in b .. n - 1 : s[i] # "NEWLINE"
    PROVE  Viable(s, n) <=>
              /\ LineTree(s, b, n)
              /\ s[n] \in {"BODY_STMT", "EXPECT"} => \E j \in 1 .. n - 1 : s[j] \in Methods
<1>1. \A i \in 1 .. n : LineTree(s, i, n) <=> \E l \in Lines : IsLine(s, i, n, l)
  BY LineTokens
<1>2. \A i \in 1 .. n - 1 : LineTree(s, i, n - 1) <=> \E l \in Lines : IsLine(s, i, n - 1, l)
  BY LineTokens
<1>3. ASSUME NEW i \in 1 .. n, Begins(s, i), i # b PROVE LineTree(s, i, n)
  <2>1. i < b /\ b - 1 \in i .. n - 1 /\ s[b - 1] \in Ends
    BY <1>3 DEF Begins, Ends
  <2>2. LineTree(s, i, n - 1)
    BY <1>2, <1>3, <2>1 DEF Viable
  <2> QED
    BY <2>1, <2>2, LineStays
<1>4. \A i \in 1 .. n - 1 : s[i] # "EOF"
  BY DEF Viable
<1>5. \A i \in 1 .. n - 1 : s[i] \in {"BODY_STMT", "EXPECT"} =>
                             \E j \in 1 .. i - 1 : s[j] \in Methods
  BY DEF Viable
<1>6. (\A i \in 1 .. n : Begins(s, i) => \E l \in Lines : IsLine(s, i, n, l))
         <=> LineTree(s, b, n)
  BY <1>1, <1>3
<1> QED
  BY <1>4, <1>5, <1>6 DEF Viable

\* Viable is about the tokens 1 .. n only.
LEMMA ViableStays ==
    ASSUME NEW s, NEW u, NEW n \in Int, \A i \in 1 .. n : u[i] = s[i], Viable(s, n)
    PROVE  Viable(u, n)
<1>1. \A i \in 1 .. n : Begins(u, i) <=> Begins(s, i)
  BY DEF Begins
<1>2. ASSUME NEW i \in 1 .. n, NEW l \in Lines, IsLine(s, i, n, l) PROVE IsLine(u, i, n, l)
  <2>1. DOMAIN l = 1 .. Len(l) /\ Len(l) \in Nat
    <3>1. CASE l \in RequestLines
      BY <3>1 DEF RequestLines
    <3>2. CASE l \in ExpectLines
      BY <3>2 DEF ExpectLines
    <3>3. CASE l = <<"BODY_STMT", "BODY_RAW">>
      BY <3>3
    <3>4. CASE l = <<>>
      BY <3>4
    <3> QED
      BY <3>1, <3>2, <3>3, <3>4 DEF Lines
  <2> QED
    BY <1>2, <2>1 DEF IsLine
<1> QED
  BY <1>1, <1>2 DEF Viable

-----------------------------------------------------------------------------
(* What the cases mean *)

Keywords == Methods \cup {"BODY_STMT", "EXPECT"}

\* The types of a case of a plan.
LEMMA CaseTypes ==
    ASSUME NEW cases \in Seq(Cases), NEW k \in DOMAIN cases
    PROVE  /\ cases[k].method \in Methods /\ cases[k].url \in Nat /\ cases[k].body \in Nat
           /\ cases[k].assertions \in Seq(Assertions)
           /\ \A j \in DOMAIN cases[k].assertions :
                 /\ cases[k].assertions[j] \in Assertions
                 /\ cases[k].assertions[j].kind \in Kinds
                 /\ cases[k].assertions[j].key \in Nat
                 /\ cases[k].assertions[j].value \in Nat
<1>1. cases[k] \in Cases
  OBVIOUS
<1>2. cases[k].assertions \in Seq(Assertions)
  BY <1>1 DEF Cases
<1>3. \A j \in DOMAIN cases[k].assertions : cases[k].assertions[j] \in Assertions
  BY <1>2, ElementOfSeq, LenProperties
<1> QED
  BY <1>1, <1>2, <1>3 DEF Cases, Assertions

\* Said is about the tokens 1 .. n only.
LEMMA SaidStays ==
    ASSUME NEW cases, NEW s, NEW u, NEW n \in Int, \A i \in 1 .. n : u[i] = s[i],
           NEW k, NEW keyword
    PROVE  Said(cases, u, n, k, keyword) = Said(cases, s, n, k, keyword)
BY DEF Said

\* What the tokens 1 .. n mean, they mean in every longer source.
LEMMA MeansStays ==
    ASSUME NEW cases, NEW s, NEW u, NEW n \in Int, \A i \in 1 .. n + 1 : u[i] = s[i],
           Means(cases, s, n)
    PROVE  Means(cases, u, n)
<1>1. \A k, keyword : Said(cases, u, n, k, keyword) = Said(cases, s, n, k, keyword)
  BY SaidStays
<1>2. \A k, keyword : Said(cases, s, n, k, keyword) \subseteq 1 .. n
  BY DEF Said
<1>3. \A i \in 1 .. n : AssertionOf(u, i) = AssertionOf(s, i)
  BY DEF AssertionOf
<1>4. ASSUME NEW k \in DOMAIN cases PROVE CaseMeans(cases, u, n, k)
  <2>1. CaseMeans(cases, s, n, k)
    BY DEF Means
  <2>2. cases[k].url \in 2 .. n /\ u[cases[k].url - 1] = s[cases[k].url - 1]
    BY <2>1 DEF CaseMeans
  <2> QED
    BY <1>1, <1>2, <1>3, <2>1, <2>2 DEF CaseMeans
<1> QED
  BY <1>4 DEF Means

\* Tokens that start no statement change no meaning.
LEMMA MeansSkips ==
    ASSUME NEW cases \in Seq(Cases), NEW s, NEW n \in Nat, NEW m \in Nat, n <= m,
           \A i \in n + 1 .. m : s[i] \notin Keywords,
           Means(cases, s, n)
    PROVE  Means(cases, s, m)
<1>1. \A k, keyword : keyword \in {"BODY_STMT", "EXPECT"} =>
         Said(cases, s, m, k, keyword) = Said(cases, s, n, k, keyword)
  BY DEF Said, Keywords
<1>2. ASSUME NEW k \in DOMAIN cases PROVE CaseMeans(cases, s, m, k)
  <2>1. CaseMeans(cases, s, n, k)
    BY DEF Means
  <2>2. \A j \in DOMAIN cases[k].assertions : cases[k].assertions[j].value \in Nat
    BY CaseTypes
  <2> QED
    BY <1>1, <2>1, <2>2 DEF CaseMeans
<1>3. \A i \in 1 .. m : s[i] \in Methods => i \in 1 .. n
  BY DEF Keywords
<1> QED
  BY <1>2, <1>3 DEF Means

\* A case of which nothing is said and that says nothing is a request line's.
LEMMA NewCase ==
    ASSUME NEW cases, NEW s, NEW n, NEW k,
           cases[k].url \in 2 .. n, cases[k].method = s[cases[k].url - 1],
           \A m \in 1 .. k - 1 : cases[m].url < cases[k].url,
           cases[k].body = 0, cases[k].assertions = <<>>,
           \A keyword \in {"BODY_STMT", "EXPECT"} : Said(cases, s, n, k, keyword) = {}
    PROVE  CaseMeans(cases, s, n, k)
BY DEF CaseMeans

\* A request line: one case more, and what was said was said of earlier ones.
LEMMA MeansRequest ==
    ASSUME NEW cases \in Seq(Cases), NEW s, NEW b \in Nat \ {0}, Means(cases, s, b - 1),
           s[b] \in Methods, s[b + 1] \notin Keywords
    PROVE  Means(Append(cases, [method |-> s[b], url |-> b + 1, body |-> 0,
                                assertions |-> <<>>]), s, b + 1)
<1> DEFINE new == [method |-> s[b], url |-> b + 1, body |-> 0, assertions |-> <<>>]
           all == Append(cases, new)
           last == Len(cases) + 1
<1>1. /\ DOMAIN cases = 1 .. Len(cases) /\ Len(cases) \in Nat
      /\ DOMAIN all = 1 .. last /\ all[last] = new
      /\ \A k \in DOMAIN cases : all[k] = cases[k]
  OBVIOUS
<1>2. new.url = b + 1 /\ new.method = s[b] /\ new.body = 0 /\ new.assertions = <<>>
  OBVIOUS
<1> HIDE DEF new, all
<1>3. \A k \in DOMAIN cases : cases[k].url \in 2 .. b - 1
  BY DEF Means, CaseMeans
<1>4. \A i \in 1 .. b + 1 : s[i] \in {"BODY_STMT", "EXPECT"} => i \in 1 .. b - 1
  BY ParserAssumption DEF Keywords, OtherTokens
<1>5. ASSUME NEW k \in DOMAIN cases, NEW keyword \in {"BODY_STMT", "EXPECT"}
      PROVE  Said(all, s, b + 1, k, keyword) = Said(cases, s, b - 1, k, keyword)
  <2>1. ASSUME NEW i \in 1 .. b - 1
        PROVE  (\A m \in DOMAIN all : all[m].url < i <=> m <= k)
                  <=> (\A m \in DOMAIN cases : cases[m].url < i <=> m <= k)
    BY <1>1, <1>2
  <2> QED
    BY <1>4, <2>1 DEF Said
<1>6. ASSUME NEW keyword \in {"BODY_STMT", "EXPECT"}
      PROVE  Said(all, s, b + 1, last, keyword) = {}
  BY <1>1, <1>2, <1>4 DEF Said
<1>7. ASSUME NEW k \in DOMAIN cases PROVE CaseMeans(all, s, b + 1, k)
  <2>1. CaseMeans(cases, s, b - 1, k)
    BY DEF Means
  <2>2. \A j \in DOMAIN cases[k].assertions : cases[k].assertions[j].value \in Nat
    BY CaseTypes
  <2>3. \A m \in 1 .. k - 1 : m \in DOMAIN cases /\ all[m] = cases[m]
    BY <1>1
  <2>4. all[k] = cases[k]
    BY <1>1
  <2> QED
    BY <1>5, <2>1, <2>2, <2>3, <2>4 DEF CaseMeans
<1>8. CaseMeans(all, s, b + 1, last)
  <2>1. \A m \in 1 .. last - 1 : all[m].url < all[last].url
    BY <1>1, <1>2, <1>3
  <2>2. all[last].url \in 2 .. b + 1 /\ all[last].method = s[all[last].url - 1]
    BY <1>1, <1>2
  <2>3. all[last].body = 0 /\ all[last].assertions = <<>>
    BY <1>1, <1>2
  <2> QED
    BY <1>6, <2>1, <2>2, <2>3, NewCase
<1>9. ASSUME NEW i \in 1 .. b + 1, s[i] \in Methods PROVE \E k \in DOMAIN all : all[k].url = i + 1
  <2>1. CASE i = b
    BY <1>1, <1>2, <2>1
  <2>2. CASE i \in 1 .. b - 1
    <3>1. PICK k \in DOMAIN cases : cases[k].url = i + 1
      BY <1>9, <2>2 DEF Means
    <3> QED
      BY <1>1, <3>1
  <2> QED
    BY <1>9, <2>1, <2>2 DEF Keywords
<1>10. \A k \in DOMAIN all : k \in DOMAIN cases \/ k = last
  BY <1>1
<1>11. Means(all, s, b + 1)
  BY <1>7, <1>8, <1>9, <1>10 DEF Means
<1> QED
  BY <1>11 DEF all, new

\* Of a token behind all requests only the last case is told.
LEMMA SaidLast ==
    ASSUME NEW cases \in Seq(Cases), cases # <<>>, NEW s, NEW b \in Nat \ {0}, NEW n \in Nat,
           b <= n, \A i \in b + 1 .. n : s[i] \notin Keywords,
           Means(cases, s, b - 1), NEW keyword \in {"BODY_STMT", "EXPECT"}
    PROVE  /\ \A k \in DOMAIN cases : k # Len(cases) =>
                 Said(cases, s, n, k, keyword) = Said(cases, s, b - 1, k, keyword)
           /\ s[b] = keyword => Said(cases, s, n, Len(cases), keyword)
                                   = Said(cases, s, b - 1, Len(cases), keyword) \cup {b}
           /\ s[b] # keyword => Said(cases, s, n, Len(cases), keyword)
                                   = Said(cases, s, b - 1, Len(cases), keyword)
<1>1. DOMAIN cases = 1 .. Len(cases) /\ Len(cases) \in Nat \ {0}
  OBVIOUS
<1>2. \A k \in DOMAIN cases : cases[k].url \in 2 .. b - 1
  BY DEF Means, CaseMeans
<1>3. \A i \in 1 .. n : s[i] = keyword => i \in 1 .. b
  BY DEF Keywords
<1> QED
  BY <1>1, <1>2, <1>3 DEF Said

\* A BODY line replaces the body of the last case (dsl_parser.c:301-311).
LEMMA MeansBody ==
    ASSUME NEW cases \in Seq(Cases), cases # <<>>, NEW s, NEW b \in Nat \ {0},
           Means(cases, s, b - 1), s[b] = "BODY_STMT", s[b + 1] \notin Keywords
    PROVE  Means([cases EXCEPT ![Len(cases)].body = b + 1], s, b + 1)
<1> DEFINE all == [cases EXCEPT ![Len(cases)].body = b + 1]
           last == Len(cases)
<1>1. /\ DOMAIN cases = 1 .. last /\ last \in Nat \ {0} /\ DOMAIN all = DOMAIN cases
      /\ \A k \in DOMAIN cases : k # last => all[k] = cases[k]
  OBVIOUS
<1>2. /\ all[last].url = cases[last].url /\ all[last].method = cases[last].method
      /\ all[last].body = b + 1 /\ all[last].assertions = cases[last].assertions
  <2>1. last \in DOMAIN cases
    BY <1>1
  <2>2. cases[last] \in Cases
    BY <2>1
  <2>3. all[last] = [cases[last] EXCEPT !.body = b + 1]
    BY <2>1
  <2> QED
    BY <2>2, <2>3 DEF Cases
<1> HIDE DEF all
<1>3. \A k \in DOMAIN cases : all[k].url = cases[k].url
  BY <1>1, <1>2
<1>4. \A k, keyword : Said(all, s, b + 1, k, keyword) = Said(cases, s, b + 1, k, keyword)
  BY <1>1, <1>3 DEF Said
<1>5. \A i \in b + 1 .. b + 1 : s[i] \notin Keywords
  OBVIOUS
<1>6. ASSUME NEW k \in DOMAIN cases, k # last PROVE CaseMeans(all, s, b + 1, k)
  <2>1. CaseMeans(cases, s, b - 1, k)
    BY DEF Means
  <2>2. /\ Said(cases, s, b + 1, k, "BODY_STMT") = Said(cases, s, b - 1, k, "BODY_STMT")
        /\ Said(cases, s, b + 1, k, "EXPECT") = Said(cases, s, b - 1, k, "EXPECT")
    <3>1. b + 1 \in Nat /\ b <= b + 1
      OBVIOUS
    <3>2. ASSUME NEW keyword \in {"BODY_STMT", "EXPECT"}
          PROVE  \A q \in DOMAIN cases : q # Len(cases) =>
                    Said(cases, s, b + 1, q, keyword) = Said(cases, s, b - 1, q, keyword)
      BY <1>5, <3>1, SaidLast
    <3> QED
      BY <1>6, <3>2
  <2>3. \A j \in DOMAIN cases[k].assertions : cases[k].assertions[j].value \in Nat
    BY CaseTypes
  <2>4. all[k] = cases[k]
    BY <1>1, <1>6
  <2>5. \A m \in 1 .. k - 1 : m \in DOMAIN cases
    BY <1>1
  <2> QED
    BY <1>3, <1>4, <2>1, <2>2, <2>3, <2>4, <2>5 DEF CaseMeans
<1>7. CaseMeans(all, s, b + 1, last)
  <2>1. last \in DOMAIN cases
    BY <1>1
  <2>2. CaseMeans(cases, s, b - 1, last)
    BY <2>1 DEF Means
  <2>3. /\ Said(cases, s, b + 1, last, "BODY_STMT")
              = Said(cases, s, b - 1, last, "BODY_STMT") \cup {b}
        /\ Said(cases, s, b + 1, last, "EXPECT") = Said(cases, s, b - 1, last, "EXPECT")
    BY <1>5, SaidLast
  <2>4. \A j \in DOMAIN cases[last].assertions : cases[last].assertions[j].value \in Nat
    BY <2>1, CaseTypes
  <2>5. \A m \in 1 .. last - 1 : m \in DOMAIN cases
    BY <1>1
  <2>6. \A i \in Said(cases, s, b - 1, last, "BODY_STMT") : i \in 1 .. b - 1
    BY DEF Said
  <2>7. \A i \in Said(all, s, b + 1, last, "BODY_STMT") : i < all[last].body
    BY <1>2, <1>4, <2>3, <2>6
  <2>8. all[last].body \in 2 .. b + 1
        /\ all[last].body - 1 \in Said(all, s, b + 1, last, "BODY_STMT")
    BY <1>2, <1>4, <2>3
  <2> QED
    BY <1>2, <1>3, <1>4, <2>1, <2>2, <2>3, <2>4, <2>5, <2>7, <2>8 DEF CaseMeans
<1>8. ASSUME NEW i \in 1 .. b + 1, s[i] \in Methods PROVE \E k \in DOMAIN all : all[k].url = i + 1
  <2>1. i \in 1 .. b - 1
    BY <1>8, ParserAssumption DEF Keywords, OtherTokens
  <2> QED
    BY <1>1, <1>3, <1>8, <2>1 DEF Means
<1> QED
  BY <1>1, <1>6, <1>7, <1>8 DEF Means, all

\* An EXPECT line appends its assertion to the last case (dsl_parser.c:405-412).
LEMMA MeansExpect ==
    ASSUME NEW cases \in Seq(Cases), cases # <<>>, NEW s, NEW b \in Nat \ {0}, NEW n \in Nat,
           NEW a \in Assertions,
           Means(cases, s, b - 1), s[b] = "EXPECT", \A i \in b + 1 .. n : s[i] \notin Keywords,
           a = AssertionOf(s, b), a.value <= n
    PROVE  Means([cases EXCEPT ![Len(cases)].assertions = Append(@, a)], s, n)
<1> DEFINE all == [cases EXCEPT ![Len(cases)].assertions = Append(@, a)]
           last == Len(cases)
           old == cases[last].assertions
           size == Len(old) + 1
<1>1. /\ DOMAIN cases = 1 .. last /\ last \in Nat \ {0} /\ DOMAIN all = DOMAIN cases
      /\ \A k \in DOMAIN cases : k # last => all[k] = cases[k]
  OBVIOUS
<1>2. last \in DOMAIN cases
  BY <1>1
<1>3. /\ all[last].url = cases[last].url /\ all[last].method = cases[last].method
      /\ all[last].body = cases[last].body /\ all[last].assertions = Append(old, a)
  <2>1. cases[last] \in Cases
    BY <1>2
  <2>2. all[last] = [cases[last] EXCEPT !.assertions = Append(@, a)]
    BY <1>2
  <2> QED
    BY <2>1, <2>2 DEF Cases
<1>4. old \in Seq(Assertions)
  BY <1>2, CaseTypes
<1>5. /\ DOMAIN old = 1 .. size - 1 /\ size \in Nat \ {0}
      /\ DOMAIN all[last].assertions = 1 .. size
      /\ all[last].assertions[size] = a
      /\ \A j \in DOMAIN old : all[last].assertions[j] = old[j]
  BY <1>3, <1>4
<1>6. a.value \in {b + 2, b + 3}
  BY DEF AssertionOf, Assertion
<1>7. b <= n /\ a.value \in Nat
  BY <1>6 DEF Assertions
<1> HIDE DEF all, old, size
<1>8. \A k \in DOMAIN cases : all[k].url = cases[k].url
  BY <1>1, <1>3
<1>9. \A k, keyword : Said(all, s, n, k, keyword) = Said(cases, s, n, k, keyword)
  BY <1>1, <1>8 DEF Said
<1>10. ASSUME NEW k \in DOMAIN cases, k # last PROVE CaseMeans(all, s, n, k)
  <2>1. CaseMeans(cases, s, b - 1, k)
    BY DEF Means
  <2>2. /\ Said(cases, s, n, k, "BODY_STMT") = Said(cases, s, b - 1, k, "BODY_STMT")
        /\ Said(cases, s, n, k, "EXPECT") = Said(cases, s, b - 1, k, "EXPECT")
    BY <1>7, <1>10, SaidLast
  <2>3. \A j \in DOMAIN cases[k].assertions : cases[k].assertions[j].value \in Nat
    BY CaseTypes
  <2>4. all[k] = cases[k]
    BY <1>1, <1>10
  <2>5. \A m \in 1 .. k - 1 : m \in DOMAIN cases
    BY <1>1
  <2> QED
    BY <1>7, <1>8, <1>9, <2>1, <2>2, <2>3, <2>4, <2>5 DEF CaseMeans
<1>11. CaseMeans(all, s, n, last)
  <2>1. CaseMeans(cases, s, b - 1, last)
    BY <1>2 DEF Means
  <2>2. /\ Said(cases, s, n, last, "BODY_STMT") = Said(cases, s, b - 1, last, "BODY_STMT")
        /\ Said(cases, s, n, last, "EXPECT")
              = Said(cases, s, b - 1, last, "EXPECT") \cup {b}
    BY <1>7, SaidLast
  <2>3. \A j \in DOMAIN old : old[j].value \in Nat
    BY <1>2, CaseTypes DEF old
  <2>4. \A m \in 1 .. last - 1 : m \in DOMAIN cases
    BY <1>1
  <2>5. ASSUME NEW i \in Said(all, s, n, last, "EXPECT")
        PROVE  \E j \in 1 .. size : all[last].assertions[j] = AssertionOf(s, i)
    <3>1. CASE i = b
      BY <1>5, <3>1
    <3>2. CASE i \in Said(cases, s, b - 1, last, "EXPECT")
      <4>1. PICK j \in DOMAIN old : old[j] = AssertionOf(s, i)
        BY <2>1, <3>2 DEF CaseMeans, old
      <4> QED
        BY <1>5, <4>1
    <3> QED
      BY <1>9, <2>2, <3>1, <3>2
  <2>6. ASSUME NEW j \in 1 .. size
        PROVE  /\ \E i \in Said(all, s, n, last, "EXPECT") :
                      all[last].assertions[j] = AssertionOf(s, i)
               /\ all[last].assertions[j].value <= n
               /\ \A h \in 1 .. j - 1 :
                     all[last].assertions[h].value < all[last].assertions[j].value
    <3>1. CASE j = size
      <4>1. \A h \in 1 .. j - 1 : old[h].value \in Nat /\ old[h].value <= b - 1
        BY <1>5, <2>1, <2>3, <3>1 DEF CaseMeans, old
      <4>2. \A h \in 1 .. j - 1 : all[last].assertions[h] = old[h]
        BY <1>5, <3>1
      <4>3. b \in Said(all, s, n, last, "EXPECT")
        BY <1>9, <2>2
      <4>4. \A h \in 1 .. j - 1 : old[h].value < a.value
        BY <1>6, <4>1
      <4> QED
        BY <1>5, <3>1, <4>2, <4>3, <4>4
    <3>2. CASE j \in DOMAIN old
      <4>1. /\ \E i \in Said(cases, s, b - 1, last, "EXPECT") : old[j] = AssertionOf(s, i)
            /\ old[j].value <= b - 1
            /\ \A h \in 1 .. j - 1 : old[h].value < old[j].value
        BY <2>1, <3>2 DEF CaseMeans, old
      <4>2. \A h \in 1 .. j : all[last].assertions[h] = old[h]
        BY <1>5, <3>2
      <4>3. old[j].value <= n
        BY <1>7, <2>3, <3>2, <4>1
      <4> QED
        BY <1>9, <2>2, <4>1, <4>2, <4>3
    <3> QED
      BY <1>5, <3>1, <3>2
  <2>7. /\ all[last].url \in 2 .. n /\ all[last].method = s[all[last].url - 1]
        /\ \A m \in 1 .. last - 1 : all[m].url < all[last].url
    BY <1>3, <1>7, <1>8, <2>1, <2>4 DEF CaseMeans
  <2>8. /\ all[last].body # 0 =>
              all[last].body \in 2 .. n
              /\ all[last].body - 1 \in Said(all, s, n, last, "BODY_STMT")
        /\ \A i \in Said(all, s, n, last, "BODY_STMT") : i < all[last].body
    BY <1>3, <1>7, <1>9, <2>1, <2>2 DEF CaseMeans
  <2> QED
    BY <1>5, <2>5, <2>6, <2>7, <2>8 DEF CaseMeans
<1>12. ASSUME NEW i \in 1 .. n, s[i] \in Methods PROVE \E k \in DOMAIN all : all[k].url = i + 1
  <2>1. i \in 1 .. b - 1
    BY <1>7, <1>12, ParserAssumption DEF Keywords, OtherTokens
  <2> QED
    BY <1>1, <1>8, <1>12, <2>1 DEF Means
<1> QED
  BY <1>1, <1>10, <1>11, <1>12 DEF Means, all

-----------------------------------------------------------------------------
(* The parser between two statements and inside of one *)

HeaderStages == {"header_value", "value_copy"}
RunningStages ==
    {"program", "request_url", "request_copy", "body_raw", "body_copy", "statement_end"}
    \cup ExpectStages

\* The tokens read, in a state where the parser runs.
LEMMA ReadFacts ==
    ASSUME ParserInv, Running
    PROVE  /\ read \in Seq(Tokens) /\ Len(read) \in Nat \ {0} /\ DOMAIN read = 1 .. Len(read)
           /\ Last(read) = read[Len(read)] /\ Last(read) \in Tokens
           /\ \A i \in 1 .. Len(read) : read[i] \in Tokens
           /\ finished \in Nat /\ Part \in 0 .. 4 /\ Len(read) = finished + 1 + Part
           /\ previous = Len(read) - 1
<1>1. read \in Seq(Tokens) /\ read # <<>>
  BY DEF ParserInv, ParserTypeOK, ErrorInv
<1>2. Len(read) \in Nat \ {0} /\ DOMAIN read = 1 .. Len(read)
  BY <1>1
<1>3. \A i \in 1 .. Len(read) : read[i] \in Tokens
  BY <1>1, ElementOfSeq
<1>4. Last(read) = read[Len(read)] /\ Last(read) \in Tokens
  BY <1>2, <1>3 DEF Last
<1>5. finished \in Nat
  BY DEF ParserInv, StatementInv
<1>6. Part \in 0 .. 4
  BY DEF Part
<1>7. Len(read) = finished + 1 + Part
  BY <1>2, <1>6 DEF finished, previous
<1> QED
  BY <1>1, <1>2, <1>3, <1>4, <1>5, <1>6, <1>7 DEF previous

\* What advance() changes (dsl_parser.c:90-124).
LEMMA AdvanceFacts ==
    ASSUME ParserInv, Running, Advance, Last(read) # "ERROR"
    PROVE  /\ read' \in Seq(Tokens) /\ Len(read') = Len(read) + 1
           /\ \A i \in 1 .. Len(read) : read'[i] = read[i]
           /\ Last(read') = read'[Len(read) + 1] /\ Last(read') \in Tokens
           /\ had_error' \in BOOLEAN /\ error_at' \in 0 .. Len(read')
           /\ had_error' <=> Last(read') = "ERROR"
           /\ had_error' => error_at' = Len(read')
<1>1. read \in Seq(Tokens) /\ Len(read) \in Nat \ {0}
  BY ReadFacts
<1>2. PICK t \in Tokens :
        /\ read' = Append(read, t)
        /\ had_error' = (had_error \/ t = "ERROR")
        /\ error_at' = IF t = "ERROR" THEN Len(read) + 1 ELSE error_at
  BY DEF Advance, NextTokens
<1>3. ~ had_error /\ error_at \in 0 .. Len(read) /\ had_error \in BOOLEAN
  BY DEF ParserInv, ErrorInv, ParserTypeOK
<1>4. /\ read' \in Seq(Tokens) /\ Len(read') = Len(read) + 1
      /\ \A i \in 1 .. Len(read) : read'[i] = read[i]
      /\ read'[Len(read) + 1] = t
  BY <1>1, <1>2
<1>5. Last(read') = t
  BY <1>1, <1>4 DEF Last
<1>6. had_error' \in BOOLEAN /\ (had_error' <=> t = "ERROR")
  BY <1>2, <1>3, Zenon
<1>7. /\ error_at' \in 0 .. Len(read')
      /\ t = "ERROR" => error_at' = Len(read')
  BY <1>1, <1>2, <1>3, <1>4
<1> QED
  BY <1>2, <1>4, <1>5, <1>6, <1>7

\* Inside of a statement there is no line end, and its keyword is its first token.
LEMMA ConsumedTokens ==
    ASSUME ParserInv, Running, stage # "statement_end"
    PROVE  /\ \A i \in finished + 1 .. previous : read[i] \notin Ends
           /\ \A i \in finished + 2 .. previous : read[i] \notin Keywords
<1>1. finished \in Nat /\ previous = finished + Part
  BY ReadFacts
<1>2. CASE Part = 0
  BY <1>1, <1>2
<1> DEFINE token(i) == read[finished + i]
<1>3. CASE Part = 1
  <2>1. stage \in {"request_url", "body_raw", "expect"}
    BY <1>3 DEF Part
  <2>2. token(1) \in Methods \/ token(1) \in {"BODY_STMT", "EXPECT"}
    BY <2>1 DEF ParserInv, StatementInv, ExpectStages
  <2> QED
    BY <1>1, <1>3, <2>2, ParserAssumption DEF OtherTokens, Ends
<1>4. CASE Part = 2
  <2>1. stage \in {"request_copy", "body_copy", "status_int", "body_contains", "header_key"}
    BY <1>4 DEF Part
  <2>2. /\ token(1) \in Methods \/ token(1) \in {"BODY_STMT", "EXPECT"}
        /\ token(2) \in {"IDENT", "BODY_RAW", "STATUS", "BODY", "HEADER"}
    BY <2>1 DEF ParserInv, StatementInv, ExpectStages
  <2> QED
    BY <1>1, <1>4, <2>2, ParserAssumption DEF OtherTokens, Ends, Keywords
<1>5. CASE Part = 3
  <2>1. stage \in {"body_string", "name_copy", "header_value"}
    BY <1>5 DEF Part
  <2>2. /\ token(1) = "EXPECT"
        /\ token(2) \in {"BODY", "HEADER"} /\ token(3) \in {"CONTAINS", "IDENT"}
    BY <2>1 DEF ParserInv, StatementInv, ExpectStages
  <2> QED
    BY <1>1, <1>5, <2>2, ParserAssumption DEF OtherTokens, Ends, Keywords
<1>6. CASE Part = 4
  <2>1. stage \in {"body_assert", "value_copy"}
    BY <1>6 DEF Part
  <2>2. /\ token(1) = "EXPECT"
        /\ token(2) \in {"BODY", "HEADER"} /\ token(3) \in {"CONTAINS", "IDENT"}
        /\ token(4) \in {"IDENT", "STRING", "INT"}
    BY <2>1 DEF ParserInv, StatementInv, ExpectStages
  <2> QED
    BY <1>1, <1>6, <2>2, ParserAssumption DEF OtherTokens, Ends, Keywords
<1> QED
  BY <1>2, <1>3, <1>4, <1>5, <1>6, ReadFacts

\* There is a request above just when a request line was read.
LEMMA RequestAbove ==
    ASSUME ParserInv, Running
    PROVE  plan # <<>> <=> \E j \in 1 .. finished : read[j] \in Methods
<1>1. Means(plan, read, finished) /\ plan \in Seq(Cases) /\ finished \in Nat
  BY ReadFacts DEF ParserInv, PlanInv, ParserTypeOK
<1>2. ASSUME plan # <<>> PROVE \E j \in 1 .. finished : read[j] \in Methods
  <2>1. 1 \in DOMAIN plan
    BY <1>1, <1>2
  <2>2. CaseMeans(plan, read, finished, 1) /\ plan[1].method \in Methods
    BY <1>1, <2>1, CaseTypes DEF Means
  <2> QED
    BY <1>1, <2>2 DEF CaseMeans
<1>3. ASSUME NEW j \in 1 .. finished, read[j] \in Methods PROVE plan # <<>>
  BY <1>1, <1>3 DEF Means
<1> QED
  BY <1>2, <1>3

\* Whether the current token can be there.
LEMMA CurrentViable ==
    ASSUME ParserInv, Running, stage # "statement_end", Begins(read, finished + 1)
    PROVE  Viable(read, Len(read)) <=>
              /\ LineTree(read, finished + 1, Len(read))
              /\ Part = 0 /\ Last(read) \in {"BODY_STMT", "EXPECT"} => plan # <<>>
<1>1. PICK n \in Nat \ {0} : n = Len(read)
  BY ReadFacts
<1>2. PICK b \in 1 .. n : b = finished + 1
  BY <1>1, ReadFacts
<1>3. Viable(read, n - 1) /\ previous = n - 1 /\ Last(read) = read[n] /\ n = b + Part
  BY <1>1, <1>2, ReadFacts DEF ParserInv, StatementInv
<1>4. \A i \in b .. n - 1 : read[i] # "NEWLINE" /\ read[i] # "EOF"
  BY <1>2, <1>3, ConsumedTokens DEF Ends
<1>5. n > 1 => read[n - 1] # "EOF"
  <2>1. CASE b = n /\ n > 1
    BY <1>2, <2>1 DEF Begins
  <2> QED
    BY <1>4, <2>1
<1>6. Viable(read, n) <=>
         /\ LineTree(read, b, n)
         /\ read[n] \in {"BODY_STMT", "EXPECT"} => \E j \in 1 .. n - 1 : read[j] \in Methods
  BY <1>2, <1>3, <1>4, <1>5, NextTokenViable
<1>7. CASE Part = 0
  <2>1. n = b /\ n - 1 = finished
    BY <1>2, <1>3, <1>7, ReadFacts
  <2> QED
    BY <1>1, <1>2, <1>3, <1>6, <1>7, <2>1, RequestAbove
<1>8. CASE Part # 0 /\ plan = <<>>
  <2>1. stage \in {"request_url", "request_copy"}
    BY <1>8 DEF Part, ParserInv, StatementInv, ExpectStages
  <2>2. LineTree(read, b, n) => read[n] \notin {"BODY_STMT", "EXPECT"}
    <3>1. read[b] \in Methods /\ b < n /\ n <= b + 2
      BY <1>2, <1>3, <1>8, <2>1 DEF Part, ParserInv, StatementInv
    <3> QED
      BY <3>1, ParserAssumption DEF LineTree, OtherTokens, Ends
  <2> QED
    BY <1>1, <1>2, <1>6, <1>8, <2>2
<1>9. CASE Part # 0 /\ plan # <<>>
  <2>1. \E j \in 1 .. n - 1 : read[j] \in Methods
    BY <1>2, <1>3, <1>9, RequestAbove, ReadFacts
  <2> QED
    BY <1>1, <1>2, <1>6, <1>9, <2>1
<1> QED
  BY <1>7, <1>8, <1>9

-----------------------------------------------------------------------------
(* A token is consumed *)

\* Positions of the plan are behind the parser.
LEMMA PlanPositions ==
    ASSUME ParserInv, Running, NEW k \in DOMAIN plan
    PROVE  /\ plan[k].url \in 2 .. finished
           /\ plan[k].body \in 0 .. finished
           /\ \A j \in DOMAIN plan[k].assertions :
                 /\ plan[k].assertions[j].value \in 0 .. finished
                 /\ plan[k].assertions[j].key \in 0 .. finished
<1>1. CaseMeans(plan, read, finished, k) /\ plan \in Seq(Cases) /\ finished \in Nat
  BY ReadFacts DEF ParserInv, PlanInv, Means, ParserTypeOK
<1>2. \A j \in DOMAIN plan[k].assertions :
         plan[k].assertions[j].key <= plan[k].assertions[j].value
  BY DEF ParserInv, CopiedInv
<1>3. /\ plan[k].url \in Nat /\ plan[k].body \in Nat
      /\ \A j \in DOMAIN plan[k].assertions :
            plan[k].assertions[j].value \in Nat /\ plan[k].assertions[j].key \in Nat
  BY <1>1, CaseTypes
<1>4. plan[k].url \in 2 .. finished /\ plan[k].body \in 0 .. finished
  BY <1>1, <1>3 DEF CaseMeans
<1>5. \A j \in DOMAIN plan[k].assertions : plan[k].assertions[j].value \in 0 .. finished
  BY <1>1, <1>3 DEF CaseMeans
<1> QED
  BY <1>1, <1>2, <1>3, <1>4, <1>5

\* What CopiedInv says of the plan, whatever is read next.
OwnTokens(s, cases) ==
    \A k \in DOMAIN cases :
        /\ s[cases[k].url] = "IDENT"
        /\ cases[k].body # 0 => s[cases[k].body] = "BODY_RAW"
        /\ \A j \in DOMAIN cases[k].assertions :
              LET a == cases[k].assertions[j]
              IN a.key <= a.value /\ \A p \in {a.key, a.value} \ {0} : s[p] # "BODY_RAW"

\* The tokens of the plan's strings stay what they are when more are read.
LEMMA OwnTokensStay ==
    ASSUME ParserInv, Running, NEW s, \A i \in 1 .. finished : s[i] = read[i]
    PROVE  OwnTokens(s, plan)
<1>1. OwnTokens(read, plan)
  BY DEF ParserInv, CopiedInv, OwnTokens
<1>2. ASSUME NEW k \in DOMAIN plan
      PROVE  /\ s[plan[k].url] = "IDENT"
             /\ plan[k].body # 0 => s[plan[k].body] = "BODY_RAW"
  BY <1>1, PlanPositions, ReadFacts DEF OwnTokens
<1>3. ASSUME NEW k \in DOMAIN plan, NEW j \in DOMAIN plan[k].assertions,
             NEW p \in {plan[k].assertions[j].key, plan[k].assertions[j].value} \ {0}
      PROVE  s[p] # "BODY_RAW"
  <2>1. p \in 1 .. finished
    BY PlanPositions, ReadFacts
  <2>2. read[p] # "BODY_RAW"
    BY <1>1 DEF OwnTokens
  <2> QED
    BY <2>1, <2>2
<1> QED
  BY <1>1, <1>2, <1>3 DEF OwnTokens

\* A token that is expected and is there: the parser goes on (dsl_parser.c:79-88).
LEMMA ExpectedKeeps ==
    ASSUME ParserInv, Running, NEW types, "ERROR" \notin types, NEW next, Expected(types, next),
           UNCHANGED memory,
           stage' \in RunningStages,
           Viable(read, Len(read)),
           finished' \in finished .. Len(read),
           \A i \in finished + 1 .. finished' : read[i] \notin Keywords,
           stage \in HeaderStages <=> stage' \in HeaderStages,
           stage \in HeaderStages => finished' = finished,
           StatementInv'
    PROVE  ParserInv'
<1>1. Advance /\ stage' = next /\ Last(read) \in types /\ Last(read) # "ERROR"
  BY DEF Expected, Current
<1>2. UNCHANGED <<plan, copied, header_name, oom>>
  BY DEF memory
<1>3. PICK n \in Nat \ {0} : n = Len(read)
  BY ReadFacts
<1>4. PICK u \in Seq(Tokens) : u = read'
  BY <1>1, AdvanceFacts
<1>5. Len(u) = n + 1 /\ \A i \in 1 .. n : u[i] = read[i]
  BY <1>1, <1>3, <1>4, AdvanceFacts
<1>6. Running'
  BY <1>1 DEF Running, RunningStages, ExpectStages
<1>7. ParserTypeOK'
  <2>1. ParserTypeOK
    BY DEF ParserInv
  <2>2. copied' \subseteq 1 .. Len(read') /\ header_name' \in 0 .. Len(read')
    BY <1>2, <1>3, <1>4, <1>5, <2>1 DEF ParserTypeOK
  <2>3. had_error' \in BOOLEAN /\ error_at' \in 0 .. Len(read')
    BY <1>1, AdvanceFacts
  <2> QED
    BY <1>2, <1>4, <2>1, <2>2, <2>3 DEF ParserTypeOK, RunningStages, ExpectStages
<1>8. ErrorInv'
  <2>1. read' # <<>>
    BY <1>4, <1>5
  <2>2. stage' # "reject"
    BY <1>6 DEF Running
  <2> QED
    BY <1>1, <1>6, <2>1, <2>2, AdvanceFacts DEF ErrorInv
<1>9. PlanInv'
  <2>1. Means(plan, read, finished) /\ finished \in Nat /\ finished <= n - 1
    BY <1>3, ReadFacts DEF ParserInv, PlanInv
  <2>2. Means(plan, u, finished)
    BY <1>5, <2>1, MeansStays
  <2>3. PICK m \in finished .. n : m = finished'
    BY <1>3
  <2>4. \A i \in finished + 1 .. m : u[i] \notin Keywords
    BY <1>3, <1>5, <2>1, <2>3
  <2>5. Means(plan, u, m)
    BY <2>1, <2>2, <2>3, <2>4, MeansSkips DEF ParserInv, ParserTypeOK
  <2> QED
    BY <1>2, <1>4, <2>3, <2>5 DEF PlanInv
<1>10. CopiedInv'
  <2>1. OwnTokens(u, plan)
    BY <1>3, <1>5, OwnTokensStay, ReadFacts
  <2>2. header_name' = IF stage' \in HeaderStages THEN finished' + 3 ELSE 0
    BY <1>2 DEF ParserInv, CopiedInv, HeaderStages
  <2> QED
    BY <1>2, <1>4, <2>1, <2>2 DEF CopiedInv, OwnTokens, HeaderStages
<1>11. NoStringLost'
  BY <1>2, <1>6 DEF Running, ParserInv, NoStringLost, Reachable, StringsOf
<1>12. PlanIsMeaning' /\ ErrorAtFirstBadToken'
  BY <1>6 DEF Running, PlanIsMeaning, ErrorAtFirstBadToken
<1> QED
  BY <1>7, <1>8, <1>9, <1>10, <1>11, <1>12 DEF ParserInv

\* After advance() all tokens but the last are viable.
LEMMA ReadNext ==
    ASSUME ParserInv, Running, Advance, Last(read) # "ERROR", Viable(read, Len(read))
    PROVE  /\ Len(read') = Len(read) + 1 /\ previous' = Len(read)
           /\ Viable(read', previous')
           /\ \A i \in 1 .. Len(read) : read'[i] = read[i]
<1>1. PICK n \in Nat \ {0} : n = Len(read)
  BY ReadFacts
<1>2. Len(read') = n + 1 /\ \A i \in 1 .. n : read'[i] = read[i]
  BY <1>1, AdvanceFacts
<1>3. previous' = n
  BY <1>2 DEF previous
<1>4. Viable(read', n)
  BY <1>1, <1>2, ViableStays
<1> QED
  BY <1>1, <1>2, <1>3, <1>4

\* A statement goes on with its next token.
LEMMA Inside ==
    ASSUME ParserInv, Running, Advance, Last(read) # "ERROR", Viable(read, Len(read)),
           Part \in 1 .. 3, Part' = Part + 1
    PROVE  /\ finished' = finished /\ finished' \in Nat
           /\ Viable(read', previous') /\ Begins(read', finished' + 1)
           /\ \A i \in 1 .. Part : read'[finished' + i] = read[finished + i]
           /\ read'[finished' + Part'] = Last(read)
<1>1. PICK n \in Nat \ {0} : n = Len(read)
  BY ReadFacts
<1>2. /\ finished \in Nat /\ n = finished + 1 + Part /\ Last(read) = read[n]
      /\ Begins(read, finished + 1)
  <2>1. stage \notin {"statement_end", "program"}
    BY DEF Part
  <2> QED
    BY <1>1, <2>1, ReadFacts DEF ParserInv, StatementInv
<1>3. previous' = n /\ Viable(read', previous') /\ \A i \in 1 .. n : read'[i] = read[i]
  BY <1>1, ReadNext
<1>4. finished' = finished
  BY <1>2, <1>3 DEF finished
<1>5. Begins(read', finished + 1)
  BY <1>2, <1>3 DEF Begins
<1> QED
  BY <1>1, <1>2, <1>3, <1>4, <1>5

\* An expected token inside a line.
LEMMA InsideKeeps ==
    ASSUME ParserInv, Running, NEW types, "ERROR" \notin types, NEW next, Expected(types, next),
           UNCHANGED memory, Viable(read, Len(read)), Part \in 1 .. 3, Part' = Part + 1,
           next \in RunningStages, stage \in HeaderStages <=> next \in HeaderStages,
           StatementInv'
    PROVE  ParserInv'
<1>1. Advance /\ Last(read) # "ERROR" /\ stage' = next
  BY DEF Expected, Current
<1>2. finished' = finished
  BY <1>1, Inside
<1>3. finished' \in finished .. Len(read)
  BY <1>2, ReadFacts
<1>4. \A i \in finished + 1 .. finished' : read[i] \notin Keywords
  BY <1>2, ReadFacts
<1> QED
  BY <1>1, <1>2, <1>3, <1>4, ExpectedKeeps

\* Every failure leaves the strings to free_run_plan and the error at the
\* current token.
LEMMA FailKeeps ==
    ASSUME ParserInv, Running, Fail, oom' \in BOOLEAN,
           plan' \in Seq(Cases), Len(plan') <= MaxCases,
           \A k \in DOMAIN plan' : Len(plan'[k].assertions) <= MaxAssertions,
           header_name' = 0, copied' \subseteq copied, copied' = Reachable(plan'),
           \/ oom'
           \/ ~ Viable(read, Len(read))
           \/ Last(read) \in Methods /\ Len(plan') = MaxCases
           \/ /\ read[Len(read) - 1] = "EXPECT"
              /\ Len(Last(plan').assertions) = MaxAssertions
    PROVE  ParserInv'
<1>1. /\ stage' = "reject" /\ read' = read /\ had_error' = TRUE /\ error_at' = Len(read)
  BY DEF Fail, ParserInv, ErrorInv
<1>2. PICK n \in Nat \ {0} : n = Len(read)
  BY ReadFacts
<1>3. ParserTypeOK'
  <2>1. ParserTypeOK
    BY DEF ParserInv
  <2>2. copied' \subseteq 1 .. Len(read') /\ error_at' \in 0 .. Len(read')
    <3>1. copied \subseteq 1 .. n
      BY <1>2, <2>1 DEF ParserTypeOK
    <3>2. Len(read') = n /\ error_at' = n
      BY <1>1, <1>2
    <3>3. copied' \subseteq 1 .. n
      BY <3>1
    <3> QED
      BY <3>2, <3>3
  <2>3. read' \in Seq(Tokens) /\ had_error' \in BOOLEAN /\ header_name' \in 0 .. Len(read')
    BY <1>1, <1>2, <2>1 DEF ParserTypeOK
  <2> QED
    BY <1>1, <2>2, <2>3 DEF ParserTypeOK
<1>4. ~ Running'
  BY <1>1 DEF Running
<1>5. ErrorInv' /\ StatementInv' /\ PlanInv' /\ PlanIsMeaning'
  BY <1>1, <1>2, <1>4 DEF ErrorInv, StatementInv, PlanInv, PlanIsMeaning, ExpectStages
<1>6. Viable(read, n - 1) /\ previous = n - 1 /\ Last(read) = read[n]
  BY <1>2, ReadFacts DEF ParserInv, StatementInv
<1>7. ErrorAtFirstBadToken'
  BY <1>1, <1>2, <1>6 DEF ErrorAtFirstBadToken
<1>8. NoStringLost'
  BY <1>1 DEF NoStringLost, Reachable, StringsOf
<1> QED
  BY <1>3, <1>4, <1>5, <1>7, <1>8 DEF ParserInv

\* An error at the current token, where no header name is held (dsl_parser.c:53-77).
LEMMA FailHere ==
    ASSUME ParserInv, Running, Fail, UNCHANGED memory, stage \notin HeaderStages,
           \/ ~ Viable(read, Len(read))
           \/ Last(read) \in Methods /\ Len(plan) = MaxCases
           \/ /\ read[Len(read) - 1] = "EXPECT"
              /\ Len(Last(plan).assertions) = MaxAssertions
    PROVE  ParserInv'
<1>1. header_name = 0
  BY DEF ParserInv, CopiedInv, HeaderStages
<1>2. copied = Reachable(plan)
  BY <1>1 DEF ParserInv, NoStringLost
<1>3. plan' = plan /\ copied' = copied /\ header_name' = header_name /\ oom' = oom
  BY DEF memory
<1>4. Reachable(plan') = Reachable(plan)
  BY <1>3 DEF Reachable, StringsOf
<1> QED
  BY <1>1, <1>2, <1>3, <1>4, FailKeeps DEF ParserInv, ParserTypeOK

\* consume: one token is right here.
LEMMA ConsumeKeeps ==
    ASSUME ParserInv, Running, NEW type, type # "ERROR", NEW next,
           Expected({type}, next) \/ (~ Current({type}) /\ Fail),
           UNCHANGED memory, Part \in 1 .. 3,
           Viable(read, Len(read)) <=> Last(read) = type,
           next \in RunningStages, next \notin HeaderStages, stage \notin HeaderStages,
           Expected({type}, next) => Part' = Part + 1 /\ StatementInv'
    PROVE  ParserInv'
<1>1. CASE Expected({type}, next)
  <2>1. Last(read) = type /\ "ERROR" \notin {type}
    BY <1>1 DEF Expected, Current
  <2> QED
    BY <1>1, <2>1, InsideKeeps
<1>2. CASE ~ Current({type}) /\ Fail
  <2>1. ~ Viable(read, Len(read))
    BY <1>2, ReadFacts DEF Current
  <2> QED
    BY <1>2, <2>1, FailHere
<1> QED
  BY <1>1, <1>2

LEMMA RequestUrlKeeps == ASSUME ParserInv, RequestUrl PROVE ParserInv'
<1>1. stage = "request_url" /\ Running /\ Part = 1 /\ UNCHANGED memory
  BY DEF RequestUrl, Consume, Running, Part
<1>2. /\ Begins(read, finished + 1)
      /\ read[finished + 1] \in Methods /\ Len(plan) < MaxCases
  BY <1>1 DEF ParserInv, StatementInv, ExpectStages
<1>3. Len(read) = finished + 2 /\ finished \in Nat /\ Last(read) = read[finished + 2]
  BY <1>1, ReadFacts
<1>4. Viable(read, Len(read)) <=> Last(read) = "IDENT"
  <2>1. LineTree(read, finished + 1, Len(read)) <=> read[finished + 2] = "IDENT"
    BY <1>2, <1>3, ParserAssumption DEF LineTree, OtherTokens, Ends, AssertionKinds
  <2> QED
    BY <1>1, <1>2, <1>3, <2>1, CurrentViable
<1>5. ASSUME Expected({"IDENT"}, "request_copy") PROVE Part' = 2 /\ StatementInv'
  <2>1. Advance /\ Last(read) = "IDENT" /\ stage' = "request_copy" /\ Part' = 2
    BY <1>5 DEF Expected, Current, Part
  <2>2. /\ finished' = finished /\ finished' \in Nat
        /\ Viable(read', previous') /\ Begins(read', finished' + 1)
        /\ \A i \in 1 .. 1 : read'[finished' + i] = read[finished + i]
        /\ read'[finished' + 2] = "IDENT"
    BY <1>1, <1>4, <2>1, Inside
  <2>3. /\ plan' = plan
        /\ read'[finished' + 1] = read[finished + 1]
    BY <1>1, <1>2, <2>2 DEF memory
  <2> QED
    BY <1>2, <2>1, <2>2, <2>3 DEF StatementInv, ExpectStages
<1>6. /\ "request_copy" \in RunningStages /\ "request_copy" \notin HeaderStages
      /\ stage \notin HeaderStages
  BY <1>1 DEF RunningStages, ExpectStages, HeaderStages
<1>7. Expected({"IDENT"}, "request_copy") \/ (~ Current({"IDENT"}) /\ Fail)
  BY DEF RequestUrl, Consume
<1>8. Part \in 1 .. 3 /\ (Expected({"IDENT"}, "request_copy") => Part' = Part + 1 /\ StatementInv')
  BY <1>1, <1>5
<1> QED
  BY <1>1, <1>4, <1>6, <1>7, <1>8, ConsumeKeeps

LEMMA BodyValueKeeps == ASSUME ParserInv, BodyValue PROVE ParserInv'
<1>1. stage = "body_raw" /\ Running /\ Part = 1 /\ UNCHANGED memory
  BY DEF BodyValue, Consume, Running, Part
<1>2. /\ Begins(read, finished + 1)
      /\ read[finished + 1] = "BODY_STMT" /\ plan # <<>>
  BY <1>1 DEF ParserInv, StatementInv, ExpectStages
<1>3. Len(read) = finished + 2 /\ finished \in Nat /\ Last(read) = read[finished + 2]
  BY <1>1, ReadFacts
<1>4. Viable(read, Len(read)) <=> Last(read) = "BODY_RAW"
  <2>1. LineTree(read, finished + 1, Len(read)) <=> read[finished + 2] = "BODY_RAW"
    BY <1>2, <1>3, ParserAssumption DEF LineTree, OtherTokens, Ends, AssertionKinds
  <2> QED
    BY <1>1, <1>2, <1>3, <2>1, CurrentViable
<1>5. ASSUME Expected({"BODY_RAW"}, "body_copy") PROVE Part' = 2 /\ StatementInv'
  <2>1. Advance /\ Last(read) = "BODY_RAW" /\ stage' = "body_copy" /\ Part' = 2
    BY <1>5 DEF Expected, Current, Part
  <2>2. /\ finished' = finished /\ finished' \in Nat
        /\ Viable(read', previous') /\ Begins(read', finished' + 1)
        /\ \A i \in 1 .. 1 : read'[finished' + i] = read[finished + i]
        /\ read'[finished' + 2] = "BODY_RAW"
    BY <1>1, <1>4, <2>1, Inside
  <2>3. /\ plan' = plan
        /\ read'[finished' + 1] = read[finished + 1]
    BY <1>1, <1>2, <2>2 DEF memory
  <2> QED
    BY <1>2, <2>1, <2>2, <2>3 DEF StatementInv, ExpectStages
<1>6. /\ "body_copy" \in RunningStages /\ "body_copy" \notin HeaderStages
      /\ stage \notin HeaderStages
  BY <1>1 DEF RunningStages, ExpectStages, HeaderStages
<1>7. Expected({"BODY_RAW"}, "body_copy") \/ (~ Current({"BODY_RAW"}) /\ Fail)
  BY DEF BodyValue, Consume
<1>8. Part \in 1 .. 3 /\ (Expected({"BODY_RAW"}, "body_copy") => Part' = Part + 1 /\ StatementInv')
  BY <1>1, <1>5
<1> QED
  BY <1>1, <1>4, <1>6, <1>7, <1>8, ConsumeKeeps

LEMMA BodyContainsKeeps == ASSUME ParserInv, BodyContains PROVE ParserInv'
<1>1. stage = "body_contains" /\ Running /\ Part = 2 /\ UNCHANGED memory
  BY DEF BodyContains, Consume, Running, Part
<1>2. /\ Begins(read, finished + 1)
      /\ read[finished + 1] = "EXPECT" /\ plan # <<>>
      /\ Len(Last(plan).assertions) < MaxAssertions
      /\ read[finished + 2] = "BODY"
  BY <1>1 DEF ParserInv, StatementInv, ExpectStages
<1>3. Len(read) = finished + 3 /\ finished \in Nat /\ Last(read) = read[finished + 3]
  BY <1>1, ReadFacts
<1>4. Viable(read, Len(read)) <=> Last(read) = "CONTAINS"
  <2>1. LineTree(read, finished + 1, Len(read)) <=> read[finished + 3] = "CONTAINS"
    BY <1>2, <1>3, ParserAssumption DEF LineTree, OtherTokens, Ends, AssertionKinds
  <2> QED
    BY <1>1, <1>2, <1>3, <2>1, CurrentViable
<1>5. ASSUME Expected({"CONTAINS"}, "body_string") PROVE Part' = 3 /\ StatementInv'
  <2>1. Advance /\ Last(read) = "CONTAINS" /\ stage' = "body_string" /\ Part' = 3
    BY <1>5 DEF Expected, Current, Part
  <2>2. /\ finished' = finished /\ finished' \in Nat
        /\ Viable(read', previous') /\ Begins(read', finished' + 1)
        /\ \A i \in 1 .. 2 : read'[finished' + i] = read[finished + i]
        /\ read'[finished' + 3] = "CONTAINS"
    BY <1>1, <1>4, <2>1, Inside
  <2>3. /\ plan' = plan
        /\ read'[finished' + 1] = read[finished + 1]
        /\ read'[finished' + 2] = read[finished + 2]
    BY <1>1, <1>2, <2>2 DEF memory
  <2> QED
    BY <1>2, <2>1, <2>2, <2>3 DEF StatementInv, ExpectStages
<1>6. /\ "body_string" \in RunningStages /\ "body_string" \notin HeaderStages
      /\ stage \notin HeaderStages
  BY <1>1 DEF RunningStages, ExpectStages, HeaderStages
<1>7. Expected({"CONTAINS"}, "body_string") \/ (~ Current({"CONTAINS"}) /\ Fail)
  BY DEF BodyContains, Consume
<1>8. Part \in 1 .. 3 /\ (Expected({"CONTAINS"}, "body_string") => Part' = Part + 1 /\ StatementInv')
  BY <1>1, <1>5
<1> QED
  BY <1>1, <1>4, <1>6, <1>7, <1>8, ConsumeKeeps

LEMMA BodyStringKeeps == ASSUME ParserInv, BodyString PROVE ParserInv'
<1>1. stage = "body_string" /\ Running /\ Part = 3 /\ UNCHANGED memory
  BY DEF BodyString, Consume, Running, Part
<1>2. /\ Begins(read, finished + 1)
      /\ read[finished + 1] = "EXPECT" /\ plan # <<>>
      /\ Len(Last(plan).assertions) < MaxAssertions
      /\ read[finished + 2] = "BODY" /\ read[finished + 3] = "CONTAINS"
  BY <1>1 DEF ParserInv, StatementInv, ExpectStages
<1>3. Len(read) = finished + 4 /\ finished \in Nat /\ Last(read) = read[finished + 4]
  BY <1>1, ReadFacts
<1>4. Viable(read, Len(read)) <=> Last(read) = "STRING"
  <2>1. LineTree(read, finished + 1, Len(read)) <=> read[finished + 4] = "STRING"
    BY <1>2, <1>3, ParserAssumption DEF LineTree, OtherTokens, Ends, AssertionKinds
  <2> QED
    BY <1>1, <1>2, <1>3, <2>1, CurrentViable
<1>5. ASSUME Expected({"STRING"}, "body_assert") PROVE Part' = 4 /\ StatementInv'
  <2>1. Advance /\ Last(read) = "STRING" /\ stage' = "body_assert" /\ Part' = 4
    BY <1>5 DEF Expected, Current, Part
  <2>2. /\ finished' = finished /\ finished' \in Nat
        /\ Viable(read', previous') /\ Begins(read', finished' + 1)
        /\ \A i \in 1 .. 3 : read'[finished' + i] = read[finished + i]
        /\ read'[finished' + 4] = "STRING"
    BY <1>1, <1>4, <2>1, Inside
  <2>3. /\ plan' = plan
        /\ read'[finished' + 1] = read[finished + 1]
        /\ read'[finished' + 2] = read[finished + 2]
        /\ read'[finished' + 3] = read[finished + 3]
    BY <1>1, <1>2, <2>2 DEF memory
  <2> QED
    BY <1>2, <2>1, <2>2, <2>3 DEF StatementInv, ExpectStages
<1>6. /\ "body_assert" \in RunningStages /\ "body_assert" \notin HeaderStages
      /\ stage \notin HeaderStages
  BY <1>1 DEF RunningStages, ExpectStages, HeaderStages
<1>7. Expected({"STRING"}, "body_assert") \/ (~ Current({"STRING"}) /\ Fail)
  BY DEF BodyString, Consume
<1>8. Part \in 1 .. 3 /\ (Expected({"STRING"}, "body_assert") => Part' = Part + 1 /\ StatementInv')
  BY <1>1, <1>5
<1> QED
  BY <1>1, <1>4, <1>6, <1>7, <1>8, ConsumeKeeps

LEMMA HeaderKeyKeeps == ASSUME ParserInv, HeaderKey PROVE ParserInv'
<1>1. stage = "header_key" /\ Running /\ Part = 2 /\ UNCHANGED memory
  BY DEF HeaderKey, Consume, Running, Part
<1>2. /\ Begins(read, finished + 1)
      /\ read[finished + 1] = "EXPECT" /\ plan # <<>>
      /\ Len(Last(plan).assertions) < MaxAssertions
      /\ read[finished + 2] = "HEADER"
  BY <1>1 DEF ParserInv, StatementInv, ExpectStages
<1>3. Len(read) = finished + 3 /\ finished \in Nat /\ Last(read) = read[finished + 3]
  BY <1>1, ReadFacts
<1>4. Viable(read, Len(read)) <=> Last(read) = "IDENT"
  <2>1. LineTree(read, finished + 1, Len(read)) <=> read[finished + 3] = "IDENT"
    BY <1>2, <1>3, ParserAssumption DEF LineTree, OtherTokens, Ends, AssertionKinds
  <2> QED
    BY <1>1, <1>2, <1>3, <2>1, CurrentViable
<1>5. ASSUME Expected({"IDENT"}, "name_copy") PROVE Part' = 3 /\ StatementInv'
  <2>1. Advance /\ Last(read) = "IDENT" /\ stage' = "name_copy" /\ Part' = 3
    BY <1>5 DEF Expected, Current, Part
  <2>2. /\ finished' = finished /\ finished' \in Nat
        /\ Viable(read', previous') /\ Begins(read', finished' + 1)
        /\ \A i \in 1 .. 2 : read'[finished' + i] = read[finished + i]
        /\ read'[finished' + 3] = "IDENT"
    BY <1>1, <1>4, <2>1, Inside
  <2>3. /\ plan' = plan
        /\ read'[finished' + 1] = read[finished + 1]
        /\ read'[finished' + 2] = read[finished + 2]
    BY <1>1, <1>2, <2>2 DEF memory
  <2> QED
    BY <1>2, <2>1, <2>2, <2>3 DEF StatementInv, ExpectStages
<1>6. /\ "name_copy" \in RunningStages /\ "name_copy" \notin HeaderStages
      /\ stage \notin HeaderStages
  BY <1>1 DEF RunningStages, ExpectStages, HeaderStages
<1>7. Expected({"IDENT"}, "name_copy") \/ (~ Current({"IDENT"}) /\ Fail)
  BY DEF HeaderKey, Consume
<1>8. Part \in 1 .. 3 /\ (Expected({"IDENT"}, "name_copy") => Part' = Part + 1 /\ StatementInv')
  BY <1>1, <1>5
<1> QED
  BY <1>1, <1>4, <1>6, <1>7, <1>8, ConsumeKeeps

-----------------------------------------------------------------------------
(* The strings of the plan *)

\* The strings of a case, one by one.
LEMMA StringIn ==
    ASSUME NEW c, NEW x
    PROVE  x \in StringsOf(c) <=>
              /\ x # 0
              /\ \/ x = c.url
                 \/ x = c.body
                 \/ \E j \in DOMAIN c.assertions :
                       /\ c.assertions[j].kind # "status"
                       /\ x \in {c.assertions[j].key, c.assertions[j].value}
BY DEF StringsOf

\* The strings of the cases, case by case.
LEMMA StringReachable ==
    ASSUME NEW cases, NEW x
    PROVE  x \in Reachable(cases) <=> \E k \in DOMAIN cases : x \in StringsOf(cases[k])
BY DEF Reachable

\* Only the last case changes.
LEMMA ReachableLast ==
    ASSUME NEW cases \in Seq(Cases), cases # <<>>, NEW new \in Seq(Cases),
           Len(new) = Len(cases), \A k \in 1 .. Len(cases) - 1 : new[k] = cases[k],
           NEW x
    PROVE  x \in Reachable(new) <=>
              \/ \E k \in 1 .. Len(cases) - 1 : x \in StringsOf(cases[k])
              \/ x \in StringsOf(new[Len(cases)])
<1>1. DOMAIN new = 1 .. Len(cases) /\ Len(cases) \in Nat \ {0}
  OBVIOUS
<1> QED
  BY <1>1, StringReachable

\* A new case adds its own strings.
LEMMA ReachableAppend ==
    ASSUME NEW cases \in Seq(Cases), NEW c \in Cases
    PROVE  Reachable(Append(cases, c)) = Reachable(cases) \cup StringsOf(c)
<1>1. PICK new : new = Append(cases, c)
  OBVIOUS
<1>2. /\ Len(cases) \in Nat /\ DOMAIN cases = 1 .. Len(cases)
      /\ DOMAIN new = 1 .. Len(cases) + 1 /\ new[Len(cases) + 1] = c
      /\ \A k \in DOMAIN cases : new[k] = cases[k]
  BY <1>1
<1>3. \A x : x \in Reachable(new) <=> x \in Reachable(cases) \/ x \in StringsOf(c)
  BY <1>2, StringReachable
<1> QED
  BY <1>1, <1>3

\* A new assertion adds its own strings.
LEMMA AssertionStrings ==
    ASSUME NEW c, NEW d, NEW as \in Seq(Assertions), NEW a \in Assertions, NEW x,
           as = c.assertions, d.assertions = Append(as, a), d.url = c.url, d.body = c.body
    PROVE  x \in StringsOf(d) <=>
              \/ x \in StringsOf(c)
              \/ x # 0 /\ a.kind # "status" /\ x \in {a.key, a.value}
<1>1. PICK more : more = Append(as, a)
  OBVIOUS
<1>2. /\ DOMAIN more = DOMAIN as \cup {Len(as) + 1}
      /\ more[Len(as) + 1] = a /\ \A j \in DOMAIN as : more[j] = as[j]
  BY <1>1
<1>3. (\E j \in DOMAIN more : more[j].kind # "status" /\ x \in {more[j].key, more[j].value})
         <=> \/ \E j \in DOMAIN as :
                   as[j].kind # "status" /\ x \in {as[j].key, as[j].value}
             \/ a.kind # "status" /\ x \in {a.key, a.value}
  BY <1>2
<1>4. x \in StringsOf(d) <=>
         /\ x # 0
         /\ \/ x = d.url
            \/ x = d.body
            \/ \E j \in DOMAIN d.assertions :
                  /\ d.assertions[j].kind # "status"
                  /\ x \in {d.assertions[j].key, d.assertions[j].value}
  BY StringIn
<1>5. x \in StringsOf(c) <=>
         /\ x # 0
         /\ \/ x = c.url
            \/ x = c.body
            \/ \E j \in DOMAIN as : as[j].kind # "status" /\ x \in {as[j].key, as[j].value}
  BY StringIn
<1> QED
  BY <1>1, <1>3, <1>4, <1>5

\* The body of a case is a string of its own.
LEMMA BodyIsAlone ==
    ASSUME ParserInv, Running, NEW k \in DOMAIN plan, plan[k].body # 0, NEW m \in DOMAIN plan,
           \/ plan[k].body = plan[m].url
           \/ plan[k].body = plan[m].body /\ k # m
           \/ \E j \in DOMAIN plan[m].assertions :
                 plan[k].body \in {plan[m].assertions[j].key, plan[m].assertions[j].value}
    PROVE  FALSE
<1>1. OwnTokens(read, plan)
  BY OwnTokensStay
<1>2. read[plan[k].body] = "BODY_RAW"
  BY <1>1 DEF OwnTokens
<1>3. CASE plan[k].body = plan[m].url
  BY <1>1, <1>2, <1>3 DEF OwnTokens
<1>4. CASE plan[k].body = plan[m].body /\ k # m
  <2>1. CaseMeans(plan, read, finished, k) /\ CaseMeans(plan, read, finished, m)
    BY DEF ParserInv, PlanInv, Means
  <2>2. /\ plan[k].body - 1 \in Said(plan, read, finished, k, "BODY_STMT")
        /\ plan[k].body - 1 \in Said(plan, read, finished, m, "BODY_STMT")
    BY <1>4, <2>1 DEF CaseMeans
  <2>3. \A q \in DOMAIN plan : q <= k <=> q <= m
    BY <2>2 DEF Said
  <2>4. k \in Nat /\ m \in Nat
    BY DEF ParserInv, ParserTypeOK
  <2> QED
    BY <1>4, <2>3, <2>4
<1>5. ASSUME NEW j \in DOMAIN plan[m].assertions,
             plan[k].body \in {plan[m].assertions[j].key, plan[m].assertions[j].value}
      PROVE  FALSE
  BY <1>1, <1>2, <1>5 DEF OwnTokens
<1> QED
  BY <1>3, <1>4, <1>5

\* A new body frees the old one and no other (dsl_parser.c:301-311).
LEMMA ReachableBody ==
    ASSUME ParserInv, Running, plan # <<>>, NEW x \in Nat,
           NEW new, new = [plan EXCEPT ![Len(plan)].body = x]
    PROVE  /\ new \in Seq(Cases) /\ Len(new) = Len(plan)
           /\ \A k \in 1 .. Len(plan) - 1 : new[k] = plan[k]
           /\ new[Len(plan)].assertions = plan[Len(plan)].assertions
           /\ Reachable(new) = (Reachable(plan) \ {plan[Len(plan)].body}) \cup ({x} \ {0})
<1>0. plan \in Seq(Cases)
  BY DEF ParserInv, ParserTypeOK
<1>1. PICK end \in DOMAIN plan : end = Len(plan) /\ end \in Nat \ {0} /\ DOMAIN plan = 1 .. end
  BY <1>0
<1>2. plan[end] \in Cases /\ new[end] = [plan[end] EXCEPT !.body = x]
  BY <1>0, <1>1
<1>3. /\ new[end] \in Cases /\ new[end].url = plan[end].url /\ new[end].body = x
      /\ new[end].assertions = plan[end].assertions
  BY <1>2 DEF Cases
<1>4. /\ new \in Seq(Cases) /\ Len(new) = end
      /\ \A k \in 1 .. end - 1 : new[k] = plan[k]
  <2>1. new = [plan EXCEPT ![end] = new[end]]
    BY <1>0, <1>1
  <2> QED
    BY <1>0, <1>1, <1>3, <2>1
<1>5. plan[end].body \in Nat /\ plan[end].url \in Nat
  BY <1>0, <1>1, CaseTypes
<1>6. ASSUME NEW y
      PROVE  y \in StringsOf(new[end]) <=>
                \/ y \in StringsOf(plan[end]) /\ y # plan[end].body
                \/ y = x /\ y # 0
  <2>1. y \in StringsOf(new[end]) <=>
           /\ y # 0
           /\ \/ y = plan[end].url
              \/ y = x
              \/ \E j \in DOMAIN plan[end].assertions :
                    /\ plan[end].assertions[j].kind # "status"
                    /\ y \in {plan[end].assertions[j].key, plan[end].assertions[j].value}
    <3>1. y \in StringsOf(new[end]) <=>
             /\ y # 0
             /\ \/ y = new[end].url
                \/ y = new[end].body
                \/ \E j \in DOMAIN new[end].assertions :
                      /\ new[end].assertions[j].kind # "status"
                      /\ y \in {new[end].assertions[j].key, new[end].assertions[j].value}
      BY StringIn
    <3> QED
      BY <1>3, <3>1
  <2>2. y \in StringsOf(plan[end]) <=>
           /\ y # 0
           /\ \/ y = plan[end].url
              \/ y = plan[end].body
              \/ \E j \in DOMAIN plan[end].assertions :
                    /\ plan[end].assertions[j].kind # "status"
                    /\ y \in {plan[end].assertions[j].key, plan[end].assertions[j].value}
    BY StringIn
  <2>3. plan[end].body # 0 =>
           /\ plan[end].body # plan[end].url
           /\ \A j \in DOMAIN plan[end].assertions : plan[end].body \notin
                 {plan[end].assertions[j].key, plan[end].assertions[j].value}
    BY BodyIsAlone
  <2> QED
    BY <2>1, <2>2, <2>3
<1>7. ASSUME NEW y, NEW k \in 1 .. end - 1, y \in StringsOf(plan[k])
      PROVE  y # plan[end].body
  <2>1. k \in DOMAIN plan /\ k # end
    BY <1>1
  <2>2. y # 0
    BY <1>7, StringIn
  <2>3. y = plan[end].body => ~ (y = plan[k].url \/ y = plan[k].body)
    BY <2>1, <2>2, BodyIsAlone
  <2>4. y = plan[end].body => \A j \in DOMAIN plan[k].assertions :
           y \notin {plan[k].assertions[j].key, plan[k].assertions[j].value}
    BY <2>1, <2>2, BodyIsAlone
  <2> QED
    BY <1>7, <2>3, <2>4, StringIn
<1>8. ASSUME NEW y
      PROVE  y \in Reachable(new) <=>
                \/ y \in Reachable(plan) /\ y # plan[end].body
                \/ y = x /\ y # 0
  <2>1. y \in Reachable(new) <=>
           \/ \E k \in 1 .. end - 1 : y \in StringsOf(plan[k])
           \/ y \in StringsOf(new[end])
    BY <1>0, <1>1, <1>4, ReachableLast
  <2>2. y \in Reachable(plan) <=>
           \/ \E k \in 1 .. end - 1 : y \in StringsOf(plan[k])
           \/ y \in StringsOf(plan[end])
    BY <1>0, <1>1, ReachableLast
  <2> QED
    BY <1>6, <1>7, <2>1, <2>2
<1>9. Reachable(new) = (Reachable(plan) \ {plan[end].body}) \cup ({x} \ {0})
  <2>1. ASSUME NEW y
        PROVE  y \in Reachable(new)
                  <=> y \in (Reachable(plan) \ {plan[end].body}) \cup ({x} \ {0})
    BY <1>8
  <2> QED
    BY <2>1
<1> QED
  BY <1>1, <1>3, <1>4, <1>9

-----------------------------------------------------------------------------
(* A string is copied *)

\* What the invariant says of the plan, in a state where the parser runs.
LEMMA PlanFacts ==
    ASSUME ParserInv, Running
    PROVE  /\ plan \in Seq(Cases) /\ Len(plan) \in Nat /\ Len(plan) <= MaxCases
           /\ DOMAIN plan = 1 .. Len(plan)
           /\ \A k \in DOMAIN plan : Len(plan[k].assertions) <= MaxAssertions
           /\ Means(plan, read, finished) /\ OwnTokens(read, plan)
           /\ stage \notin HeaderStages => header_name = 0 /\ copied = Reachable(plan)
           /\ stage \in HeaderStages => header_name = finished + 3
           /\ copied = Reachable(plan) \cup ({header_name} \ {0})
           /\ copied \subseteq 1 .. Len(read) /\ oom \in BOOLEAN
<1>1. plan \in Seq(Cases)
  BY DEF ParserInv, ParserTypeOK
<1>2. Len(plan) \in Nat /\ DOMAIN plan = 1 .. Len(plan)
  BY <1>1
<1>3. stage \notin HeaderStages => header_name = 0 /\ copied = Reachable(plan)
  BY DEF ParserInv, CopiedInv, HeaderStages, NoStringLost
<1>4. stage \in HeaderStages => header_name = finished + 3
  BY DEF ParserInv, CopiedInv, HeaderStages
<1>5. OwnTokens(read, plan)
  BY OwnTokensStay
<1>6. Means(plan, read, finished)
  BY DEF ParserInv, PlanInv
<1> QED
  BY <1>1, <1>2, <1>3, <1>4, <1>5, <1>6 DEF ParserInv, ParserTypeOK, NoStringLost

\* A copied string completes its line.
LEMMA CopyEnds ==
    ASSUME ParserInv, Running, UNCHANGED <<parserVars, oom>>, stage' = "statement_end",
           Viable(read, Len(read)) <=> Last(read) \in Ends,
           plan' \in Seq(Cases), Len(plan') <= MaxCases,
           \A k \in DOMAIN plan' : Len(plan'[k].assertions) <= MaxAssertions,
           Means(plan', read, previous), OwnTokens(read, plan'),
           header_name' = 0, copied' \subseteq 1 .. Len(read), copied' = Reachable(plan')
    PROVE  ParserInv'
<1>1. /\ read' = read /\ had_error' = had_error /\ error_at' = error_at /\ oom' = oom
      /\ Running'
  BY DEF parserVars, Running
<1>2. ParserTypeOK
  BY DEF ParserInv
<1>3. read \in Seq(Tokens) /\ Len(read) \in Nat \ {0}
  BY ReadFacts
<1>4. ParserTypeOK'
  <2>1. header_name' \in 0 .. Len(read') /\ copied' \subseteq 1 .. Len(read')
    BY <1>1, <1>3
  <2> QED
    BY <1>1, <1>2, <2>1 DEF ParserTypeOK
<1>5. ErrorInv'
  BY <1>1 DEF ParserInv, ErrorInv
<1>6. previous' = previous /\ finished' = previous /\ previous \in Nat
  BY <1>1, <1>3, ReadFacts DEF finished, previous, Part
<1>7. StatementInv'
  BY <1>1, <1>6 DEF StatementInv, ExpectStages, ParserInv, Ends
<1>8. PlanInv'
  <2>1. Means(plan', read', finished')
    BY <1>1, <1>6
  <2> QED
    BY <2>1 DEF PlanInv
<1>9. CopiedInv'
  BY <1>1 DEF CopiedInv, OwnTokens
<1>10. NoStringLost'
  <2>1. Reachable(plan)' = Reachable(plan')
    BY DEF Reachable, StringsOf
  <2> QED
    BY <2>1 DEF NoStringLost
<1>11. PlanIsMeaning' /\ ErrorAtFirstBadToken'
  BY DEF PlanIsMeaning, ErrorAtFirstBadToken
<1> QED
  BY <1>4, <1>5, <1>7, <1>8, <1>9, <1>10, <1>11 DEF ParserInv

\* strdup fails (dsl_parser.c:306-309, 359-362, 543-546).
LEMMA OutOfMemoryKeeps ==
    ASSUME ParserInv, Running, OutOfMemory,
           plan' \in Seq(Cases), Len(plan') <= MaxCases,
           \A k \in DOMAIN plan' : Len(plan'[k].assertions) <= MaxAssertions,
           header_name' = 0, copied' \subseteq copied, copied' = Reachable(plan')
    PROVE  ParserInv'
BY FailKeeps DEF OutOfMemory

LEMMA RequestCopyKeeps == ASSUME ParserInv, RequestCopy PROVE ParserInv'
<1>1. stage = "request_copy" /\ Running /\ Part = 2 /\ stage \notin HeaderStages
  BY DEF RequestCopy, Running, Part, HeaderStages
<1>2. /\ Begins(read, finished + 1) /\ read[finished + 1] \in Methods
      /\ read[finished + 2] = "IDENT" /\ Len(plan) < MaxCases
  BY <1>1 DEF ParserInv, StatementInv
<1>3. PICK b \in Nat \ {0} : b = finished + 1 /\ finished = b - 1
  BY <1>1, ReadFacts
<1>4. Len(read) = b + 2 /\ previous = b + 1 /\ Last(read) = read[b + 2]
  <2>1. /\ Len(read) = finished + 3 /\ previous = Len(read) - 1
        /\ Last(read) = read[Len(read)]
    BY <1>1, ReadFacts
  <2> QED
    BY <1>3, <2>1
<1>5. Viable(read, Len(read)) <=> Last(read) \in Ends
  <2>1. LineTree(read, b, Len(read)) <=> read[b + 2] \in Ends
    BY <1>2, <1>3, <1>4, ParserAssumption DEF LineTree, OtherTokens, Ends
  <2> QED
    BY <1>1, <1>2, <1>3, <1>4, <2>1, CurrentViable
<1> DEFINE new == [method |-> read[b], url |-> b + 1, body |-> 0, assertions |-> <<>>]
<1>6. ASSUME plan' = Append(plan, new), copied' = copied \cup {b + 1},
             stage' = "statement_end", UNCHANGED <<parserVars, oom, header_name>>
      PROVE  ParserInv'
  <2>1. new \in Cases /\ new.url = b + 1 /\ new.body = 0 /\ new.assertions = <<>>
    BY <1>2, <1>3 DEF Cases
  <2>2. Means(plan', read, b + 1)
    <3>1. Means(plan, read, b - 1) /\ read[b + 1] \notin Keywords
      BY <1>1, <1>2, <1>3, PlanFacts, ParserAssumption DEF Keywords, OtherTokens
    <3> QED
      BY <1>1, <1>2, <1>3, <1>6, <3>1, PlanFacts, MeansRequest
  <2> HIDE DEF new
  <2>3. /\ plan' \in Seq(Cases) /\ DOMAIN plan' = 1 .. Len(plan) + 1
        /\ Len(plan') = Len(plan) + 1
        /\ plan'[Len(plan) + 1] = new /\ \A k \in DOMAIN plan : plan'[k] = plan[k]
    BY <1>1, <1>6, <2>1, PlanFacts
  <2>4. \A k \in DOMAIN plan' : k \in DOMAIN plan \/ k = Len(plan) + 1
    BY <1>1, <2>3, PlanFacts
  <2>5. OwnTokens(read, plan')
    <3>1. OwnTokens(read, plan) /\ read[b + 1] = "IDENT"
      BY <1>1, <1>2, <1>3, PlanFacts
    <3> QED
      BY <2>1, <2>3, <2>4, <3>1 DEF OwnTokens
  <2>6. Reachable(plan') = Reachable(plan) \cup {b + 1}
    <3>1. StringsOf(new) = {b + 1}
      BY <1>3, <2>1 DEF StringsOf
    <3> QED
      BY <1>1, <1>6, <2>1, <3>1, PlanFacts, ReachableAppend
  <2>7. copied' = Reachable(plan') /\ copied' \subseteq 1 .. Len(read) /\ header_name' = 0
    BY <1>1, <1>3, <1>4, <1>6, <2>6, PlanFacts
  <2>8. Len(plan') <= MaxCases
    BY <1>1, <1>2, <2>3, PlanFacts, ParserAssumption
  <2>9. \A k \in DOMAIN plan' : Len(plan'[k].assertions) <= MaxAssertions
    <3>1. Len(new.assertions) <= MaxAssertions
      BY <2>1, ParserAssumption
    <3> QED
      BY <1>1, <2>3, <2>4, <3>1, PlanFacts
  <2> QED
    BY <1>1, <1>4, <1>5, <1>6, <2>2, <2>3, <2>5, <2>7, <2>8, <2>9, CopyEnds
<1>7. ASSUME OutOfMemory, UNCHANGED <<plan, copied, header_name>> PROVE ParserInv'
  <2>1. plan' = plan /\ copied' = copied /\ header_name' = 0 /\ copied' = Reachable(plan')
    BY <1>1, <1>7, PlanFacts
  <2> QED
    BY <1>1, <1>7, <2>1, PlanFacts, OutOfMemoryKeeps
<1>8. read[previous - 1] = read[b] /\ previous = b + 1
  BY <1>4
<1> QED
  BY <1>6, <1>7, <1>8 DEF RequestCopy

LEMMA BodyCopyKeeps == ASSUME ParserInv, BodyCopy PROVE ParserInv'
<1>1. stage = "body_copy" /\ Running /\ Part = 2 /\ stage \notin HeaderStages
  BY DEF BodyCopy, Running, Part, HeaderStages
<1>2. /\ Begins(read, finished + 1) /\ read[finished + 1] = "BODY_STMT"
      /\ read[finished + 2] = "BODY_RAW" /\ plan # <<>>
  BY <1>1 DEF ParserInv, StatementInv
<1>3. PICK b \in Nat \ {0} : b = finished + 1 /\ finished = b - 1
  BY <1>1, ReadFacts
<1>4. Len(read) = b + 2 /\ previous = b + 1 /\ Last(read) = read[b + 2]
  <2>1. /\ Len(read) = finished + 3 /\ previous = Len(read) - 1
        /\ Last(read) = read[Len(read)]
    BY <1>1, ReadFacts
  <2> QED
    BY <1>3, <2>1
<1>5. Viable(read, Len(read)) <=> Last(read) \in Ends
  <2>1. LineTree(read, b, Len(read)) <=> read[b + 2] \in Ends
    BY <1>2, <1>3, <1>4, ParserAssumption DEF LineTree, OtherTokens, Ends
  <2> QED
    BY <1>1, <1>2, <1>3, <1>4, <2>1, CurrentViable
<1>6. PICK end \in DOMAIN plan : end = Len(plan) /\ end \in Nat \ {0} /\ DOMAIN plan = 1 .. end
  BY <1>1, <1>2, PlanFacts
<1>7. Last(plan) = plan[end] /\ plan[end].body \in Nat
  BY <1>1, <1>6, PlanFacts, CaseTypes DEF Last
<1>8. ASSUME NEW x \in Nat, SetBody(x)
      PROVE  /\ plan' \in Seq(Cases) /\ Len(plan') = end /\ DOMAIN plan' = 1 .. end
             /\ \A k \in 1 .. end - 1 : plan'[k] = plan[k]
             /\ plan'[end].assertions = plan[end].assertions
             /\ Reachable(plan') = (copied \ {Last(plan).body}) \cup ({x} \ {0})
             /\ Len(plan') <= MaxCases
             /\ \A k \in DOMAIN plan' : Len(plan'[k].assertions) <= MaxAssertions
  <2>1. /\ plan' \in Seq(Cases) /\ Len(plan') = end
        /\ \A k \in 1 .. end - 1 : plan'[k] = plan[k]
        /\ plan'[end].assertions = plan[end].assertions
        /\ Reachable(plan') = (Reachable(plan) \ {plan[end].body}) \cup ({x} \ {0})
    BY <1>1, <1>2, <1>6, <1>8, ReachableBody DEF SetBody
  <2>2. DOMAIN plan' = 1 .. end
    BY <1>6, <2>1
  <2>3. \A k \in DOMAIN plan' : Len(plan'[k].assertions) <= MaxAssertions
    BY <1>1, <1>6, <2>1, <2>2, PlanFacts
  <2> QED
    BY <1>1, <1>6, <1>7, <2>1, <2>2, <2>3, PlanFacts
<1>9. ASSUME SetBody(previous), copied' = (copied \ {Last(plan).body}) \cup {previous},
             stage' = "statement_end", UNCHANGED <<parserVars, oom, header_name>>
      PROVE  ParserInv'
  <2>1. SetBody(b + 1) /\ b + 1 \in Nat
    BY <1>3, <1>4, <1>9
  <2>2. Means(plan', read, b + 1)
    <3>1. Means(plan, read, b - 1) /\ plan \in Seq(Cases)
      BY <1>1, <1>3, PlanFacts
    <3>2. read[b] = "BODY_STMT" /\ read[b + 1] \notin Keywords
      BY <1>2, <1>3, ParserAssumption DEF Keywords, OtherTokens
    <3> QED
      BY <1>2, <2>1, <3>1, <3>2, MeansBody DEF SetBody
  <2>3. plan'[end].body = b + 1 /\ plan'[end].url = plan[end].url
    <3>1. plan[end] \in Cases /\ plan'[end] = [plan[end] EXCEPT !.body = b + 1]
      BY <1>1, <1>6, <2>1, PlanFacts DEF SetBody
    <3> QED
      BY <3>1 DEF Cases
  <2>4. OwnTokens(read, plan')
    <3>1. OwnTokens(read, plan) /\ read[b + 1] = "BODY_RAW"
      BY <1>1, <1>2, <1>3, PlanFacts
    <3>2. \A k \in DOMAIN plan' : k = end \/ (k \in 1 .. end - 1 /\ k \in DOMAIN plan)
      BY <1>6, <1>8, <2>1
    <3> QED
      BY <1>6, <1>8, <2>1, <2>3, <3>1, <3>2 DEF OwnTokens
  <2>5. copied' = Reachable(plan') /\ copied' \subseteq 1 .. Len(read) /\ header_name' = 0
    BY <1>1, <1>3, <1>4, <1>8, <1>9, <2>1, PlanFacts
  <2> QED
    BY <1>1, <1>4, <1>5, <1>8, <1>9, <2>1, <2>2, <2>4, <2>5, CopyEnds
<1>10. ASSUME SetBody(0), copied' = copied \ {Last(plan).body}, OutOfMemory,
              UNCHANGED header_name
       PROVE  ParserInv'
  <2>1. copied' = Reachable(plan') /\ copied' \subseteq copied /\ header_name' = 0
    BY <1>1, <1>8, <1>10, PlanFacts
  <2> QED
    BY <1>1, <1>8, <1>10, <2>1, OutOfMemoryKeeps
<1> QED
  BY <1>9, <1>10 DEF BodyCopy

-----------------------------------------------------------------------------
(* Assertions *)

\* The last case gets an assertion and nothing else changes (dsl_parser.c:467-475).
LEMMA AddAssertionShape ==
    ASSUME NEW end \in Nat \ {0}, end = Len(plan), plan \in Seq(Cases),
           NEW a \in Assertions, AddAssertion(a)
    PROVE  /\ plan' \in Seq(Cases) /\ Len(plan') = end /\ DOMAIN plan' = 1 .. end
           /\ \A k \in 1 .. end - 1 : k \in DOMAIN plan /\ plan'[k] = plan[k]
           /\ end \in DOMAIN plan
           /\ plan'[end].url = plan[end].url /\ plan'[end].body = plan[end].body
           /\ plan[end].assertions \in Seq(Assertions)
           /\ plan'[end].assertions = Append(plan[end].assertions, a)
<1>1. end \in DOMAIN plan /\ DOMAIN plan = 1 .. end
  OBVIOUS
<1>2. PICK c \in Cases : c = plan[end]
  BY <1>1
<1>3. c.assertions \in Seq(Assertions)
  BY DEF Cases
<1>4. PICK more \in Seq(Assertions) : more = Append(c.assertions, a)
  <2>1. PICK as \in Seq(Assertions) : as = c.assertions
    BY <1>3
  <2>2. Append(as, a) \in Seq(Assertions)
    BY AppendProperties
  <2> QED
    BY <2>1, <2>2
<1>5. plan' = [plan EXCEPT ![end] = [c EXCEPT !.assertions = more]]
  BY <1>2, <1>4 DEF AddAssertion
<1>6. PICK d : d = [c EXCEPT !.assertions = more]
  OBVIOUS
<1>7. d \in Cases /\ d.url = c.url /\ d.body = c.body /\ d.assertions = more
  BY <1>6 DEF Cases
<1>8. plan' = [plan EXCEPT ![end] = d]
  BY <1>5, <1>6
<1>9. plan' \in Seq(Cases) /\ Len(plan') = end
  BY <1>1, <1>7, <1>8
<1>10. plan'[end] = d /\ \A k \in 1 .. end - 1 : k \in DOMAIN plan /\ plan'[k] = plan[k]
  BY <1>1, <1>8
<1> QED
  BY <1>1, <1>2, <1>3, <1>4, <1>7, <1>9, <1>10

\* A new assertion keeps the limits and adds its own strings.
LEMMA AddAssertionFacts ==
    ASSUME ParserInv, Running, plan # <<>>, NEW a \in Assertions, AddAssertion(a),
           Len(Last(plan).assertions) < MaxAssertions
    PROVE  /\ plan' \in Seq(Cases) /\ Len(plan') <= MaxCases
           /\ \A k \in DOMAIN plan' : Len(plan'[k].assertions) <= MaxAssertions
           /\ Reachable(plan') = Reachable(plan) \cup
                 ((IF a.kind = "status" THEN {} ELSE {a.key, a.value}) \ {0})
<1>1. PICK end \in Nat \ {0} : end = Len(plan)
  <2>1. plan \in Seq(Cases)
    BY PlanFacts
  <2> QED
    BY <2>1
<1>2. plan \in Seq(Cases)
  BY PlanFacts
<1>3. /\ plan' \in Seq(Cases) /\ Len(plan') = end /\ DOMAIN plan' = 1 .. end
      /\ \A k \in 1 .. end - 1 : k \in DOMAIN plan /\ plan'[k] = plan[k]
      /\ end \in DOMAIN plan
      /\ plan'[end].url = plan[end].url /\ plan'[end].body = plan[end].body
      /\ plan[end].assertions \in Seq(Assertions)
      /\ plan'[end].assertions = Append(plan[end].assertions, a)
  BY <1>1, <1>2, AddAssertionShape
<1>4. Len(plan'[end].assertions) <= MaxAssertions
  <2>1. Len(plan[end].assertions) < MaxAssertions
    BY <1>1 DEF Last
  <2>2. Len(plan'[end].assertions) = Len(plan[end].assertions) + 1
    BY <1>3
  <2>3. Len(plan[end].assertions) \in Nat
    BY <1>3
  <2> QED
    BY <2>1, <2>2, <2>3, ParserAssumption
<1>5. \A k \in DOMAIN plan' : Len(plan'[k].assertions) <= MaxAssertions
  BY <1>3, <1>4, PlanFacts
<1>6. PICK new \in Seq(Cases) : new = plan'
  BY <1>3
<1>7. PICK as \in Seq(Assertions) : as = plan[end].assertions
  BY <1>3
<1>8. Reachable(new) = Reachable(plan) \cup
         ((IF a.kind = "status" THEN {} ELSE {a.key, a.value}) \ {0})
  <2>1. ASSUME NEW x
        PROVE  x \in Reachable(new) <=>
                  \/ x \in Reachable(plan)
                  \/ x # 0 /\ a.kind # "status" /\ x \in {a.key, a.value}
    <3>1. x \in Reachable(new) <=>
             \/ \E k \in 1 .. end - 1 : x \in StringsOf(plan[k])
             \/ x \in StringsOf(new[end])
      BY <1>1, <1>2, <1>3, <1>6, ReachableLast
    <3>2. x \in Reachable(plan) <=>
             \/ \E k \in 1 .. end - 1 : x \in StringsOf(plan[k])
             \/ x \in StringsOf(plan[end])
      BY <1>1, <1>2, ReachableLast
    <3>3. /\ as = plan[end].assertions /\ new[end].assertions = Append(as, a)
          /\ new[end].url = plan[end].url /\ new[end].body = plan[end].body
      BY <1>3, <1>6, <1>7
    <3>4. x \in StringsOf(new[end]) <=>
             \/ x \in StringsOf(plan[end])
             \/ x # 0 /\ a.kind # "status" /\ x \in {a.key, a.value}
      BY <1>7, <3>3, AssertionStrings
    <3> QED
      BY <3>1, <3>2, <3>4
  <2> QED
    BY <2>1
<1> QED
  BY <1>1, <1>3, <1>5, <1>6, <1>8, PlanFacts

\* A new assertion keeps the plan the meaning of its tokens.
LEMMA AddAssertionMeans ==
    ASSUME ParserInv, Running, plan # <<>>, NEW a \in Assertions, AddAssertion(a), Part # 0,
           NEW s, \A i \in 1 .. Len(read) : s[i] = read[i],
           NEW n \in Nat, s[finished + 1] = "EXPECT",
           \A i \in finished + 2 .. n : s[i] \notin Keywords,
           a = AssertionOf(s, finished + 1), a.value <= n,
           a.key <= a.value, \A p \in {a.key, a.value} \ {0} : s[p] # "BODY_RAW"
    PROVE  Means(plan', s, n) /\ OwnTokens(s, plan')
<1>1. PICK end \in DOMAIN plan : end = Len(plan) /\ end \in Nat \ {0} /\ DOMAIN plan = 1 .. end
  BY PlanFacts
<1>2. PICK b \in Nat \ {0} : b = finished + 1 /\ finished = b - 1
  BY ReadFacts
<1>3. b < Len(read) /\ \A i \in 1 .. b : s[i] = read[i]
  BY <1>2, ReadFacts
<1>4. Means(plan, s, b - 1)
  <2>1. Means(plan, read, b - 1)
    BY <1>2, PlanFacts
  <2> QED
    BY <1>3, <2>1, MeansStays
<1>5. Means(plan', s, n)
  <2>1. \A i \in b + 1 .. n : s[i] \notin Keywords
    BY <1>2
  <2>2. s[b] = "EXPECT" /\ a = AssertionOf(s, b)
    BY <1>2
  <2> QED
    BY <1>4, <2>1, <2>2, PlanFacts, MeansExpect DEF AddAssertion
<1>6. OwnTokens(s, plan)
  BY <1>2, <1>3, OwnTokensStay
<1>7. plan \in Seq(Cases)
  BY PlanFacts
<1>8. /\ DOMAIN plan' = 1 .. end
      /\ \A k \in 1 .. end - 1 : k \in DOMAIN plan /\ plan'[k] = plan[k]
      /\ plan'[end].url = plan[end].url /\ plan'[end].body = plan[end].body
      /\ plan[end].assertions \in Seq(Assertions)
      /\ plan'[end].assertions = Append(plan[end].assertions, a)
  BY <1>1, <1>7, AddAssertionShape
<1>9. PICK as \in Seq(Assertions) : as = plan[end].assertions
  BY <1>8
<1>10. /\ plan'[end].url = plan[end].url /\ plan'[end].body = plan[end].body
       /\ plan'[end].assertions = Append(as, a)
  BY <1>8, <1>9
<1>11. /\ \A j \in DOMAIN Append(as, a) : j \in DOMAIN as \/ j = Len(as) + 1
       /\ \A j \in DOMAIN as : Append(as, a)[j] = as[j]
       /\ Append(as, a)[Len(as) + 1] = a
  BY <1>9
<1>12. ASSUME NEW j \in DOMAIN plan'[end].assertions
       PROVE  LET c == plan'[end].assertions[j]
              IN c.key <= c.value /\ \A p \in {c.key, c.value} \ {0} : s[p] # "BODY_RAW"
  <2>1. CASE j \in DOMAIN as
    BY <1>6, <1>9, <1>10, <1>11, <2>1 DEF OwnTokens
  <2>2. CASE j = Len(as) + 1
    BY <1>10, <1>11, <2>2
  <2> QED
    BY <1>10, <1>11, <2>1, <2>2
<1>13. ASSUME NEW k \in 1 .. end - 1
       PROVE  k \in DOMAIN plan /\ plan'[k] = plan[k]
  BY <1>1, <1>8
<1>14. OwnTokens(s, plan')
  <2>1. \A k \in DOMAIN plan' : k = end \/ k \in 1 .. end - 1
    BY <1>1, <1>8
  <2>2. ASSUME NEW k \in DOMAIN plan'
        PROVE  /\ s[plan'[k].url] = "IDENT"
               /\ plan'[k].body # 0 => s[plan'[k].body] = "BODY_RAW"
    BY <1>6, <1>10, <1>13, <2>1 DEF OwnTokens
  <2>3. ASSUME NEW k \in DOMAIN plan', NEW j \in DOMAIN plan'[k].assertions
        PROVE  LET c == plan'[k].assertions[j]
               IN c.key <= c.value /\ \A p \in {c.key, c.value} \ {0} : s[p] # "BODY_RAW"
    <3>1. CASE k = end
      BY <1>12, <3>1
    <3>2. CASE k \in 1 .. end - 1
      BY <1>6, <1>13, <3>2 DEF OwnTokens
    <3> QED
      BY <2>1, <3>1, <3>2
  <2> QED
    BY <2>2, <2>3 DEF OwnTokens
<1> QED
  BY <1>5, <1>14

LEMMA BodyAssertKeeps == ASSUME ParserInv, BodyAssert PROVE ParserInv'
<1>1. stage = "body_assert" /\ Running /\ Part = 4 /\ stage \notin HeaderStages
  BY DEF BodyAssert, Running, Part, HeaderStages
<1>2. /\ Begins(read, finished + 1) /\ read[finished + 1] = "EXPECT"
      /\ read[finished + 2] = "BODY" /\ read[finished + 3] = "CONTAINS"
      /\ read[finished + 4] = "STRING"
      /\ plan # <<>> /\ Len(Last(plan).assertions) < MaxAssertions
  BY <1>1 DEF ParserInv, StatementInv, ExpectStages
<1>3. /\ Len(read) = finished + 5 /\ previous = finished + 4 /\ finished \in Nat
      /\ Last(read) = read[finished + 5]
  BY <1>1, ReadFacts
<1>4. Viable(read, Len(read)) <=> Last(read) \in Ends
  <2>1. LineTree(read, finished + 1, Len(read)) <=> read[finished + 5] \in Ends
    BY <1>2, <1>3, ParserAssumption DEF LineTree, OtherTokens, Ends, AssertionKinds
  <2> QED
    BY <1>1, <1>2, <1>3, <2>1, CurrentViable
<1>5. ASSUME NEW a, a = Assertion("body", 0, previous), AddAssertion(a),
             copied' = copied \cup {previous},
             stage' = "statement_end", UNCHANGED <<parserVars, oom, header_name>>
      PROVE  ParserInv'
  <2>1. a \in Assertions /\ a.kind = "body" /\ a.key = 0 /\ a.value = finished + 4
    BY <1>3, <1>5 DEF Assertion, Assertions, Kinds
  <2>2. a = AssertionOf(read, finished + 1)
    BY <1>2, <1>3, <1>5 DEF AssertionOf
  <2>3. \A i \in finished + 2 .. previous : read[i] \notin Keywords
    BY <1>1, ConsumedTokens
  <2>4. Means(plan', read, previous) /\ OwnTokens(read, plan')
    BY <1>1, <1>2, <1>3, <1>5, <2>1, <2>2, <2>3, AddAssertionMeans
  <2>5. Reachable(plan') = Reachable(plan) \cup {previous}
    BY <1>1, <1>2, <1>3, <1>5, <2>1, AddAssertionFacts
  <2>6. copied' = Reachable(plan') /\ copied' \subseteq 1 .. Len(read) /\ header_name' = 0
    BY <1>1, <1>3, <1>5, <2>5, PlanFacts
  <2> QED
    BY <1>1, <1>2, <1>4, <1>5, <2>1, <2>4, <2>6, AddAssertionFacts, CopyEnds
<1>6. ASSUME NEW a, a = Assertion("body", 0, 0), AddAssertion(a), OutOfMemory,
             UNCHANGED <<copied, header_name>>
      PROVE  ParserInv'
  <2>1. a \in Assertions /\ a.kind = "body" /\ a.key = 0 /\ a.value = 0
    BY <1>6 DEF Assertion, Assertions, Kinds
  <2>2. Reachable(plan') = Reachable(plan)
    BY <1>1, <1>2, <1>6, <2>1, AddAssertionFacts
  <2>3. copied' = Reachable(plan') /\ copied' \subseteq copied /\ header_name' = 0
    BY <1>1, <1>6, <2>2, PlanFacts
  <2> QED
    BY <1>1, <1>2, <1>6, <2>1, <2>3, AddAssertionFacts, OutOfMemoryKeeps
<1> QED
  BY <1>5, <1>6 DEF BodyAssert

LEMMA NameCopyKeeps == ASSUME ParserInv, NameCopy PROVE ParserInv'
<1>1. stage = "name_copy" /\ Running /\ Part = 3 /\ stage \notin HeaderStages
  BY DEF NameCopy, Running, Part, HeaderStages
<1>2. Len(read) = finished + 4 /\ previous = finished + 3 /\ finished \in Nat
  BY <1>1, ReadFacts
<1>3. ASSUME copied' = copied \cup {previous}, header_name' = previous, stage' = "header_value",
             UNCHANGED <<parserVars, oom, plan>>
      PROVE  ParserInv'
  <2>1. /\ read' = read /\ had_error' = had_error /\ error_at' = error_at
        /\ oom' = oom /\ plan' = plan /\ Running' /\ Part' = 3
    BY <1>3 DEF parserVars, Running, Part
  <2>2. previous' = previous /\ finished' = finished
    BY <1>1, <2>1 DEF previous, finished
  <2>3. PICK m \in Nat : m = finished
    BY <1>2
  <2>4. Len(read) = m + 4 /\ header_name' = m + 3 /\ copied' = copied \cup {m + 3}
    BY <1>2, <1>3, <2>3
  <2>5. ParserTypeOK'
    <3>1. ParserTypeOK
      BY DEF ParserInv
    <3>2. copied' \subseteq 1 .. Len(read') /\ header_name' \in 0 .. Len(read')
      BY <2>1, <2>4, <3>1 DEF ParserTypeOK
    <3> QED
      BY <1>3, <2>1, <3>1, <3>2 DEF ParserTypeOK
  <2>6. ErrorInv'
    BY <1>1, <1>3, <2>1 DEF ParserInv, ErrorInv
  <2>7. StatementInv'
    BY <1>1, <1>3, <2>1, <2>2 DEF ParserInv, StatementInv, ExpectStages
  <2>8. PlanInv'
    BY <1>1, <2>1, <2>2 DEF ParserInv, PlanInv
  <2>9. CopiedInv'
    <3>1. header_name' = IF stage' \in HeaderStages THEN finished' + 3 ELSE 0
      BY <1>2, <1>3, <2>2 DEF HeaderStages
    <3>2. OwnTokens(read', plan')
      BY <1>1, <2>1, PlanFacts
    <3> QED
      BY <3>1, <3>2 DEF CopiedInv, OwnTokens, HeaderStages
  <2>10. NoStringLost'
    <3>1. copied' = Reachable(plan) \cup {m + 3} /\ {m + 3} \ {0} = {m + 3}
      BY <1>1, <2>4, PlanFacts
    <3>2. Reachable(plan)' = Reachable(plan)
      BY <2>1 DEF Reachable, StringsOf
    <3> QED
      BY <1>3, <2>4, <3>1, <3>2 DEF NoStringLost
  <2>11. PlanIsMeaning' /\ ErrorAtFirstBadToken'
    BY <1>3 DEF PlanIsMeaning, ErrorAtFirstBadToken
  <2> QED
    BY <2>5, <2>6, <2>7, <2>8, <2>9, <2>10, <2>11 DEF ParserInv
<1>4. ASSUME OutOfMemory, UNCHANGED <<plan, copied, header_name>> PROVE ParserInv'
  <2>1. plan' = plan /\ copied' = copied /\ header_name' = 0 /\ copied' = Reachable(plan')
    BY <1>1, <1>4, PlanFacts
  <2> QED
    BY <1>1, <1>4, <2>1, PlanFacts, OutOfMemoryKeeps
<1> QED
  BY <1>3, <1>4 DEF NameCopy

\* The name that HeaderValue and ValueCopy free on a failure is in no case.
LEMMA NameDropped ==
    ASSUME ParserInv, Running, stage \in HeaderStages, DropName, UNCHANGED plan
    PROVE  header_name' = 0 /\ copied' \subseteq copied /\ copied' = Reachable(plan')
<1>1. header_name = finished + 3 /\ finished \in Nat
      /\ copied = Reachable(plan) \cup ({header_name} \ {0})
  BY PlanFacts, ReadFacts
<1>2. ASSUME header_name \in Reachable(plan) PROVE FALSE
  <2>1. PICK k \in DOMAIN plan : header_name \in StringsOf(plan[k])
    BY <1>2, StringReachable
  <2>2. /\ header_name # 0
        /\ \/ header_name = plan[k].url
           \/ header_name = plan[k].body
           \/ \E j \in DOMAIN plan[k].assertions :
                 /\ plan[k].assertions[j].kind # "status"
                 /\ header_name \in {plan[k].assertions[j].key, plan[k].assertions[j].value}
    BY <2>1, StringIn
  <2>3. header_name \in 0 .. finished
    BY <1>1, <2>2, PlanPositions
  <2> QED
    BY <1>1, <2>3
<1>3. copied' = Reachable(plan) /\ header_name' = 0
  BY <1>1, <1>2 DEF DropName
<1>4. copied' = Reachable(plan')
  BY <1>3
<1> QED
  BY <1>1, <1>3, <1>4

LEMMA HeaderValueKeeps == ASSUME ParserInv, HeaderValue PROVE ParserInv'
<1>1. /\ stage = "header_value" /\ Running /\ Part = 3 /\ stage \in HeaderStages
      /\ plan' = plan /\ oom' = oom
  BY DEF HeaderValue, Running, Part, HeaderStages
<1> DEFINE types == {"IDENT", "STRING", "INT"}
<1>2. /\ Begins(read, finished + 1)
      /\ read[finished + 1] = "EXPECT" /\ plan # <<>>
      /\ Len(Last(plan).assertions) < MaxAssertions
      /\ read[finished + 2] = "HEADER" /\ read[finished + 3] = "IDENT"
  BY <1>1 DEF ParserInv, StatementInv, ExpectStages
<1>3. Len(read) = finished + 4 /\ finished \in Nat /\ Last(read) = read[finished + 4]
  BY <1>1, ReadFacts
<1>4. Viable(read, Len(read)) <=> Last(read) \in types
  <2>1. LineTree(read, finished + 1, Len(read)) <=> read[finished + 4] \in types
    BY <1>2, <1>3, ParserAssumption DEF LineTree, OtherTokens, Ends, AssertionKinds
  <2> QED
    BY <1>1, <1>2, <1>3, <2>1, CurrentViable
<1>5. ASSUME Expected(types, "value_copy"), UNCHANGED <<copied, header_name>> PROVE ParserInv'
  <2>1. Advance /\ Last(read) \in types /\ stage' = "value_copy" /\ Part' = 4
    BY <1>5 DEF Expected, Current, Part
  <2>2. /\ finished' = finished /\ finished' \in Nat
        /\ Viable(read', previous') /\ Begins(read', finished' + 1)
        /\ \A i \in 1 .. 3 : read'[finished' + i] = read[finished + i]
        /\ read'[finished' + 4] = Last(read)
    BY <1>1, <1>4, <2>1, Inside
  <2>3. /\ read'[finished' + 1] = read[finished + 1]
        /\ read'[finished' + 2] = read[finished + 2]
        /\ read'[finished' + 3] = read[finished + 3]
    BY <2>2
  <2>4. StatementInv'
    BY <1>1, <1>2, <2>1, <2>2, <2>3 DEF StatementInv, ExpectStages
  <2>5. /\ "value_copy" \in RunningStages /\ "value_copy" \in HeaderStages
        /\ UNCHANGED memory /\ Part \in 1 .. 3 /\ Part' = Part + 1 /\ "ERROR" \notin types
    BY <1>1, <1>5, <2>1 DEF RunningStages, ExpectStages, HeaderStages, memory
  <2>6. Viable(read, Len(read))
    BY <1>4, <2>1
  <2> QED
    BY <1>1, <1>5, <2>4, <2>5, <2>6, InsideKeeps
<1>6. ASSUME ~ Current(types), DropName, Fail PROVE ParserInv'
  <2>1. ~ Viable(read, Len(read))
    BY <1>1, <1>4, <1>6, ReadFacts DEF Current
  <2>2. header_name' = 0 /\ copied' \subseteq copied /\ copied' = Reachable(plan')
    BY <1>1, <1>6, NameDropped
  <2>3. /\ plan' \in Seq(Cases) /\ Len(plan') <= MaxCases /\ oom' \in BOOLEAN
        /\ \A k \in DOMAIN plan' : Len(plan'[k].assertions) <= MaxAssertions
    BY <1>1, PlanFacts
  <2> QED
    BY <1>1, <1>6, <2>1, <2>2, <2>3, FailKeeps
<1> QED
  BY <1>5, <1>6 DEF HeaderValue

LEMMA ValueCopyKeeps == ASSUME ParserInv, ValueCopy PROVE ParserInv'
<1>1. stage = "value_copy" /\ Running /\ Part = 4 /\ stage \in HeaderStages
  BY DEF ValueCopy, Running, Part, HeaderStages
<1>2. /\ Begins(read, finished + 1) /\ read[finished + 1] = "EXPECT"
      /\ read[finished + 2] = "HEADER" /\ read[finished + 3] = "IDENT"
      /\ read[finished + 4] \in {"IDENT", "STRING", "INT"}
      /\ plan # <<>> /\ Len(Last(plan).assertions) < MaxAssertions
  BY <1>1 DEF ParserInv, StatementInv, ExpectStages
<1>3. /\ Len(read) = finished + 5 /\ previous = finished + 4 /\ finished \in Nat
      /\ Last(read) = read[finished + 5]
  BY <1>1, ReadFacts
<1>4. Viable(read, Len(read)) <=> Last(read) \in Ends
  <2>1. LineTree(read, finished + 1, Len(read)) <=> read[finished + 5] \in Ends
    BY <1>2, <1>3, ParserAssumption DEF LineTree, OtherTokens, Ends, AssertionKinds
  <2> QED
    BY <1>1, <1>2, <1>3, <2>1, CurrentViable
<1>5. header_name = finished + 3 /\ copied = Reachable(plan) \cup {finished + 3}
  <2>1. {finished + 3} \ {0} = {finished + 3}
    BY <1>3
  <2> QED
    BY <1>1, <2>1, PlanFacts
<1>6. ASSUME NEW a, a = Assertion("header", header_name, previous), AddAssertion(a),
             copied' = copied \cup {previous}, header_name' = 0,
             stage' = "statement_end", UNCHANGED <<parserVars, oom>>
      PROVE  ParserInv'
  <2>1. a \in Assertions /\ a.kind = "header" /\ a.key = finished + 3 /\ a.value = finished + 4
    BY <1>3, <1>5, <1>6 DEF Assertion, Assertions, Kinds
  <2>2. a = AssertionOf(read, finished + 1)
    <3>1. PICK m \in Nat : m = finished
      BY <1>3
    <3>2. read[(m + 1) + 1] = "HEADER" /\ (m + 1) + 2 = m + 3 /\ (m + 1) + 3 = m + 4
      BY <1>2, <3>1
    <3>3. AssertionOf(read, m + 1) = Assertion("header", m + 3, m + 4)
      BY <3>2 DEF AssertionOf
    <3> QED
      BY <1>3, <1>5, <1>6, <3>1, <3>3
  <2>3. \A i \in finished + 2 .. previous : read[i] \notin Keywords
    BY <1>1, ConsumedTokens
  <2>4. Means(plan', read, previous) /\ OwnTokens(read, plan')
    <3>1. \A p \in {a.key, a.value} \ {0} : read[p] # "BODY_RAW"
      BY <1>2, <2>1
    <3>2. a.key <= a.value /\ a.value <= previous /\ previous \in Nat
      BY <1>3, <2>1
    <3> QED
      BY <1>1, <1>2, <1>6, <2>1, <2>2, <2>3, <3>1, <3>2, AddAssertionMeans, SMTT(30)
  <2>5. Reachable(plan') = Reachable(plan) \cup {finished + 3, finished + 4}
    BY <1>1, <1>2, <1>3, <1>6, <2>1, AddAssertionFacts
  <2>6. copied' = Reachable(plan') /\ copied' \subseteq 1 .. Len(read)
    BY <1>1, <1>3, <1>5, <1>6, <2>5, PlanFacts
  <2> QED
    BY <1>1, <1>2, <1>4, <1>6, <2>1, <2>4, <2>6, AddAssertionFacts, CopyEnds
<1>7. ASSUME DropName, OutOfMemory, UNCHANGED plan PROVE ParserInv'
  <2>1. header_name' = 0 /\ copied' \subseteq copied /\ copied' = Reachable(plan')
    BY <1>1, <1>7, NameDropped
  <2>2. /\ plan' \in Seq(Cases) /\ Len(plan') <= MaxCases
        /\ \A k \in DOMAIN plan' : Len(plan'[k].assertions) <= MaxAssertions
    BY <1>1, <1>7, PlanFacts
  <2> QED
    BY <1>1, <1>7, <2>1, <2>2, OutOfMemoryKeeps
<1> QED
  BY <1>6, <1>7 DEF ValueCopy

LEMMA ExpectKeeps == ASSUME ParserInv, Expect PROVE ParserInv'
<1>1. stage = "expect" /\ Running /\ Part = 1 /\ UNCHANGED memory /\ stage \notin HeaderStages
  BY DEF Expect, Running, Part, HeaderStages
<1>2. Begins(read, finished + 1) /\ read[finished + 1] = "EXPECT" /\ plan # <<>>
  BY <1>1 DEF ParserInv, StatementInv, ExpectStages
<1>3. Len(read) = finished + 2 /\ finished \in Nat /\ Last(read) = read[finished + 2]
  BY <1>1, ReadFacts
<1>4. Viable(read, Len(read)) <=> Last(read) \in AssertionKinds
  <2>1. LineTree(read, finished + 1, Len(read)) <=> read[finished + 2] \in AssertionKinds
    BY <1>2, <1>3, ParserAssumption DEF LineTree, OtherTokens, Ends, AssertionKinds
  <2> QED
    BY <1>1, <1>2, <1>3, <2>1, CurrentViable
<1>5. Len(Last(plan).assertions) \in Nat /\ Len(Last(plan).assertions) <= MaxAssertions
  <2>1. PICK end \in DOMAIN plan : end = Len(plan)
    BY <1>1, <1>2, PlanFacts
  <2>2. plan[end].assertions \in Seq(Assertions)
    BY <1>1, PlanFacts, CaseTypes
  <2>3. Last(plan) = plan[end]
    BY <2>1 DEF Last
  <2>4. Len(plan[end].assertions) \in Nat
    BY <2>2
  <2>5. Len(plan[end].assertions) <= MaxAssertions
    BY <1>1, PlanFacts
  <2> QED
    BY <2>3, <2>4, <2>5
<1>6. CASE Len(Last(plan).assertions) >= MaxAssertions
  <2>1. Fail
    BY <1>6 DEF Expect
  <2>2. Len(Last(plan).assertions) = MaxAssertions
    BY <1>5, <1>6, ParserAssumption
  <2>3. read[Len(read) - 1] = "EXPECT"
    BY <1>2, <1>3
  <2> QED
    BY <1>1, <2>1, <2>2, <2>3, FailHere
<1>7. CASE ~ (Len(Last(plan).assertions) >= MaxAssertions)
  <2>1. Len(Last(plan).assertions) < MaxAssertions
    BY <1>5, <1>7, ParserAssumption
  <2>2. ASSUME NEW type \in AssertionKinds,
               NEW next \in {"status_int", "body_contains", "header_key"},
               Expected({type}, next),
               \/ type = "STATUS" /\ next = "status_int"
               \/ type = "BODY" /\ next = "body_contains"
               \/ type = "HEADER" /\ next = "header_key"
        PROVE  ParserInv'
    <3>1. Advance /\ Last(read) = type /\ stage' = next /\ type # "ERROR"
      BY <2>2 DEF Expected, Current, AssertionKinds
    <3>2. Part' = 2
      BY <2>2, <3>1 DEF Part
    <3>3. /\ finished' = finished /\ finished' \in Nat
          /\ Viable(read', previous') /\ Begins(read', finished' + 1)
          /\ \A i \in 1 .. 1 : read'[finished' + i] = read[finished + i]
          /\ read'[finished' + 2] = type
      BY <1>1, <1>4, <2>2, <3>1, <3>2, Inside
    <3>4. plan' = plan /\ read'[finished' + 1] = read[finished + 1]
      BY <1>1, <3>3 DEF memory
    <3>5. StatementInv'
      <4>1. CASE type = "STATUS"
        BY <1>2, <2>1, <2>2, <3>1, <3>3, <3>4, <4>1 DEF StatementInv, ExpectStages
      <4>2. CASE type = "BODY"
        BY <1>2, <2>1, <2>2, <3>1, <3>3, <3>4, <4>2 DEF StatementInv, ExpectStages
      <4>3. CASE type = "HEADER"
        BY <1>2, <2>1, <2>2, <3>1, <3>3, <3>4, <4>3 DEF StatementInv, ExpectStages
      <4> QED
        BY <4>1, <4>2, <4>3 DEF AssertionKinds
    <3>6. /\ next \in RunningStages /\ next \notin HeaderStages
          /\ Part \in 1 .. 3 /\ Part' = Part + 1 /\ "ERROR" \notin {type}
      BY <1>1, <2>2, <3>1, <3>2 DEF RunningStages, ExpectStages, HeaderStages
    <3>7. Viable(read, Len(read))
      BY <1>4, <3>1
    <3> QED
      BY <1>1, <2>2, <3>5, <3>6, <3>7, InsideKeeps
  <2>3. ASSUME ~ Current(AssertionKinds), Fail PROVE ParserInv'
    <3>1. ~ Viable(read, Len(read))
      BY <1>1, <1>4, <2>3, ReadFacts DEF Current
    <3> QED
      BY <1>1, <2>3, <3>1, FailHere
  <2>4. \/ Expected({"STATUS"}, "status_int")
        \/ Expected({"BODY"}, "body_contains")
        \/ Expected({"HEADER"}, "header_key")
        \/ ~ Current(AssertionKinds) /\ Fail
    BY <1>7 DEF Expect
  <2>5. CASE Expected({"STATUS"}, "status_int")
    <3>1. "STATUS" \in AssertionKinds
      BY DEF AssertionKinds
    <3> QED
      BY <2>2, <2>5, <3>1
  <2>6. CASE Expected({"BODY"}, "body_contains")
    <3>1. "BODY" \in AssertionKinds
      BY DEF AssertionKinds
    <3> QED
      BY <2>2, <2>6, <3>1
  <2>7. CASE Expected({"HEADER"}, "header_key")
    <3>1. "HEADER" \in AssertionKinds
      BY DEF AssertionKinds
    <3> QED
      BY <2>2, <2>7, <3>1
  <2> QED
    BY <2>3, <2>4, <2>5, <2>6, <2>7
<1> QED
  BY <1>6, <1>7

\* The status is the current token: it is consumed and the assertion added at once.
LEMMA StatusIntKeeps == ASSUME ParserInv, StatusInt PROVE ParserInv'
<1>1. /\ stage = "status_int" /\ Running /\ Part = 2 /\ stage \notin HeaderStages
      /\ copied' = copied /\ header_name' = header_name /\ oom' = oom
  BY DEF StatusInt, Running, Part, HeaderStages
<1>2. /\ Begins(read, finished + 1) /\ read[finished + 1] = "EXPECT"
      /\ read[finished + 2] = "STATUS"
      /\ plan # <<>> /\ Len(Last(plan).assertions) < MaxAssertions
  BY <1>1 DEF ParserInv, StatementInv, ExpectStages
<1>3. PICK b \in Nat \ {0} : b = finished + 1 /\ finished = b - 1
  BY <1>1, ReadFacts
<1>4. Len(read) = b + 2 /\ previous = b + 1 /\ Last(read) = read[b + 2]
  <2>1. /\ Len(read) = finished + 3 /\ previous = Len(read) - 1
        /\ Last(read) = read[Len(read)]
    BY <1>1, ReadFacts
  <2> QED
    BY <1>3, <2>1
<1>5. Viable(read, Len(read)) <=> Last(read) = "INT"
  <2>1. LineTree(read, b, Len(read)) <=> read[b + 2] = "INT"
    BY <1>2, <1>3, <1>4, ParserAssumption DEF LineTree, OtherTokens, Ends, AssertionKinds
  <2> QED
    BY <1>1, <1>2, <1>3, <1>4, <2>1, CurrentViable
<1>6. ASSUME Expected({"INT"}, "statement_end"),
             NEW a, a = Assertion("status", 0, Len(read)), AddAssertion(a)
      PROVE  ParserInv'
  <2>1. Advance /\ Last(read) = "INT" /\ Last(read) # "ERROR" /\ stage' = "statement_end"
    BY <1>6 DEF Expected, Current
  <2>2. a \in Assertions /\ a.kind = "status" /\ a.key = 0 /\ a.value = b + 2
    BY <1>4, <1>6 DEF Assertion, Assertions, Kinds
  <2>3. PICK u \in Seq(Tokens) : u = read'
    BY <1>1, <2>1, AdvanceFacts
  <2>4. /\ Len(u) = b + 3 /\ \A i \in 1 .. b + 2 : u[i] = read[i]
        /\ previous' = b + 2 /\ Last(read') = u[b + 3] /\ u[b + 3] \in Tokens
    <3>1. /\ Len(read') = Len(read) + 1
          /\ \A i \in 1 .. Len(read) : read'[i] = read[i]
          /\ Last(read') = read'[Len(read) + 1] /\ Last(read') \in Tokens
      BY <1>1, <2>1, AdvanceFacts
    <3>2. previous' = Len(read)
      BY <1>4, <3>1 DEF previous
    <3> QED
      BY <1>4, <2>3, <3>1, <3>2
  <2>5. u[b] = "EXPECT" /\ u[b + 1] = "STATUS" /\ u[b + 2] = "INT" /\ Begins(u, b)
    <3>1. /\ read[b] = "EXPECT" /\ read[b + 1] = "STATUS" /\ read[b + 2] = "INT"
          /\ Begins(read, b)
      BY <1>2, <1>3, <1>4, <2>1
    <3> QED
      BY <2>4, <3>1 DEF Begins
  <2>6. Viable(u, b + 2)
    <3>1. Viable(read, b + 2)
      BY <1>4, <1>5, <2>1
    <3> QED
      BY <2>4, <3>1, ViableStays
  <2>7. Viable(u, b + 3) <=> u[b + 3] \in Ends
    <3>1. PICK n \in Nat \ {0} : n = b + 3
      OBVIOUS
    <3>2. \A i \in b .. n - 1 : u[i] # "NEWLINE" /\ u[i] # "EOF"
      BY <2>5, <3>1
    <3>3. n > 1 => u[n - 1] # "EOF"
      BY <2>5, <3>1
    <3>4. Viable(u, n - 1) /\ b \in 1 .. n
      BY <2>6, <3>1
    <3>5. Viable(u, n) <=>
             /\ LineTree(u, b, n)
             /\ u[n] \in {"BODY_STMT", "EXPECT"} => \E j \in 1 .. n - 1 : u[j] \in Methods
      BY <2>5, <3>2, <3>3, <3>4, NextTokenViable
    <3>6. LineTree(u, b, n) <=> u[b + 3] \in Ends
      BY <2>5, <3>1, ParserAssumption DEF LineTree, OtherTokens, Ends, AssertionKinds
    <3>7. u[n] \in Ends => u[n] \notin {"BODY_STMT", "EXPECT"}
      BY DEF Ends
    <3> QED
      BY <3>1, <3>5, <3>6, <3>7
  <2>8. Means(plan', u, b + 2) /\ OwnTokens(u, plan')
    <3>1. a = AssertionOf(u, b)
      BY <1>4, <1>6, <2>5 DEF AssertionOf
    <3>2. \A i \in 1 .. Len(read) : u[i] = read[i]
      BY <1>4, <2>4
    <3>3. \A i \in b + 1 .. b + 2 : u[i] \notin Keywords
      BY <2>5, ParserAssumption DEF Keywords, OtherTokens
    <3>4. /\ u[finished + 1] = "EXPECT" /\ a = AssertionOf(u, finished + 1)
          /\ \A i \in finished + 2 .. b + 2 : u[i] \notin Keywords
      BY <1>3, <2>5, <3>1, <3>3
    <3>5. \A p \in {a.key, a.value} \ {0} : u[p] # "BODY_RAW"
      BY <2>2, <2>5
    <3>6. a.key <= a.value /\ a.value <= b + 2 /\ b + 2 \in Nat
      BY <2>2
    <3> QED
      BY <1>1, <1>2, <1>6, <2>2, <3>2, <3>4, <3>5, <3>6, AddAssertionMeans, SMTT(30)
  <2>9. /\ plan' \in Seq(Cases) /\ Len(plan') <= MaxCases
        /\ \A k \in DOMAIN plan' : Len(plan'[k].assertions) <= MaxAssertions
        /\ Reachable(plan') = Reachable(plan)
    BY <1>1, <1>2, <1>6, <2>2, AddAssertionFacts
  <2>10. Running' /\ Part' = 0 /\ finished' = b + 2
    BY <2>1, <2>4 DEF Running, Part, finished
  <2>11. header_name' = 0 /\ copied' = Reachable(plan') /\ copied' \subseteq 1 .. b + 3
    BY <1>1, <1>4, <2>9, PlanFacts
  <2>12. had_error' \in BOOLEAN /\ error_at' \in 0 .. Len(read')
    BY <1>1, <2>1, AdvanceFacts
  <2>13. ParserTypeOK'
    <3>1. oom' \in BOOLEAN /\ Len(read') = b + 3 /\ header_name' \in 0 .. b + 3
      BY <1>1, <2>3, <2>4, <2>11, PlanFacts
    <3> QED
      BY <2>1, <2>3, <2>9, <2>11, <2>12, <3>1 DEF ParserTypeOK
  <2>14. ErrorInv'
    <3>1. read' # <<>>
      BY <2>3, <2>4
    <3>2. /\ had_error' <=> Last(read') = "ERROR"
          /\ had_error' => error_at' = Len(read')
      BY <1>1, <2>1, AdvanceFacts
    <3> QED
      BY <2>1, <3>1, <3>2 DEF ErrorInv
  <2>15. StatementInv'
    <3>1. finished' \in Nat /\ Viable(read', previous')
      BY <2>3, <2>4, <2>6, <2>10
    <3>2. Viable(read', Len(read')) <=> Last(read') \in {"NEWLINE", "EOF"}
      BY <2>3, <2>4, <2>7 DEF Ends
    <3> QED
      BY <2>1, <3>1, <3>2 DEF StatementInv, ExpectStages
  <2>16. PlanInv'
    <3>1. Means(plan', read', finished')
      BY <2>3, <2>8, <2>10
    <3> QED
      BY <3>1 DEF PlanInv
  <2>17. CopiedInv'
    BY <2>1, <2>3, <2>8, <2>11 DEF CopiedInv, OwnTokens
  <2>18. NoStringLost'
    <3>1. Reachable(plan)' = Reachable(plan')
      BY DEF Reachable, StringsOf
    <3> QED
      BY <2>11, <3>1 DEF NoStringLost
  <2>19. PlanIsMeaning' /\ ErrorAtFirstBadToken'
    BY <2>1 DEF PlanIsMeaning, ErrorAtFirstBadToken
  <2> QED
    BY <2>13, <2>14, <2>15, <2>16, <2>17, <2>18, <2>19 DEF ParserInv
<1>7. ASSUME ~ Current({"INT"}), Fail, UNCHANGED plan PROVE ParserInv'
  <2>1. ~ Viable(read, Len(read))
    BY <1>1, <1>5, <1>7, ReadFacts DEF Current
  <2>2. UNCHANGED memory
    BY <1>1, <1>7 DEF memory
  <2> QED
    BY <1>1, <1>7, <2>1, <2>2, FailHere
<1> QED
  BY <1>6, <1>7 DEF StatusInt

-----------------------------------------------------------------------------
(* Between two statements *)

\* What the current token decides in parse_statement.
LEMMA FirstToken ==
    ASSUME ParserInv, stage = "program"
    PROVE  /\ Running /\ Part = 0 /\ stage \notin HeaderStages
           /\ Len(read) = finished + 1 /\ finished \in Nat /\ Last(read) = read[finished + 1]
           /\ Last(read) # "EOF" => Begins(read, finished + 1)
           /\ Last(read) = "EOF" => Viable(read, Len(read))
           /\ Last(read) # "EOF" =>
                 (Viable(read, Len(read)) <=>
                     \/ Last(read) \in Methods \cup {"NEWLINE"}
                     \/ Last(read) \in {"BODY_STMT", "EXPECT"} /\ plan # <<>>)
<1>1. Running /\ Part = 0 /\ stage \notin HeaderStages /\ stage # "statement_end"
  BY DEF Running, Part, HeaderStages
<1>2. Len(read) = finished + 1 /\ finished \in Nat /\ Last(read) = read[finished + 1]
  BY <1>1, ReadFacts
<1>3. \/ Begins(read, finished + 1)
      \/ Last(read) = "EOF" /\ Viable(read, Len(read))
  BY <1>1, <1>2 DEF ParserInv, StatementInv
<1>4. LineTree(read, finished + 1, Len(read)) <=>
         Last(read) \in Methods \cup {"NEWLINE", "EOF", "BODY_STMT", "EXPECT"}
  BY <1>2 DEF LineTree, Ends
<1>5. Begins(read, finished + 1) =>
         (Viable(read, Len(read)) <=>
             /\ Last(read) \in Methods \cup {"NEWLINE", "EOF", "BODY_STMT", "EXPECT"}
             /\ Last(read) \in {"BODY_STMT", "EXPECT"} => plan # <<>>)
  BY <1>1, <1>4, CurrentViable
<1>6. Last(read) \in Methods => Last(read) \notin {"BODY_STMT", "EXPECT"}
  BY ParserAssumption DEF OtherTokens
<1>7. Last(read) # "EOF" => Begins(read, finished + 1)
  BY <1>3
<1>8. Last(read) = "EOF" => Viable(read, Len(read))
  BY <1>3, <1>5
<1>9. Begins(read, finished + 1) /\ Last(read) # "EOF" =>
         (Viable(read, Len(read)) <=>
             \/ Last(read) \in Methods \cup {"NEWLINE"}
             \/ Last(read) \in {"BODY_STMT", "EXPECT"} /\ plan # <<>>)
  BY <1>5, <1>6
<1> QED
  BY <1>1, <1>2, <1>7, <1>8, <1>9

\* A line ends here: the next token begins a statement.
LEMMA LineEnds ==
    ASSUME ParserInv, stage \in {"program", "statement_end"}, Viable(read, Len(read)),
           Expected({"NEWLINE"}, "program"), UNCHANGED memory
    PROVE  ParserInv'
<1>1. Running /\ Part = 0 /\ stage \notin HeaderStages
  BY DEF Running, Part, HeaderStages
<1>2. /\ Advance /\ Last(read) = "NEWLINE" /\ Last(read) # "ERROR"
      /\ stage' = "program" /\ Part' = 0 /\ "ERROR" \notin {"NEWLINE"}
  BY DEF Expected, Current, Part
<1>3. PICK n \in Nat \ {0} : n = Len(read) /\ finished = n - 1 /\ read[n] = "NEWLINE"
  <2>1. /\ Len(read) \in Nat \ {0} /\ Last(read) = read[Len(read)]
        /\ finished \in Nat /\ Len(read) = finished + 1 + 0
    BY <1>1, ReadFacts
  <2> QED
    BY <1>2, <2>1
<1>4. /\ Len(read') = n + 1 /\ previous' = n /\ Viable(read', previous')
      /\ \A i \in 1 .. n : read'[i] = read[i]
  BY <1>1, <1>2, <1>3, ReadNext
<1>5. finished' = n
  BY <1>2, <1>4 DEF finished
<1>6. Begins(read', finished' + 1)
  <2>1. read'[n] = "NEWLINE"
    BY <1>3, <1>4
  <2>2. Begins(read', n + 1)
    BY <2>1 DEF Begins
  <2> QED
    BY <1>5, <2>2
<1>7. StatementInv'
  BY <1>2, <1>4, <1>5, <1>6 DEF StatementInv, ExpectStages
<1>8. finished' \in finished .. Len(read)
  BY <1>3, <1>5
<1>9. \A i \in finished + 1 .. finished' : read[i] \notin Keywords
  BY <1>3, <1>5, ParserAssumption DEF Keywords, OtherTokens
<1>10. stage' \in RunningStages /\ stage' \notin HeaderStages
  BY <1>2 DEF RunningStages, HeaderStages
<1> QED
  BY <1>1, <1>2, <1>7, <1>8, <1>9, <1>10, ExpectedKeeps

LEMMA SkipNewlineKeeps == ASSUME ParserInv, SkipNewline PROVE ParserInv'
<1>1. stage = "program" /\ Expected({"NEWLINE"}, "program") /\ UNCHANGED memory
  BY DEF SkipNewline
<1>2. Last(read) = "NEWLINE"
  BY <1>1 DEF Expected, Current
<1>3. Viable(read, Len(read))
  BY <1>1, <1>2, FirstToken
<1> QED
  BY <1>1, <1>3, LineEnds

\* A keyword begins a statement.
LEMMA StatementBegins ==
    ASSUME ParserInv, stage = "program", NEW types, NEW next, Expected(types, next),
           UNCHANGED memory, "ERROR" \notin types, "EOF" \notin types,
           Viable(read, Len(read)),
           \/ next = "request_url" /\ Last(read) \in Methods /\ Len(plan) < MaxCases
           \/ next = "body_raw" /\ Last(read) = "BODY_STMT" /\ plan # <<>>
           \/ next = "expect" /\ Last(read) = "EXPECT" /\ plan # <<>>
    PROVE  ParserInv'
<1>1. Advance /\ Last(read) \in types /\ Last(read) \notin {"ERROR", "EOF"} /\ stage' = next
  BY DEF Expected, Current
<1>2. /\ Running /\ Part = 0 /\ stage \notin HeaderStages
      /\ Len(read) = finished + 1 /\ finished \in Nat /\ Last(read) = read[finished + 1]
      /\ Begins(read, finished + 1)
  BY <1>1, FirstToken
<1>3. Part' = 1
  BY <1>1 DEF Part
<1>4. PICK n \in Nat \ {0} : n = finished + 1 /\ finished = n - 1
  BY <1>2
<1>5. /\ previous' = n /\ Viable(read', previous')
      /\ \A i \in 1 .. n : read'[i] = read[i]
  BY <1>1, <1>2, <1>4, ReadNext
<1>6. finished' = finished
  BY <1>3, <1>4, <1>5 DEF finished
<1>7. Begins(read', finished' + 1) /\ read'[finished' + 1] = Last(read) /\ plan' = plan
  <2>1. Begins(read', n) /\ read'[n] = read[n]
    BY <1>2, <1>4, <1>5 DEF Begins
  <2> QED
    BY <1>2, <1>4, <1>6, <2>1 DEF memory
<1>8. StatementInv'
  BY <1>1, <1>2, <1>5, <1>6, <1>7 DEF StatementInv, ExpectStages
<1>9. /\ finished' \in finished .. Len(read)
      /\ \A i \in finished + 1 .. finished' : read[i] \notin Keywords
  BY <1>2, <1>6
<1>10. stage' \in RunningStages /\ stage' \notin HeaderStages
  BY <1>1 DEF RunningStages, ExpectStages, HeaderStages
<1> QED
  BY <1>1, <1>2, <1>8, <1>9, <1>10, ExpectedKeeps

LEMMA RequestStmtKeeps == ASSUME ParserInv, RequestStmt PROVE ParserInv'
<1>1. /\ stage = "program" /\ Last(read) \in Methods /\ UNCHANGED memory
      /\ Running /\ stage \notin HeaderStages
  BY FirstToken DEF RequestStmt, Current
<1>2. Last(read) # "EOF" /\ "ERROR" \notin Methods /\ "EOF" \notin Methods
  BY <1>1, ParserAssumption DEF OtherTokens
<1>3. ASSUME Len(plan) >= MaxCases, Fail PROVE ParserInv'
  <2>1. Len(plan) = MaxCases
    <3>1. Len(plan) \in Nat /\ Len(plan) <= MaxCases
      BY <1>1, PlanFacts
    <3> QED
      BY <1>3, <3>1, ParserAssumption
  <2> QED
    BY <1>1, <1>3, <2>1, FailHere
<1>4. ASSUME Len(plan) < MaxCases, Expected(Methods, "request_url") PROVE ParserInv'
  <2>1. Viable(read, Len(read))
    BY <1>1, <1>2, FirstToken
  <2> QED
    BY <1>1, <1>2, <1>4, <2>1, StatementBegins
<1> QED
  BY <1>3, <1>4 DEF RequestStmt

LEMMA BodyStmtKeeps == ASSUME ParserInv, BodyStmt PROVE ParserInv'
<1>1. /\ stage = "program" /\ Last(read) = "BODY_STMT" /\ UNCHANGED memory
      /\ Running /\ stage \notin HeaderStages
  BY FirstToken DEF BodyStmt, Current
<1>2. Last(read) \notin Methods \cup {"NEWLINE", "EOF"}
  BY <1>1, ParserAssumption DEF OtherTokens
<1>3. ASSUME plan = <<>>, Fail PROVE ParserInv'
  BY <1>1, <1>2, <1>3, FirstToken, FailHere
<1>4. ASSUME plan # <<>>, Expected({"BODY_STMT"}, "body_raw") PROVE ParserInv'
  <2>1. Viable(read, Len(read))
    BY <1>1, <1>2, <1>4, FirstToken
  <2>2. "ERROR" \notin {"BODY_STMT"} /\ "EOF" \notin {"BODY_STMT"}
    OBVIOUS
  <2> QED
    BY <1>1, <1>4, <2>1, <2>2, StatementBegins
<1> QED
  BY <1>3, <1>4 DEF BodyStmt

LEMMA ExpectStmtKeeps == ASSUME ParserInv, ExpectStmt PROVE ParserInv'
<1>1. /\ stage = "program" /\ Last(read) = "EXPECT" /\ UNCHANGED memory
      /\ Running /\ stage \notin HeaderStages
  BY FirstToken DEF ExpectStmt, Current
<1>2. Last(read) \notin Methods \cup {"NEWLINE", "EOF"}
  BY <1>1, ParserAssumption DEF OtherTokens
<1>3. ASSUME plan = <<>>, Fail PROVE ParserInv'
  BY <1>1, <1>2, <1>3, FirstToken, FailHere
<1>4. ASSUME plan # <<>>, Expected({"EXPECT"}, "expect") PROVE ParserInv'
  <2>1. Viable(read, Len(read))
    BY <1>1, <1>2, <1>4, FirstToken
  <2>2. "ERROR" \notin {"EXPECT"} /\ "EOF" \notin {"EXPECT"}
    OBVIOUS
  <2> QED
    BY <1>1, <1>4, <2>1, <2>2, StatementBegins
<1> QED
  BY <1>3, <1>4 DEF ExpectStmt

LEMMA OtherStmtKeeps == ASSUME ParserInv, OtherStmt PROVE ParserInv'
<1>1. /\ stage = "program" /\ Fail /\ UNCHANGED memory
      /\ Running /\ stage \notin HeaderStages
  BY FirstToken DEF OtherStmt
<1>2. Last(read) \notin Methods \cup {"EOF", "NEWLINE", "BODY_STMT", "EXPECT"}
  BY <1>1 DEF OtherStmt, Current, ParserInv, ErrorInv
<1>3. ~ Viable(read, Len(read))
  BY <1>1, <1>2, FirstToken
<1> QED
  BY <1>1, <1>3, FailHere

LEMMA StatementEndKeeps == ASSUME ParserInv, StatementEnd PROVE ParserInv'
<1>1. /\ stage = "statement_end" /\ UNCHANGED memory /\ Running /\ Part = 0
      /\ stage \notin HeaderStages /\ read # <<>>
      /\ (Viable(read, Len(read)) <=> Last(read) \in {"NEWLINE", "EOF"})
  BY DEF StatementEnd, Running, Part, HeaderStages, ParserInv, StatementInv, ErrorInv
<1>2. CASE Expected({"NEWLINE"}, "program")
  <2>1. Viable(read, Len(read))
    BY <1>1, <1>2 DEF Expected, Current
  <2> QED
    BY <1>1, <1>2, <2>1, LineEnds
<1>3. ASSUME Current({"EOF"}), stage' = "program", UNCHANGED parserVars PROVE ParserInv'
  <2>1. /\ read' = read /\ had_error' = had_error /\ error_at' = error_at
        /\ plan' = plan /\ copied' = copied /\ header_name' = header_name /\ oom' = oom
        /\ Running' /\ Part' = 0
    BY <1>1, <1>3 DEF parserVars, memory, Running, Part
  <2>2. previous' = previous /\ finished' = finished /\ finished \in Nat
        /\ read[finished + 1] = "EOF" /\ Viable(read, Len(read))
    <3>1. Last(read) = "EOF" /\ Last(read) = read[finished + 1] /\ finished \in Nat
      BY <1>1, <1>3, ReadFacts DEF Current
    <3> QED
      BY <1>1, <2>1, <3>1 DEF previous, finished
  <2>3. ParserTypeOK' /\ ErrorInv'
    BY <1>1, <1>3, <2>1 DEF ParserInv, ParserTypeOK, ErrorInv
  <2>4. StatementInv'
    BY <1>1, <1>3, <2>1, <2>2 DEF ParserInv, StatementInv, ExpectStages
  <2>5. PlanInv'
    BY <1>1, <2>1, <2>2 DEF ParserInv, PlanInv
  <2>6. CopiedInv'
    BY <1>1, <1>3, <2>1 DEF ParserInv, CopiedInv
  <2>7. NoStringLost'
    BY <1>3, <2>1 DEF ParserInv, NoStringLost, Reachable, StringsOf
  <2>8. PlanIsMeaning' /\ ErrorAtFirstBadToken'
    BY <1>3 DEF PlanIsMeaning, ErrorAtFirstBadToken
  <2> QED
    BY <2>3, <2>4, <2>5, <2>6, <2>7, <2>8 DEF ParserInv
<1>4. ASSUME ~ Current({"NEWLINE", "EOF"}), Fail PROVE ParserInv'
  <2>1. ~ Viable(read, Len(read))
    BY <1>1, <1>4 DEF Current
  <2> QED
    BY <1>1, <1>4, <2>1, FailHere
<1> QED
  BY <1>2, <1>3, <1>4 DEF StatementEnd

LEMMA AcceptKeeps == ASSUME ParserInv, Accept PROVE ParserInv'
<1>1. /\ stage = "program" /\ stage' = "accepted" /\ Last(read) = "EOF" /\ read # <<>>
      /\ Running /\ stage \notin HeaderStages
      /\ Len(read) = finished + 1 /\ finished \in Nat /\ Last(read) = read[finished + 1]
      /\ Viable(read, Len(read))
  BY FirstToken DEF Accept, Current
<1>2. /\ read' = read /\ had_error' = had_error /\ error_at' = error_at
      /\ plan' = plan /\ copied' = copied /\ header_name' = header_name /\ oom' = oom
      /\ ~ Running'
  BY <1>1 DEF Accept, parserVars, memory, Running
<1>3. ParserTypeOK' /\ ErrorInv' /\ StatementInv' /\ PlanInv' /\ ErrorAtFirstBadToken'
  <2>1. ParserTypeOK'
    BY <1>1, <1>2 DEF ParserInv, ParserTypeOK
  <2>2. ErrorInv' /\ PlanInv' /\ ErrorAtFirstBadToken'
    BY <1>1, <1>2 DEF ErrorInv, PlanInv, ErrorAtFirstBadToken
  <2>3. StatementInv'
    BY <1>1, <1>2 DEF StatementInv, ExpectStages
  <2> QED
    BY <2>1, <2>2, <2>3
<1>4. PlanIsMeaning'
  <2>1. PICK n \in Nat : n = finished
    BY <1>1
  <2>2. Means(plan, read, n) /\ plan \in Seq(Cases) /\ Len(read) = n + 1
    BY <1>1, <2>1, PlanFacts
  <2>3. \A i \in n + 1 .. n + 1 : read[i] \notin Keywords
    BY <1>1, <2>1, ParserAssumption DEF Keywords, OtherTokens
  <2>4. Means(plan, read, n + 1)
    BY <2>2, <2>3, MeansSkips
  <2>5. ~ had_error
    BY <1>1 DEF ParserInv, ErrorInv
  <2> QED
    BY <1>1, <1>2, <2>2, <2>4, <2>5 DEF PlanIsMeaning
<1>5. NoStringLost'
  <2>1. copied = Reachable(plan) /\ header_name = 0
    BY <1>1, PlanFacts
  <2>2. Reachable(plan)' = Reachable(plan)
    BY <1>2 DEF Reachable, StringsOf
  <2> QED
    BY <1>2, <2>1, <2>2 DEF NoStringLost
<1> QED
  BY <1>2, <1>3, <1>4, <1>5 DEF ParserInv

-----------------------------------------------------------------------------
(* The beginning and the end *)

LEMMA ParserInitHolds == ASSUME ParserInit PROVE ParserInv
<1>1. /\ read = <<>> /\ stage = "create" /\ had_error = FALSE /\ error_at = 0
      /\ plan = <<>> /\ copied = {} /\ header_name = 0 /\ oom = FALSE /\ ~ Running
  BY DEF ParserInit, Running
<1>2. ParserTypeOK
  <2>1. /\ read \in Seq(Tokens) /\ Len(read) = 0
        /\ plan \in Seq(Cases) /\ Len(plan) = 0 /\ DOMAIN plan = {}
    BY <1>1
  <2>2. had_error \in BOOLEAN /\ oom \in BOOLEAN
    BY <1>1
  <2>3. error_at \in 0 .. Len(read) /\ copied \subseteq 1 .. Len(read)
        /\ header_name \in 0 .. Len(read) /\ Len(plan) <= MaxCases
    BY <1>1, <2>1, ParserAssumption
  <2>4. \A k \in DOMAIN plan : Len(plan[k].assertions) <= MaxAssertions
    BY <2>1
  <2>5. stage = "create"
    BY <1>1
  <2> QED
    BY <2>1, <2>2, <2>3, <2>4, <2>5 DEF ParserTypeOK
<1>3. ErrorInv /\ StatementInv /\ PlanInv /\ PlanIsMeaning /\ ErrorAtFirstBadToken
  BY <1>1 DEF ErrorInv, StatementInv, PlanInv, PlanIsMeaning, ErrorAtFirstBadToken,
              ExpectStages
<1>4. NoStringLost
  <2>1. DOMAIN plan = {}
    BY <1>1
  <2>2. Reachable(plan) = {}
    BY <2>1 DEF Reachable
  <2> QED
    BY <1>1, <2>2 DEF NoStringLost
<1> QED
  BY <1>1, <1>2, <1>3, <1>4 DEF ParserInv

LEMMA CreateKeeps == ASSUME ParserInv, Create PROVE ParserInv'
<1>1. /\ stage = "create" /\ read = <<>> /\ plan = <<>> /\ header_name = 0 /\ ~ had_error
      /\ ParserTypeOK /\ plan' = plan /\ copied' = copied /\ header_name' = header_name
  BY DEF Create, ParserInv, StatementInv
<1>2. Len(read) = 0 /\ Reachable(plan) = {} /\ DOMAIN plan = {}
  <2>1. DOMAIN plan = {} /\ Len(read) = 0
    BY <1>1
  <2> QED
    BY <2>1 DEF Reachable
<1>3. copied = {}
  BY <1>1, <1>2 DEF ParserInv, NoStringLost
<1>4. NoStringLost'
  <2>1. Reachable(plan)' = Reachable(plan)
    BY <1>1 DEF Reachable, StringsOf
  <2> QED
    BY <1>1, <1>2, <1>3, <2>1 DEF NoStringLost
<1>5. ASSUME Advance, stage' = "program", UNCHANGED oom PROVE ParserInv'
  <2>1. PICK t \in Tokens :
          /\ read' = Append(read, t)
          /\ had_error' = (had_error \/ t = "ERROR")
          /\ error_at' = IF t = "ERROR" THEN Len(read) + 1 ELSE error_at
    BY <1>5 DEF Advance, NextTokens
  <2>2. PICK u \in Seq(Tokens) : u = read' /\ Len(u) = 1 /\ u[1] = t /\ u # <<>>
    <3>1. PICK e \in Seq(Tokens) : e = <<>> /\ Len(e) = 0
      BY EmptySeq
    <3>2. /\ Append(e, t) \in Seq(Tokens) /\ Append(e, t) # <<>>
          /\ Len(Append(e, t)) = 1 /\ Append(e, t)[1] = t
      BY <3>1, AppendProperties
    <3> QED
      BY <1>1, <2>1, <3>1, <3>2
  <2>3. Last(read') = t /\ read' # <<>> /\ Len(read') = 1
    <3>1. Len(u) = 1 /\ u[1] = t
      BY <2>2
    <3> QED
      BY <2>2, <3>1 DEF Last
  <2>4. Running' /\ Part' = 0 /\ previous' = 0 /\ finished' = 0
    BY <1>5, <2>3 DEF Running, Part, previous, finished
  <2>5. had_error' \in BOOLEAN /\ (had_error' <=> t = "ERROR")
    BY <1>1, <2>1, Zenon
  <2>6. error_at' \in 0 .. 1 /\ (t = "ERROR" => error_at' = 1)
    BY <1>1, <1>2, <2>1 DEF ParserTypeOK
  <2>7. ParserTypeOK'
    BY <1>1, <1>2, <1>3, <1>5, <2>2, <2>3, <2>5, <2>6 DEF ParserTypeOK
  <2>8. ErrorInv'
    BY <1>5, <2>3, <2>5, <2>6 DEF ErrorInv
  <2>9. StatementInv'
    <3>1. Viable(read', 0)
      BY DEF Viable
    <3>2. Begins(read', 0 + 1)
      BY DEF Begins
    <3> QED
      BY <1>5, <2>4, <3>1, <3>2 DEF StatementInv, ExpectStages
  <2>10. PlanInv'
    <3>1. Means(plan, read', 0)
      BY <1>2 DEF Means
    <3> QED
      BY <1>1, <2>4, <3>1 DEF PlanInv
  <2>11. CopiedInv'
    BY <1>1, <1>2, <1>5 DEF CopiedInv
  <2>12. PlanIsMeaning' /\ ErrorAtFirstBadToken'
    BY <1>5 DEF PlanIsMeaning, ErrorAtFirstBadToken
  <2> QED
    BY <1>4, <2>7, <2>8, <2>9, <2>10, <2>11, <2>12 DEF ParserInv
<1>6. ASSUME oom' \in BOOLEAN, stage' = "rejected", UNCHANGED parserVars PROVE ParserInv'
  <2>1. /\ read' = read /\ had_error' = had_error /\ error_at' = error_at /\ ~ Running'
    BY <1>6 DEF parserVars, Running
  <2>2. ParserTypeOK'
    BY <1>1, <1>6, <2>1 DEF ParserTypeOK
  <2>3. ErrorInv' /\ PlanInv' /\ PlanIsMeaning' /\ ErrorAtFirstBadToken'
    BY <1>6, <2>1 DEF ErrorInv, PlanInv, PlanIsMeaning, ErrorAtFirstBadToken
  <2>4. StatementInv'
    BY <1>6, <2>1 DEF StatementInv, ExpectStages
  <2> QED
    BY <1>4, <2>1, <2>2, <2>3, <2>4 DEF ParserInv
<1>7. \/ Advance /\ stage' = "program" /\ oom' = oom
      \/ oom' \in BOOLEAN /\ stage' = "rejected" /\ UNCHANGED parserVars
  BY DEF Create
<1>8. CASE Advance /\ stage' = "program" /\ oom' = oom
  BY <1>5, <1>8
<1>9. CASE oom' \in BOOLEAN /\ stage' = "rejected" /\ UNCHANGED parserVars
  BY <1>6, <1>9
<1> QED
  BY <1>7, <1>8, <1>9

\* free_run_plan after a failure.
LEMMA RejectKeeps == ASSUME ParserInv, Reject PROVE ParserInv'
<1>1. /\ stage = "reject" /\ stage' = "rejected" /\ plan' = <<>>
      /\ copied' = copied \ Reachable(plan) /\ ParserTypeOK
      /\ read' = read /\ had_error' = had_error /\ error_at' = error_at
      /\ header_name' = header_name /\ oom' = oom /\ ~ Running'
  BY DEF Reject, parserVars, Running, ParserInv
<1>2. header_name = 0 /\ copied' = {}
  BY <1>1 DEF ParserInv, NoStringLost
<1>3. DOMAIN plan' = {} /\ plan' \in Seq(Cases) /\ Len(plan') = 0
  BY <1>1
<1>4. ParserTypeOK'
  <2>1. Len(plan') <= MaxCases
    BY <1>3, ParserAssumption
  <2>2. \A k \in DOMAIN plan' : Len(plan'[k].assertions) <= MaxAssertions
    BY <1>3
  <2> QED
    BY <1>1, <1>2, <1>3, <2>1, <2>2 DEF ParserTypeOK
<1>5. ErrorInv' /\ PlanInv' /\ PlanIsMeaning' /\ ErrorAtFirstBadToken'
  BY <1>1 DEF ErrorInv, PlanInv, PlanIsMeaning, ErrorAtFirstBadToken
<1>6. StatementInv'
  BY <1>1 DEF StatementInv, ExpectStages
<1>7. NoStringLost'
  <2>1. Reachable(plan)' = {}
    BY <1>3 DEF Reachable
  <2> QED
    BY <1>1, <1>2, <2>1 DEF NoStringLost
<1> QED
  BY <1>1, <1>4, <1>5, <1>6, <1>7 DEF ParserInv

LEMMA ParserStutters == ASSUME ParserInv, UNCHANGED allVars PROVE ParserInv'
<1>1. /\ read' = read /\ had_error' = had_error /\ error_at' = error_at /\ stage' = stage
      /\ plan' = plan /\ copied' = copied /\ header_name' = header_name /\ oom' = oom
  BY DEF allVars, parserVars, memory
<1>2. Running' = Running /\ Part' = Part /\ previous' = previous /\ finished' = finished
  BY <1>1 DEF Running, Part, previous, finished
<1>3. ParserTypeOK' /\ ErrorInv' /\ PlanInv'
  BY <1>1, <1>2 DEF ParserInv, ParserTypeOK, ErrorInv, PlanInv
<1>4. StatementInv'
  BY <1>1, <1>2 DEF ParserInv, StatementInv
<1>5. PlanIsMeaning' /\ ErrorAtFirstBadToken'
  BY <1>1 DEF ParserInv, PlanIsMeaning, ErrorAtFirstBadToken
<1>6. NoStringLost'
  BY <1>1 DEF ParserInv, NoStringLost, Reachable, StringsOf
<1>7. (Running => CopiedInv)'
  BY <1>1, <1>2 DEF ParserInv, CopiedInv
<1> QED
  BY <1>3, <1>4, <1>5, <1>6, <1>7 DEF ParserInv

LEMMA ParserStep == ASSUME ParserInv, [ParserNext]_allVars PROVE ParserInv'
<1>1. CASE Create
  BY <1>1, CreateKeeps
<1>2. CASE Statement
  BY <1>2, AcceptKeeps, SkipNewlineKeeps, RequestStmtKeeps, BodyStmtKeeps, ExpectStmtKeeps,
     OtherStmtKeeps DEF Statement
<1>3. CASE StatementEnd
  BY <1>3, StatementEndKeeps
<1>4. CASE RequestUrl \/ RequestCopy \/ BodyValue \/ BodyCopy
  BY <1>4, RequestUrlKeeps, RequestCopyKeeps, BodyValueKeeps, BodyCopyKeeps
<1>5. CASE Expect \/ StatusInt \/ BodyContains \/ BodyString \/ BodyAssert
  BY <1>5, ExpectKeeps, StatusIntKeeps, BodyContainsKeeps, BodyStringKeeps, BodyAssertKeeps
<1>6. CASE HeaderKey \/ NameCopy \/ HeaderValue \/ ValueCopy
  BY <1>6, HeaderKeyKeeps, NameCopyKeeps, HeaderValueKeeps, ValueCopyKeeps
<1>7. CASE Reject
  BY <1>7, RejectKeeps
<1>8. CASE Returned \/ UNCHANGED allVars
  BY <1>8, ParserStutters DEF Returned
<1> QED
  BY <1>1, <1>2, <1>3, <1>4, <1>5, <1>6, <1>7, <1>8 DEF ParserNext

-----------------------------------------------------------------------------
(* The theorems *)

\* The inductive invariant: the tokens read are a beginning of a program up to
\* the current one, the cases are what the finished statements say, and every
\* copied string has one owner (dsl_parser.c:101-571).
THEOREM ParserInvariant == ParserSpec => []ParserInv
<1>1. ParserInit => ParserInv
  BY ParserInitHolds
<1>2. ParserInv /\ [ParserNext]_allVars => ParserInv'
  BY ParserStep
<1> QED
  BY <1>1, <1>2, PTL DEF ParserSpec

\* The plan never outgrows its two limits, and the error is placed at a token
\* that was read (dsl_parser.c:53-77, 301-304, 407-410).
THEOREM ParserTypeCorrect == ParserSpec => []ParserTypeOK
<1>1. ParserInv => ParserTypeOK
  BY DEF ParserInv
<1> QED
  BY <1>1, ParserInvariant, PTL

\* dsl_parse_run_plan returns a plan only for a program of the language, and
\* the plan says what the program says (dsl_parser.c:126-165, 301-311).
THEOREM AcceptedPlanIsMeaning == ParserSpec => []PlanIsMeaning
<1>1. ParserInv => PlanIsMeaning
  BY DEF ParserInv
<1> QED
  BY <1>1, ParserInvariant, PTL

\* A rejected source is no program, and the error is at the first token that
\* none can have there (dsl_parser.c:53-77, 90-124, 224-234).
THEOREM ErrorIsAtFirstBadToken == ParserSpec => []ErrorAtFirstBadToken
<1>1. ParserInv => ErrorAtFirstBadToken
  BY DEF ParserInv
<1> QED
  BY <1>1, ParserInvariant, PTL

\* No string is leaked or freed twice on any way through the parser
\* (dsl_parser.c:303-311, 358-374, 512-571, run_plan.c:23-82).
THEOREM ParserLosesNoString == ParserSpec => []NoStringLost
<1>1. ParserInv => NoStringLost
  BY DEF ParserInv
<1> QED
  BY <1>1, ParserInvariant, PTL

=============================================================================
