-------------------------- MODULE AssertionProofs --------------------------
(* Proofs about Assertion, for texts and words of any length over any       *)
(* characters: the searches decide what Meaning says, and read nothing      *)
(* outside the text.                                                        *)
EXTENDS Assertion, SequenceTheorems, WellFoundedInduction, TLAPS

-----------------------------------------------------------------------------
(* The first and the last position of a kind *)

LEMMA MinIsLeast ==
    ASSUME NEW S \in SUBSET Nat, S # {}
    PROVE  Min(S) \in S /\ \A y \in S : Min(S) <= y
<1> DEFINE R == {p \in Nat \X Nat : p[1] < p[2]}
<1>1. R = OpToRel(<, Nat)
  BY DEF OpToRel
<1>2. IsWellFoundedOn(R, Nat)
  BY <1>1, NatLessThanWellFounded
<1> HIDE DEF R
<1>3. PICK x \in S : \A y \in S : <<y, x>> \notin R
  BY <1>2, WFMin
<1>4. \A y \in S : ~ (y < x)
  BY <1>3 DEF R
<1>5. \A y \in S : x <= y
  BY <1>4
<1> QED
  BY <1>5 DEF Min

LEMMA MaxIsGreatest ==
    ASSUME NEW n \in Nat, NEW S \in SUBSET (0 .. n), S # {}
    PROVE  Max(S) \in S /\ \A y \in S : y <= Max(S)
<1> DEFINE D == {n - x : x \in S}
<1>1. D \in SUBSET Nat /\ D # {}
  <2>1. \A x \in S : x \in 0 .. n
    OBVIOUS
  <2>2. \A x \in S : n - x \in Nat
    BY <2>1
  <2> QED
    BY <2>2
<1>2. \A e \in D : Min(D) <= e /\ Min(D) \in D
  BY <1>1, MinIsLeast
<1>3. PICK x \in S : Min(D) = n - x
  BY <1>1, <1>2
<1>4. ASSUME NEW y \in S
      PROVE  x >= y
  <2>1. n - y \in D
    OBVIOUS
  <2>2. Min(D) <= n - y
    BY <1>2, <2>1
  <2>3. x \in 0 .. n /\ y \in 0 .. n
    OBVIOUS
  <2> QED
    BY <1>3, <2>2, <2>3
<1>5. \A y \in S : Max(S) >= y /\ Max(S) \in S
  BY <1>4 DEF Max
<1>6. \A y \in S : y \in 0 .. n
  OBVIOUS
<1> QED
  BY <1>5, <1>6

\* f is the first position from .. to that holds c, or to.
First(f, c, from, to) ==
    /\ f \in from .. to
    /\ f < to => text[f] = c
    /\ \A i \in from .. f - 1 : text[i] # c

LEMMA FindIsFirst ==
    ASSUME NEW c, NEW from \in Nat, NEW to \in Nat, from <= to
    PROVE  First(Find(c, from, to), c, from, to)
<1> DEFINE S == {i \in from .. to : i = to \/ text[i] = c}
<1>1. S \in SUBSET Nat /\ to \in S
  OBVIOUS
<1>2. Min(S) \in S /\ \A y \in S : Min(S) <= y
  BY <1>1, MinIsLeast
<1>3. Find(c, from, to) = Min(S)
  BY DEF Find
<1> DEFINE f == Min(S)
<1> HIDE DEF f
<1>4. f \in from .. to /\ (f = to \/ text[f] = c)
  BY <1>2 DEF f
<1>5. ASSUME NEW i \in from .. f - 1
      PROVE  text[i] # c
  <2>1. i \in from .. to /\ ~ (f <= i)
    BY <1>4
  <2> QED
    BY <1>2, <2>1 DEF f
<1> QED
  BY <1>3, <1>4, <1>5 DEF First, f

LEMMA FirstIsUnique ==
    ASSUME NEW c, NEW from \in Nat, NEW to \in Nat,
           NEW f, NEW g, First(f, c, from, to), First(g, c, from, to)
    PROVE  f = g
<1>1. f \in from .. to /\ g \in from .. to
  BY DEF First
<1>2. ~ (f < g) /\ ~ (g < f)
  BY <1>1 DEF First
<1> QED
  BY <1>1, <1>2

\* f is the first position from p on that holds no space, or the terminator.
AfterSpaces(f, p) ==
    /\ f \in p .. terminator
    /\ f < terminator => text[f] \notin Spaces
    /\ \A i \in p .. f - 1 : text[i] \in Spaces

LEMMA SkipSpacesSkips ==
    ASSUME NEW p \in Nat, terminator \in Nat, p <= terminator
    PROVE  AfterSpaces(SkipSpaces(p), p)
<1> DEFINE S == {i \in p .. terminator : i = terminator \/ text[i] \notin Spaces}
<1>1. S \in SUBSET Nat /\ terminator \in S
  OBVIOUS
<1>2. Min(S) \in S /\ \A y \in S : Min(S) <= y
  BY <1>1, MinIsLeast
<1>3. SkipSpaces(p) = Min(S)
  BY DEF SkipSpaces
<1> DEFINE f == Min(S)
<1> HIDE DEF f
<1>4. f \in p .. terminator /\ (f = terminator \/ text[f] \notin Spaces)
  BY <1>2 DEF f
<1>5. ASSUME NEW i \in p .. f - 1
      PROVE  text[i] \in Spaces
  <2>1. i \in p .. terminator /\ ~ (f <= i)
    BY <1>4
  <2> QED
    BY <1>2, <2>1 DEF f
<1> QED
  BY <1>3, <1>4, <1>5 DEF AfterSpaces, f

\* r is the end of start .. end - 1 without the blanks at its end.
TrimmedAt(r, start, end) ==
    /\ r \in start .. end
    /\ r > start => text[r - 1] \notin Blanks
    /\ \A i \in r .. end - 1 : text[i] \in Blanks

LEMMA RtrimEndTrims ==
    ASSUME NEW start \in Nat, NEW end \in Nat, start <= end
    PROVE  TrimmedAt(RtrimEnd(start, end), start, end)
<1> DEFINE J == {j \in start .. end - 1 : text[j] \notin Blanks}
           S == {start} \cup {i + 1 : i \in J}
<1>1. \A x \in S : x \in start .. end
  OBVIOUS
<1>2. S \in SUBSET (0 .. end) /\ S # {}
  BY <1>1
<1>3. Max(S) \in S /\ \A y \in S : y <= Max(S)
  BY <1>2, MaxIsGreatest
<1>4. RtrimEnd(start, end) = Max(S)
  BY DEF RtrimEnd
<1> DEFINE r == Max(S)
<1> HIDE DEF r
<1>5. r \in start .. end
  BY <1>1, <1>3 DEF r
<1>6. ASSUME r > start PROVE text[r - 1] \notin Blanks
  <2>1. r \in S
    BY <1>3 DEF r
  <2>2. PICK i \in J : r = i + 1
    BY <1>6, <2>1
  <2> QED
    BY <2>2
<1>7. ASSUME NEW i \in r .. end - 1 PROVE text[i] \in Blanks
  <2>1. i \in start .. end - 1 /\ ~ (i + 1 <= r)
    BY <1>5
  <2>2. i + 1 \notin S
    BY <1>3, <2>1 DEF r
  <2> QED
    BY <2>1, <2>2
<1> QED
  BY <1>4, <1>5, <1>6, <1>7 DEF TrimmedAt, r

LEMMA TrimmedAtIsUnique ==
    ASSUME NEW start \in Nat, NEW end \in Nat,
           NEW r, NEW q, TrimmedAt(r, start, end), TrimmedAt(q, start, end)
    PROVE  r = q
<1>1. r \in start .. end /\ q \in start .. end
  BY DEF TrimmedAt
<1>2. ~ (r < q)
  <2> SUFFICES ASSUME r < q PROVE FALSE
    OBVIOUS
  <2>1. q - 1 \in r .. end - 1 /\ q > start
    BY <1>1
  <2> QED
    BY <2>1 DEF TrimmedAt
<1>3. ~ (q < r)
  <2> SUFFICES ASSUME q < r PROVE FALSE
    OBVIOUS
  <2>1. r - 1 \in q .. end - 1 /\ r > start
    BY <1>1
  <2> QED
    BY <2>1 DEF TrimmedAt
<1> QED
  BY <1>1, <1>2, <1>3

-----------------------------------------------------------------------------
(* The body *)

LEMMA Typed ==
    ASSUME TypeOK, text # NULL
    PROVE  /\ text \in Seq(Char) /\ Len(text) \in Nat /\ terminator \in Nat \ {0}
           /\ DOMAIN text = 1 .. Len(text) /\ \A i \in 1 .. Len(text) : text[i] \in Char
<1>1. text \in Seq(Char)
  BY DEF TypeOK, Nullable
<1> QED
  BY <1>1, LenProperties, ElementOfSeq DEF terminator

LEMMA AssertionFields ==
    ASSUME TypeOK
    PROVE  /\ assertion.value \in {"INT", "BYTES", "HEADER", "STRING"}
           /\ assertion.type \in {"STATUS_EQ", "BODY_CONTAINS", "HEADER_CONTAINS"}
           /\ assertion.value # "STRING" =>
                 /\ assertion.type = "STATUS_EQ" <=> assertion.value = "INT"
                 /\ assertion.type = "BODY_CONTAINS" <=> assertion.value = "BYTES"
                 /\ assertion.type = "HEADER_CONTAINS" <=> assertion.value = "HEADER"
           /\ assertion.value = "BYTES" => assertion.data \in Nullable(Seq(Char))
           /\ assertion.value = "HEADER" => assertion.name \in Nullable(Seq(Char))
                                           /\ assertion.content \in Nullable(Seq(Char))
<1>1. assertion \in Assertions
  BY DEF TypeOK
<1>2. Nullable(Words) \subseteq Nullable(Seq(Char))
  BY AssertionAssumption DEF Nullable
<1> QED
  BY <1>1, <1>2 DEF Assertions

\* The needle is in the body exactly if it is the same at a place where it fits.
LEMMA HoldsAtSomePlace ==
    ASSUME NEW s \in Seq(Char), NEW word \in Seq(Char), word # <<>>
    PROVE  Holds(s, word) <=>
              \E i \in 1 .. Len(s) - Len(word) + 1 :
                 \A k \in DOMAIN word : s[i + k - 1] = word[k]
<1>1. /\ Len(s) \in Nat /\ Len(word) \in Nat \ {0}
      /\ DOMAIN word = 1 .. Len(word) /\ SubSeq(word, 1, Len(word)) = word
  BY LenProperties, EmptySeq, SubSeqFull
<1>2. ASSUME NEW front \in 0 .. Len(s)
      PROVE  IsPrefix(word, SubSeq(s, front + 1, Len(s))) <=>
                /\ front + 1 <= Len(s) - Len(word) + 1
                /\ \A k \in DOMAIN word : s[front + 1 + k - 1] = word[k]
  <2> DEFINE rest == SubSeq(s, front + 1, Len(s))
  <2>1. \A i \in front + 1 .. Len(s) : s[i] \in Char
    BY ElementOfSeq, <1>1
  <2>2. /\ rest \in Seq(Char)
        /\ Len(rest) = IF front + 1 <= Len(s) THEN Len(s) - (front + 1) + 1 ELSE 0
        /\ \A i \in 1 .. Len(s) - (front + 1) + 1 : rest[i] = s[front + 1 + i - 1]
    BY <1>1, <2>1, SubSeqProperties
  <2>3. Len(rest) = Len(s) - front
    BY <1>1, <2>2
  <2>4. CASE Len(word) <= Len(rest)
    <3> HIDE DEF rest
    <3>1. \A i \in 1 .. Len(word) : rest[i] \in Char
      BY <2>2, <2>4, <1>1, ElementOfSeq
    <3>2. /\ SubSeq(rest, 1, Len(word)) \in Seq(Char)
          /\ Len(SubSeq(rest, 1, Len(word))) = Len(word)
          /\ \A i \in 1 .. Len(word) - 1 + 1 : SubSeq(rest, 1, Len(word))[i] = rest[1 + i - 1]
      BY <1>1, <3>1, SubSeqProperties
    <3>3. \A i \in 1 .. Len(word) : SubSeq(rest, 1, Len(word))[i] = s[front + 1 + i - 1]
      BY <1>1, <2>2, <2>3, <2>4, <3>2
    <3>4. word = SubSeq(rest, 1, Len(word)) <=>
             \A i \in 1 .. Len(word) : word[i] = SubSeq(rest, 1, Len(word))[i]
      BY <1>1, <3>2, SeqEqual
    <3>5. front + 1 <= Len(s) - Len(word) + 1
      BY <1>1, <2>3, <2>4
    <3>6. IsPrefix(word, rest) <=> word = SubSeq(rest, 1, Len(word))
      BY <1>1, <2>4 DEF IsPrefix
    <3>7. IsPrefix(word, rest) <=> \A k \in DOMAIN word : s[front + 1 + k - 1] = word[k]
      BY <1>1, <3>3, <3>4, <3>6
    <3> QED
      BY <3>5, <3>7 DEF rest
  <2>5. CASE ~ Len(word) <= Len(rest)
    <3>1. ~ (front + 1 <= Len(s) - Len(word) + 1)
      BY <1>1, <2>3, <2>5
    <3>2. ~ IsPrefix(word, rest)
      BY <2>5 DEF IsPrefix
    <3> QED
      BY <3>1, <3>2
  <2> QED
    BY <2>4, <2>5
<1>3. ASSUME Holds(s, word)
      PROVE  \E i \in 1 .. Len(s) - Len(word) + 1 :
                 \A k \in DOMAIN word : s[i + k - 1] = word[k]
  <2>1. PICK front \in 0 .. Len(s) : IsPrefix(word, SubSeq(s, front + 1, Len(s)))
    BY <1>3 DEF Holds
  <2>2. front + 1 \in 1 .. Len(s) - Len(word) + 1
    BY <1>1, <1>2, <2>1
  <2> QED
    BY <1>2, <2>1, <2>2
<1>4. ASSUME NEW i \in 1 .. Len(s) - Len(word) + 1,
             \A k \in DOMAIN word : s[i + k - 1] = word[k]
      PROVE  Holds(s, word)
  <2>1. PICK front \in 0 .. Len(s) : front + 1 = i
    BY <1>1
  <2>2. /\ front + 1 <= Len(s) - Len(word) + 1
        /\ \A k \in DOMAIN word : s[front + 1 + k - 1] = word[k]
    BY <1>4, <2>1
  <2>3. IsPrefix(word, SubSeq(s, front + 1, Len(s)))
    BY <1>2, <2>2
  <2> QED
    BY <2>3 DEF Holds
<1> QED
  BY <1>3, <1>4

-----------------------------------------------------------------------------
(* The header lines *)

\* What Says means of the line start .. end - 1 of the text: the name ends
\* before nameEnd, the value is from .. to - 1.
TextParts(start, end, nameEnd, colon, from, to, name, content) ==
    /\ nameEnd <= colon /\ colon < from /\ from <= to
    /\ text[colon] = ":" /\ All(text, start, colon - 1, Char \ {":"})
    /\ SameName(SubSeq(text, start, nameEnd - 1), name)
    /\ nameEnd > start => text[nameEnd - 1] \notin Blanks
    /\ All(text, nameEnd, colon - 1, Blanks)
    /\ All(text, colon + 1, from - 1, Spaces)
    /\ SubSeq(text, from, to - 1) = content
    /\ to > from => text[from] \notin Spaces /\ text[to - 1] \notin Blanks
    /\ All(text, to, end - 1, Blanks)

SaysAt(start, end, name, content) ==
    \E nameEnd, colon, from, to \in start .. end :
        TextParts(start, end, nameEnd, colon, from, to, name, content)

\* The same of a line by itself.
LineParts(line, n, colon, a, b, name, content) ==
    /\ n < colon /\ colon <= a /\ a <= b
    /\ line[colon] = ":" /\ All(line, 1, colon - 1, Char \ {":"})
    /\ SameName(SubSeq(line, 1, n), name) /\ Trimmed(SubSeq(line, 1, n))
    /\ All(line, n + 1, colon - 1, Blanks)
    /\ All(line, colon + 1, a, Spaces)
    /\ SubSeq(line, a + 1, b) = content /\ Trimmed(content)
    /\ content # <<>> => Head(content) \notin Spaces
    /\ All(line, b + 1, Len(line), Blanks)

\* A line of the text, and its end.
IsLine(start, end) ==
    /\ start \in 1 .. Len(text) /\ end \in start .. terminator
    /\ First(end, "\n", start, terminator)

\* The search for the value stops in its line at the latest: the newline and
\* the terminator are no spaces.
LEMMA ValueStopsInLine ==
    ASSUME TypeOK, text # NULL, NEW start, NEW end, IsLine(start, end),
           NEW colon \in start .. end, colon < end,
           NEW from, AfterSpaces(from, colon + 1)
    PROVE  from \in colon + 1 .. end
<1>1. Len(text) \in Nat /\ terminator = Len(text) + 1
  BY Typed DEF terminator
<1>2. start \in 1 .. Len(text) /\ end \in start .. terminator
  BY DEF IsLine
<1>3. from \in colon + 1 .. terminator
  BY DEF AfterSpaces
<1>4. CASE end < terminator
  <2>1. text[end] = "\n"
    BY <1>4 DEF IsLine, First
  <2>2. text[end] \notin Spaces
    BY <2>1 DEF Spaces
  <2>3. ~ (end \in colon + 1 .. from - 1)
    BY <2>2 DEF AfterSpaces
  <2> QED
    BY <1>1, <1>2, <1>3, <2>3
<1>5. CASE end = terminator
  BY <1>1, <1>3, <1>5
<1> QED
  BY <1>1, <1>2, <1>4, <1>5

\* The parts that the code finds are those that Says asks for.
LEMMA FoundPartsAreSaid ==
    ASSUME TypeOK, text # NULL, NEW start, NEW end, IsLine(start, end),
           NEW colon, First(colon, ":", start, end), colon < end,
           NEW nameEnd, TrimmedAt(nameEnd, start, colon),
           NEW from, AfterSpaces(from, colon + 1),
           NEW to, TrimmedAt(to, from, end),
           SameName(SubSeq(text, start, nameEnd - 1), assertion.name),
           SubSeq(text, from, to - 1) = assertion.content
    PROVE  SaysAt(start, end, assertion.name, assertion.content)
<1>1. /\ Len(text) \in Nat /\ terminator = Len(text) + 1
      /\ \A i \in 1 .. Len(text) : text[i] \in Char
  BY Typed DEF terminator
<1>2. start \in 1 .. Len(text) /\ end \in start .. terminator
  BY DEF IsLine
<1>3. colon \in start .. end /\ nameEnd \in start .. colon /\ from \in colon + 1 .. terminator
  BY DEF First, TrimmedAt, AfterSpaces
<1>4. from \in colon + 1 .. end
  BY <1>3, ValueStopsInLine
<1>5. to \in from .. end
  BY DEF TrimmedAt
<1>6. text[colon] = ":" /\ All(text, start, colon - 1, Char \ {":"})
  <2>1. \A i \in start .. colon - 1 : i \in 1 .. Len(text)
    BY <1>1, <1>2, <1>3
  <2> QED
    BY <1>1, <2>1 DEF First, All
<1>7. /\ nameEnd > start => text[nameEnd - 1] \notin Blanks
      /\ All(text, nameEnd, colon - 1, Blanks)
      /\ All(text, to, end - 1, Blanks)
      /\ to > from => text[to - 1] \notin Blanks
  BY DEF TrimmedAt, All
<1>8. All(text, colon + 1, from - 1, Spaces)
  BY DEF AfterSpaces, All
<1>9. to > from => text[from] \notin Spaces
  <2>1. to > from => from < terminator
    BY <1>1, <1>2, <1>3, <1>4, <1>5
  <2> QED
    BY <2>1 DEF AfterSpaces
<1>10. /\ nameEnd \in start .. end /\ colon \in start .. end
       /\ from \in start .. end /\ to \in start .. end
       /\ nameEnd <= colon /\ colon < from /\ from <= to
  BY <1>1, <1>2, <1>3, <1>4, <1>5
<1> QED
  BY <1>6, <1>7, <1>8, <1>9, <1>10 DEF SaysAt, TextParts

\* LineMatches decides whether a line says it, and the value found never
\* starts behind the end of the line.
LEMMA LineMatchesDecides ==
    ASSUME TypeOK, text # NULL, NEW start \in 1 .. Len(text)
    PROVE  /\ IsLine(start, LineEnd(start))
           /\ LineMatches(start) <=>
                 SaysAt(start, LineEnd(start), assertion.name, assertion.content)
<1> DEFINE end == LineEnd(start)
           colon == Find(":", start, end)
           nameEnd == RtrimEnd(start, colon)
           from == SkipSpaces(colon + 1)
           to == RtrimEnd(from, end)
<1>1. /\ Len(text) \in Nat /\ terminator = Len(text) + 1
      /\ \A i \in 1 .. Len(text) : text[i] \in Char
  BY Typed DEF terminator
<1>2. IsLine(start, end)
  <2>1. First(end, "\n", start, terminator)
    BY <1>1, FindIsFirst DEF LineEnd
  <2> QED
    BY <2>1 DEF IsLine, First
<1>3. LineMatches(start) <=>
         /\ colon < end
         /\ SameName(SubSeq(text, start, nameEnd - 1), assertion.name)
         /\ SubSeq(text, from, to - 1) = assertion.content
  BY DEF LineMatches
<1>4. end \in start .. terminator /\ end \in Nat
  BY <1>1, <1>2 DEF IsLine
<1>5. First(colon, ":", start, end) /\ colon \in start .. end
  <2>1. First(colon, ":", start, end)
    <3> HIDE DEF end
    <3> QED
      BY <1>4, FindIsFirst
  <2> QED
    BY <2>1 DEF First
<1> HIDE DEF end, colon, nameEnd, from, to
<1>6. TrimmedAt(nameEnd, start, colon)
  BY <1>4, <1>5, RtrimEndTrims DEF nameEnd
<1>7. colon < end => AfterSpaces(from, colon + 1)
  <2>1. colon < end => colon + 1 \in Nat /\ colon + 1 <= terminator /\ terminator \in Nat
    BY <1>1, <1>4, <1>5
  <2> QED
    BY <2>1, SkipSpacesSkips DEF from
<1>8. colon < end => from \in start .. end /\ from <= end
  <2>1. colon < end => from \in colon + 1 .. end
    BY <1>2, <1>5, <1>7, ValueStopsInLine
  <2> QED
    BY <1>1, <1>4, <1>5, <2>1
<1>9. colon < end => TrimmedAt(to, from, end)
  <2>1. colon < end => from \in Nat /\ from <= end
    BY <1>1, <1>4, <1>8
  <2> QED
    BY <1>4, <2>1, RtrimEndTrims DEF to
<1>10. LineMatches(start) => SaysAt(start, end, assertion.name, assertion.content)
  BY <1>2, <1>3, <1>5, <1>6, <1>7, <1>9, FoundPartsAreSaid
<1>11. ASSUME SaysAt(start, end, assertion.name, assertion.content)
       PROVE  LineMatches(start)
  <2>1. PICK n, c, a, b \in start .. end :
        /\ n <= c /\ c < a /\ a <= b
        /\ text[c] = ":" /\ All(text, start, c - 1, Char \ {":"})
        /\ SameName(SubSeq(text, start, n - 1), assertion.name)
        /\ n > start => text[n - 1] \notin Blanks
        /\ All(text, n, c - 1, Blanks)
        /\ All(text, c + 1, a - 1, Spaces)
        /\ SubSeq(text, a, b - 1) = assertion.content
        /\ b > a => text[a] \notin Spaces /\ text[b - 1] \notin Blanks
        /\ All(text, b, end - 1, Blanks)
    BY <1>11 DEF SaysAt, TextParts
  <2>2. c = colon
    <3>1. First(c, ":", start, end)
      BY <2>1 DEF First, All
    <3> QED
      BY <1>4, <1>5, <3>1, FirstIsUnique
  <2>3. colon < end
    BY <1>4, <2>1, <2>2
  <2>4. n = nameEnd
    <3>1. TrimmedAt(n, start, colon)
      BY <1>4, <2>1, <2>2 DEF TrimmedAt, All
    <3>2. start \in Nat /\ colon \in Nat
      BY <1>1, <1>5
    <3> QED
      BY <1>6, <3>1, <3>2, TrimmedAtIsUnique
  <2>5. SubSeq(text, from, to - 1) = SubSeq(text, a, b - 1)
    <3>1. AfterSpaces(from, colon + 1) /\ TrimmedAt(to, from, end) /\ from \in start .. end
      BY <1>7, <1>8, <1>9, <2>3
    <3>2. from >= a
      <4>1. ~ (from \in colon + 1 .. a - 1)
        <5> SUFFICES ASSUME from \in colon + 1 .. a - 1 PROVE FALSE
          OBVIOUS
        <5>1. text[from] \in Spaces
          BY <2>1, <2>2 DEF All
        <5>2. from < terminator
          BY <1>1, <1>4, <2>1, <3>1
        <5> QED
          BY <3>1, <5>1, <5>2 DEF AfterSpaces
      <4>2. from \in colon + 1 .. terminator
        BY <3>1 DEF AfterSpaces
      <4> QED
        BY <1>1, <1>4, <2>1, <2>2, <4>1, <4>2
    <3>3. CASE b > a
      <4>1. ~ (a \in colon + 1 .. from - 1)
        BY <2>1, <3>1, <3>3 DEF AfterSpaces
      <4>2. from = a
        BY <1>1, <1>4, <2>1, <2>2, <3>1, <3>2, <4>1
      <4>3. TrimmedAt(b, from, end)
        BY <1>4, <2>1, <4>2 DEF TrimmedAt, All
      <4>4. from \in Nat
        BY <1>1, <3>1
      <4>5. b = to
        BY <1>4, <3>1, <4>3, <4>4, TrimmedAtIsUnique
      <4> QED
        BY <4>2, <4>5
    <3>4. CASE b = a
      <4>1. All(text, from, end - 1, Blanks)
        BY <1>1, <1>4, <2>1, <3>1, <3>2, <3>4 DEF All
      <4>2. TrimmedAt(from, from, end)
        BY <1>1, <1>4, <3>1, <4>1 DEF TrimmedAt, All
      <4>3. from \in Nat
        BY <1>1, <3>1
      <4>4. from = to
        BY <1>4, <3>1, <4>2, <4>3, TrimmedAtIsUnique
      <4>5. to - 1 < from /\ b - 1 < a /\ from \in Int /\ to - 1 \in Int
            /\ a \in Int /\ b - 1 \in Int
        BY <1>1, <1>4, <2>1, <3>4, <4>3, <4>4
      <4> QED
        BY <4>5, SubSeqEmpty
    <3>5. b > a \/ b = a
      BY <1>1, <1>4, <2>1
    <3> QED
      BY <3>3, <3>4, <3>5
  <2> QED
    BY <1>3, <2>1, <2>3, <2>4, <2>5
<1> QED
  BY <1>2, <1>10, <1>11 DEF end

\* What ReadsStayInside says of one line.
LEMMA ValueStartsInLine ==
    ASSUME TypeOK, text # NULL, NEW start \in 1 .. Len(text),
           Find(":", start, LineEnd(start)) < LineEnd(start)
    PROVE  SkipSpaces(Find(":", start, LineEnd(start)) + 1) <= LineEnd(start)
<1> DEFINE end == LineEnd(start)
           colon == Find(":", start, end)
           from == SkipSpaces(colon + 1)
<1>1. Len(text) \in Nat /\ terminator = Len(text) + 1
  BY Typed DEF terminator
<1>2. IsLine(start, end) /\ end \in start .. terminator
  BY LineMatchesDecides DEF IsLine
<1> HIDE DEF end
<1>3. First(colon, ":", start, end)
  <2>1. start \in Nat /\ end \in Nat /\ start <= end
    BY <1>1, <1>2
  <2> QED
    BY <2>1, FindIsFirst
<1> HIDE DEF colon
<1>4. colon \in start .. end /\ colon < end
  BY <1>3 DEF First, colon, end
<1>5. AfterSpaces(from, colon + 1)
  <2>1. colon + 1 \in Nat /\ colon + 1 <= terminator /\ terminator \in Nat
    BY <1>1, <1>2, <1>4
  <2> QED
    BY <2>1, SkipSpacesSkips
<1> HIDE DEF from
<1>6. from \in colon + 1 .. end
  BY <1>2, <1>4, <1>5, ValueStopsInLine
<1>7. from <= end
  BY <1>1, <1>2, <1>4, <1>6
<1> QED
  BY <1>7 DEF from, colon, end

\* A part of a part of the text is a part of the text.
LEMMA PartOfALine ==
    ASSUME NEW s \in Seq(Char), NEW i \in 1 .. Len(s) + 1, NEW j \in i - 1 .. Len(s),
           NEW m \in Nat, NEW n \in 0 .. j - i + 1, m <= n
    PROVE  SubSeq(SubSeq(s, i, j), m + 1, n) = SubSeq(s, i + m, i + n - 1)
<1>1. Len(s) \in Nat /\ \A k \in 1 .. Len(s) : s[k] \in Char
  BY LenProperties, ElementOfSeq
<1> DEFINE line == SubSeq(s, i, j)
<1>2. line \in Seq(Char) /\ Len(line) = j - i + 1
      /\ \A k \in 1 .. j - i + 1 : line[k] = s[i + k - 1]
  <2>1. \A k \in i .. j : s[k] \in Char
    BY <1>1
  <2>2. i \in Int /\ j \in Int
    BY <1>1
  <2>3. /\ line \in Seq(Char) /\ Len(line) = IF i <= j THEN j - i + 1 ELSE 0
        /\ \A k \in 1 .. j - i + 1 : line[k] = s[i + k - 1]
    BY <2>1, <2>2, SubSeqProperties
  <2> QED
    BY <1>1, <2>3
<1> HIDE DEF line
<1>3. /\ SubSeq(line, m + 1, n) \in Seq(Char)
      /\ Len(SubSeq(line, m + 1, n)) = IF m + 1 <= n THEN n - (m + 1) + 1 ELSE 0
      /\ \A k \in 1 .. n - (m + 1) + 1 : SubSeq(line, m + 1, n)[k] = line[m + 1 + k - 1]
  <2>1. \A k \in m + 1 .. n : line[k] \in Char
    BY <1>1, <1>2, ElementOfSeq
  <2>2. m + 1 \in Int /\ n \in Int
    BY <1>1
  <2> QED
    BY <2>1, <2>2, SubSeqProperties
<1>4. /\ SubSeq(s, i + m, i + n - 1) \in Seq(Char)
      /\ Len(SubSeq(s, i + m, i + n - 1)) =
            IF i + m <= i + n - 1 THEN (i + n - 1) - (i + m) + 1 ELSE 0
      /\ \A k \in 1 .. (i + n - 1) - (i + m) + 1 :
            SubSeq(s, i + m, i + n - 1)[k] = s[i + m + k - 1]
  <2>1. \A k \in i + m .. i + n - 1 : s[k] \in Char
    BY <1>1
  <2>2. i + m \in Int /\ i + n - 1 \in Int
    BY <1>1
  <2> QED
    BY <2>1, <2>2, SubSeqProperties
<1>5. Len(SubSeq(line, m + 1, n)) = n - m /\ Len(SubSeq(s, i + m, i + n - 1)) = n - m
  BY <1>1, <1>3, <1>4
<1>6. ASSUME NEW k \in 1 .. n - m
      PROVE  SubSeq(line, m + 1, n)[k] = SubSeq(s, i + m, i + n - 1)[k]
  <2>1. SubSeq(line, m + 1, n)[k] = line[m + 1 + k - 1]
    <3>1. k \in 1 .. n - (m + 1) + 1
      BY <1>1
    <3> QED
      BY <1>3, <3>1
  <2>2. m + 1 + k - 1 \in 1 .. j - i + 1 /\ m + 1 + k - 1 = m + k
    BY <1>1
  <2>3. line[m + k] = s[i + (m + k) - 1]
    BY <1>2, <2>2
  <2>4. SubSeq(s, i + m, i + n - 1)[k] = s[i + m + k - 1]
    BY <1>1, <1>4
  <2>5. i + (m + k) - 1 = i + m + k - 1
    BY <1>1
  <2> QED
    BY <2>1, <2>2, <2>3, <2>4, <2>5
<1> QED
  BY <1>3, <1>4, <1>5, <1>6, SeqEqual DEF line

\* Says of a line, at its positions in the text.
LEMMA SaysOfAPart ==
    ASSUME text \in Seq(Char), NEW i \in 1 .. Len(text), NEW j \in i - 1 .. Len(text),
           NEW name, NEW content,
           NEW n \in 0 .. j - i + 1, NEW colon \in 1 .. j - i + 1,
           NEW a \in colon .. j - i + 1, NEW b \in a .. j - i + 1, n < colon
    PROVE  LineParts(SubSeq(text, i, j), n, colon, a, b, name, content) <=>
              TextParts(i, j + 1, i + n, i + colon - 1, i + a, i + b, name, content)
<1> DEFINE line == SubSeq(text, i, j)
<1>1. Len(text) \in Nat /\ \A k \in 1 .. Len(text) : text[k] \in Char
  BY LenProperties, ElementOfSeq
<1>2. i \in Nat \ {0} /\ j \in Nat /\ n \in Nat /\ colon \in Nat \ {0} /\ a \in Nat /\ b \in Nat
  BY <1>1
<1>3. Len(line) = j - i + 1 /\ \A k \in 1 .. j - i + 1 : line[k] = text[i + k - 1]
  <2>1. \A k \in i .. j : text[k] \in Char
    BY <1>1
  <2>2. /\ Len(line) = IF i <= j THEN j - i + 1 ELSE 0
        /\ \A k \in 1 .. j - i + 1 : line[k] = text[i + k - 1]
    BY <1>2, <2>1, SubSeqProperties
  <2> QED
    BY <1>1, <2>2
<1>4. SubSeq(line, 1, n) = SubSeq(text, i, i + n - 1)
      /\ SubSeq(line, a + 1, b) = SubSeq(text, i + a, i + b - 1)
  <2>1. i \in 1 .. Len(text) + 1
    BY <1>1
  <2>2. SubSeq(line, 0 + 1, n) = SubSeq(text, i + 0, i + n - 1)
    BY <1>2, <2>1, PartOfALine
  <2>3. SubSeq(line, a + 1, b) = SubSeq(text, i + a, i + b - 1)
    BY <1>2, <2>1, PartOfALine
  <2> QED
    BY <1>2, <2>2, <2>3
<1> HIDE DEF line
<1>5. ASSUME NEW p \in 0 .. j - i + 1, NEW q \in 0 .. j - i + 1, NEW S
      PROVE  All(line, p + 1, q, S) <=> All(text, i + p, i + q - 1, S)
  <2>1. ASSUME All(line, p + 1, q, S), NEW k \in i + p .. i + q - 1 PROVE text[k] \in S
    <3>1. k - i + 1 \in p + 1 .. q /\ k - i + 1 \in 1 .. j - i + 1 /\ i + (k - i + 1) - 1 = k
      BY <1>2
    <3>2. line[k - i + 1] = text[i + (k - i + 1) - 1]
      BY <1>3, <3>1
    <3> QED
      BY <2>1, <3>1, <3>2 DEF All
  <2>2. ASSUME All(text, i + p, i + q - 1, S), NEW k \in p + 1 .. q PROVE line[k] \in S
    <3>1. i + k - 1 \in i + p .. i + q - 1 /\ k \in 1 .. j - i + 1
      BY <1>2
    <3> QED
      BY <1>3, <2>2, <3>1 DEF All
  <2> QED
    BY <2>1, <2>2 DEF All
<1>6. line[colon] = text[i + colon - 1]
  BY <1>2, <1>3
<1>7. All(line, 1, colon - 1, Char \ {":"}) <=> All(text, i, i + colon - 2, Char \ {":"})
  <2>1. All(line, 0 + 1, colon - 1, Char \ {":"})
           <=> All(text, i + 0, i + (colon - 1) - 1, Char \ {":"})
    <3>1. 0 \in 0 .. j - i + 1 /\ colon - 1 \in 0 .. j - i + 1
      BY <1>2
    <3> QED
      BY <1>5, <3>1
  <2>2. 0 + 1 = 1 /\ i + 0 = i /\ i + (colon - 1) - 1 = i + colon - 2
    BY <1>2
  <2> QED
    BY <2>1, <2>2
<1>8. All(line, n + 1, colon - 1, Blanks) <=> All(text, i + n, i + colon - 2, Blanks)
  <2>1. All(line, n + 1, colon - 1, Blanks) <=> All(text, i + n, i + (colon - 1) - 1, Blanks)
    <3>1. colon - 1 \in 0 .. j - i + 1
      BY <1>2
    <3> QED
      BY <1>5, <3>1
  <2>2. i + (colon - 1) - 1 = i + colon - 2
    BY <1>2
  <2> QED
    BY <2>1, <2>2
<1>9. All(line, colon + 1, a, Spaces) <=> All(text, i + colon, i + a - 1, Spaces)
  <2>1. colon \in 0 .. j - i + 1 /\ a \in 0 .. j - i + 1
    BY <1>2
  <2> QED
    BY <1>5, <2>1
<1>10. All(line, b + 1, Len(line), Blanks) <=> All(text, i + b, j, Blanks)
  <2>1. b \in 0 .. j - i + 1 /\ j - i + 1 \in 0 .. j - i + 1 /\ i + (j - i + 1) - 1 = j
    BY <1>2
  <2>2. All(line, b + 1, j - i + 1, Blanks) <=> All(text, i + b, i + (j - i + 1) - 1, Blanks)
    BY <1>5, <2>1
  <2> QED
    BY <1>3, <2>1, <2>2
<1>11. Trimmed(SubSeq(line, 1, n)) <=> (i + n > i => text[i + n - 1] \notin Blanks)
  <2> DEFINE part == SubSeq(text, i, i + n - 1)
  <2>1. /\ part \in Seq(Char)
        /\ Len(part) = IF i <= i + n - 1 THEN (i + n - 1) - i + 1 ELSE 0
        /\ \A k \in 1 .. (i + n - 1) - i + 1 : part[k] = text[i + k - 1]
    <3>1. i + n - 1 \in Int /\ \A k \in i .. i + n - 1 : text[k] \in Char
      BY <1>1, <1>2
    <3> QED
      BY <1>2, <3>1, SubSeqProperties
  <2> HIDE DEF part
  <2>2. Len(part) = n /\ (part = <<>> <=> n = 0)
    BY <1>2, <2>1, EmptySeq
  <2>3. n > 0 => part[n] = text[i + n - 1]
    BY <1>2, <2>1
  <2>4. Trimmed(part) <=> (n > 0 => text[i + n - 1] \notin Blanks)
    BY <1>2, <2>2, <2>3 DEF Trimmed
  <2>5. i + n > i <=> n > 0
    BY <1>2
  <2> QED
    BY <1>4, <2>4, <2>5 DEF part
<1>12. ASSUME SubSeq(text, i + a, i + b - 1) = content
       PROVE  (Trimmed(content) /\ (content # <<>> => Head(content) \notin Spaces))
              <=> (i + b > i + a => text[i + a] \notin Spaces /\ text[i + b - 1] \notin Blanks)
  <2>1. /\ content \in Seq(Char)
        /\ Len(content) = IF i + a <= i + b - 1 THEN (i + b - 1) - (i + a) + 1 ELSE 0
        /\ \A k \in 1 .. (i + b - 1) - (i + a) + 1 : content[k] = text[i + a + k - 1]
    <3> DEFINE m == i + a
               e == i + b - 1
    <3>1. m \in Int /\ e \in Int /\ \A k \in m .. e : text[k] \in Char
      BY <1>1, <1>2
    <3> HIDE DEF m, e
    <3>2. /\ SubSeq(text, m, e) \in Seq(Char)
          /\ Len(SubSeq(text, m, e)) = IF m <= e THEN e - m + 1 ELSE 0
          /\ \A k \in 1 .. e - m + 1 : SubSeq(text, m, e)[k] = text[m + k - 1]
      BY <3>1, SubSeqProperties
    <3> QED
      BY <1>12, <3>2 DEF m, e
  <2>2. Len(content) = b - a /\ (content = <<>> <=> b = a)
    BY <1>2, <2>1, EmptySeq
  <2>3. CASE b > a
    <3>1. 1 \in 1 .. (i + b - 1) - (i + a) + 1 /\ b - a \in 1 .. (i + b - 1) - (i + a) + 1
          /\ i + a + 1 - 1 = i + a /\ i + a + (b - a) - 1 = i + b - 1
      BY <1>2, <2>3
    <3>2. content[1] = text[i + a + 1 - 1] /\ content[b - a] = text[i + a + (b - a) - 1]
      BY <2>1, <3>1
    <3>3. content # <<>> /\ Head(content) = content[1] /\ i + b > i + a
      BY <1>2, <2>1, <2>2, <2>3
    <3> QED
      BY <2>2, <3>1, <3>2, <3>3 DEF Trimmed
  <2>4. CASE b = a
    <3>1. content = <<>> /\ ~ (i + b > i + a)
      BY <1>2, <2>2, <2>4
    <3> QED
      BY <3>1 DEF Trimmed
  <2> QED
    BY <1>2, <2>3, <2>4
<1>13. /\ (i + colon - 1) - 1 = i + colon - 2 /\ (i + colon - 1) + 1 = i + colon
       /\ (j + 1) - 1 = j
       /\ i + n <= i + colon - 1 /\ i + colon - 1 < i + a /\ i + a <= i + b
       /\ n < colon /\ colon <= a /\ a <= b
  BY <1>2
<1>14. TextParts(i, j + 1, i + n, i + colon - 1, i + a, i + b, name, content) <=>
          /\ text[i + colon - 1] = ":"
          /\ All(text, i, i + colon - 2, Char \ {":"})
          /\ SameName(SubSeq(text, i, i + n - 1), name)
          /\ i + n > i => text[i + n - 1] \notin Blanks
          /\ All(text, i + n, i + colon - 2, Blanks)
          /\ All(text, i + colon, i + a - 1, Spaces)
          /\ SubSeq(text, i + a, i + b - 1) = content
          /\ i + b > i + a => text[i + a] \notin Spaces /\ text[i + b - 1] \notin Blanks
          /\ All(text, i + b, j, Blanks)
  <2> DEFINE c == i + colon - 1
             e == j + 1
             nameEnd == i + n
             from == i + a
             to == i + b
  <2> HIDE DEF c, e, nameEnd, from, to
  <2>1. TextParts(i, e, nameEnd, c, from, to, name, content) <=>
          /\ nameEnd <= c /\ c < from /\ from <= to
          /\ text[c] = ":" /\ All(text, i, c - 1, Char \ {":"})
          /\ SameName(SubSeq(text, i, nameEnd - 1), name)
          /\ nameEnd > i => text[nameEnd - 1] \notin Blanks
          /\ All(text, nameEnd, c - 1, Blanks)
          /\ All(text, c + 1, from - 1, Spaces)
          /\ SubSeq(text, from, to - 1) = content
          /\ to > from => text[from] \notin Spaces /\ text[to - 1] \notin Blanks
          /\ All(text, to, e - 1, Blanks)
    BY DEF TextParts
  <2>2. c - 1 = i + colon - 2 /\ c + 1 = i + colon /\ e - 1 = j
        /\ nameEnd <= c /\ c < from /\ from <= to
    BY <1>13 DEF c, e, nameEnd, from, to
  <2>3. TextParts(i, e, nameEnd, c, from, to, name, content) <=>
          /\ text[c] = ":" /\ All(text, i, i + colon - 2, Char \ {":"})
          /\ SameName(SubSeq(text, i, nameEnd - 1), name)
          /\ nameEnd > i => text[nameEnd - 1] \notin Blanks
          /\ All(text, nameEnd, i + colon - 2, Blanks)
          /\ All(text, i + colon, from - 1, Spaces)
          /\ SubSeq(text, from, to - 1) = content
          /\ to > from => text[from] \notin Spaces /\ text[to - 1] \notin Blanks
          /\ All(text, to, j, Blanks)
    BY <2>1, <2>2
  <2> QED
    BY <2>3 DEF c, e, nameEnd, from, to
<1>15. LineParts(line, n, colon, a, b, name, content) <=>
          /\ line[colon] = ":" /\ All(line, 1, colon - 1, Char \ {":"})
          /\ SameName(SubSeq(line, 1, n), name) /\ Trimmed(SubSeq(line, 1, n))
          /\ All(line, n + 1, colon - 1, Blanks)
          /\ All(line, colon + 1, a, Spaces)
          /\ SubSeq(line, a + 1, b) = content /\ Trimmed(content)
          /\ content # <<>> => Head(content) \notin Spaces
          /\ All(line, b + 1, Len(line), Blanks)
  BY <1>13 DEF LineParts
<1>16. LineParts(line, n, colon, a, b, name, content) <=>
          TextParts(i, j + 1, i + n, i + colon - 1, i + a, i + b, name, content)
  <2>1. CASE SubSeq(text, i + a, i + b - 1) = content
    BY <1>4, <1>6, <1>7, <1>8, <1>9, <1>10, <1>11, <1>12, <1>14, <1>15, <2>1, Zenon
  <2>2. CASE SubSeq(text, i + a, i + b - 1) # content
    BY <1>4, <1>14, <1>15, <2>2, Zenon
  <2> QED
    BY <2>1, <2>2
<1> QED
  BY <1>16 DEF line

LEMMA SaysIsSaysAt ==
    ASSUME text \in Seq(Char), NEW i \in 1 .. Len(text), NEW j \in i - 1 .. Len(text),
           NEW name, NEW content
    PROVE  Says(SubSeq(text, i, j), name, content) <=> SaysAt(i, j + 1, name, content)
<1> DEFINE line == SubSeq(text, i, j)
<1>1. Len(text) \in Nat /\ i \in Nat \ {0} /\ j \in Nat
      /\ \A k \in 1 .. Len(text) : text[k] \in Char
  BY LenProperties, ElementOfSeq
<1>2. Len(line) = j - i + 1
  <2>1. \A k \in i .. j : text[k] \in Char
    BY <1>1
  <2>2. Len(line) = IF i <= j THEN j - i + 1 ELSE 0
    BY <1>1, <2>1, SubSeqProperties
  <2> QED
    BY <1>1, <2>2
<1>3. Says(line, name, content) <=>
         \E n, colon, a, b \in 0 .. Len(line) :
            LineParts(line, n, colon, a, b, name, content)
  BY DEF Says, LineParts
<1>4. ASSUME NEW n \in 0 .. Len(line), NEW colon \in 0 .. Len(line),
             NEW a \in 0 .. Len(line), NEW b \in 0 .. Len(line),
             LineParts(line, n, colon, a, b, name, content)
      PROVE  SaysAt(i, j + 1, name, content)
  <2>1. n < colon /\ colon <= a /\ a <= b
    BY <1>4 DEF LineParts
  <2>2. /\ n \in 0 .. j - i + 1 /\ colon \in 1 .. j - i + 1
        /\ a \in colon .. j - i + 1 /\ b \in a .. j - i + 1
    BY <1>1, <1>2, <2>1
  <2>3. TextParts(i, j + 1, i + n, i + colon - 1, i + a, i + b, name, content)
    BY <1>4, <2>1, <2>2, SaysOfAPart
  <2>4. /\ i + n \in i .. j + 1 /\ i + colon - 1 \in i .. j + 1
        /\ i + a \in i .. j + 1 /\ i + b \in i .. j + 1
    BY <1>1, <2>2
  <2> QED
    BY <2>3, <2>4 DEF SaysAt
<1>5. ASSUME NEW nameEnd \in i .. j + 1, NEW c \in i .. j + 1,
             NEW from \in i .. j + 1, NEW to \in i .. j + 1,
             TextParts(i, j + 1, nameEnd, c, from, to, name, content)
      PROVE  Says(line, name, content)
  <2>1. nameEnd <= c /\ c < from /\ from <= to
    BY <1>5 DEF TextParts
  <2>2. PICK n \in 0 .. j - i + 1, colon \in 1 .. j - i + 1,
             a \in 0 .. j - i + 1, b \in 0 .. j - i + 1 :
        nameEnd = i + n /\ c = i + colon - 1 /\ from = i + a /\ to = i + b
    <3>1. /\ nameEnd - i \in 0 .. j - i + 1 /\ c - i + 1 \in 1 .. j - i + 1
          /\ from - i \in 0 .. j - i + 1 /\ to - i \in 0 .. j - i + 1
      BY <1>1, <2>1
    <3>2. /\ nameEnd = i + (nameEnd - i) /\ c = i + (c - i + 1) - 1
          /\ from = i + (from - i) /\ to = i + (to - i)
      BY <1>1, <2>1
    <3> QED
      BY <3>1, <3>2
  <2>3. a \in colon .. j - i + 1 /\ b \in a .. j - i + 1 /\ n < colon
    BY <1>1, <2>1, <2>2
  <2>4. TextParts(i, j + 1, i + n, i + colon - 1, i + a, i + b, name, content)
    BY <1>5, <2>2
  <2>5. LineParts(line, n, colon, a, b, name, content)
    BY <2>3, <2>4, SaysOfAPart
  <2>6. /\ n \in 0 .. Len(line) /\ colon \in 0 .. Len(line)
        /\ a \in 0 .. Len(line) /\ b \in 0 .. Len(line)
    BY <1>1, <1>2, <2>3
  <2> HIDE DEF line
  <2> QED
    BY <1>3, <2>5, <2>6
<1> HIDE DEF line
<1> QED
  BY <1>3, <1>4, <1>5 DEF SaysAt, line

\* The search by lines decides what SaysSomewhere says.
LEMMA SaidOnSomeLine ==
    ASSUME TypeOK, text # NULL
    PROVE  SaysSomewhere(text, assertion.name, assertion.content) <=>
              \E i \in 1 .. Len(text) : LineStart(i) /\ LineMatches(i)
<1>1. text \in Seq(Char) /\ Len(text) \in Nat /\ terminator = Len(text) + 1
      /\ \A k \in 1 .. Len(text) : text[k] \in Char
  BY Typed DEF terminator
<1>2. ASSUME SaysSomewhere(text, assertion.name, assertion.content)
      PROVE  \E i \in 1 .. Len(text) : LineStart(i) /\ LineMatches(i)
  <2>1. PICK i \in 1 .. Len(text), j \in 0 .. Len(text) :
        /\ i = 1 \/ text[i - 1] = "\n"
        /\ j = Len(text) \/ text[j + 1] = "\n"
        /\ All(text, i, j, Char \ {"\n"})
        /\ i <= j + 1
        /\ Says(SubSeq(text, i, j), assertion.name, assertion.content)
    BY <1>2 DEF SaysSomewhere
  <2>2. j \in i - 1 .. Len(text) /\ i \in Nat /\ terminator \in Nat
    BY <1>1, <2>1
  <2>3. SaysAt(i, j + 1, assertion.name, assertion.content)
    BY <1>1, <2>1, <2>2, SaysIsSaysAt
  <2>4. j + 1 = LineEnd(i)
    <3>1. First(j + 1, "\n", i, terminator)
      BY <1>1, <2>1, <2>2 DEF First, All
    <3>2. First(LineEnd(i), "\n", i, terminator)
      BY LineMatchesDecides DEF IsLine
    <3> QED
      BY <2>2, <3>1, <3>2, FirstIsUnique
  <2>5. LineMatches(i)
    BY <2>3, <2>4, LineMatchesDecides
  <2> QED
    BY <2>1, <2>5 DEF LineStart
<1>3. ASSUME NEW i \in 1 .. Len(text), LineStart(i), LineMatches(i)
      PROVE  SaysSomewhere(text, assertion.name, assertion.content)
  <2>1. /\ LineEnd(i) \in i .. terminator
        /\ First(LineEnd(i), "\n", i, terminator)
        /\ SaysAt(i, LineEnd(i), assertion.name, assertion.content)
    BY <1>3, LineMatchesDecides DEF IsLine
  <2>2. PICK j \in 0 .. Len(text) : LineEnd(i) = j + 1
    <3>1. LineEnd(i) - 1 \in 0 .. Len(text) /\ LineEnd(i) = (LineEnd(i) - 1) + 1
      BY <1>1, <2>1
    <3> QED
      BY <3>1
  <2>3. i <= j + 1 /\ j \in i - 1 .. Len(text)
    BY <1>1, <2>1, <2>2
  <2>4. Says(SubSeq(text, i, j), assertion.name, assertion.content)
    BY <1>1, <2>1, <2>2, <2>3, SaysIsSaysAt
  <2>5. j = Len(text) \/ text[j + 1] = "\n"
    BY <1>1, <2>1, <2>2 DEF First
  <2>6. All(text, i, j, Char \ {"\n"})
    <3>1. \A k \in i .. j : k \in i .. LineEnd(i) - 1 /\ k \in 1 .. Len(text)
      BY <1>1, <2>2, <2>3
    <3> QED
      BY <1>1, <2>1, <3>1 DEF First, All
  <2> QED
    BY <1>3, <2>3, <2>4, <2>5, <2>6 DEF SaysSomewhere, LineStart
<1> QED
  BY <1>2, <1>3

-----------------------------------------------------------------------------
(* Steps *)

LEMMA AssertionInit == Init => AssertionInv
<1> SUFFICES ASSUME Init PROVE AssertionInv
  OBVIOUS
<1>1. assertion \in Assertions /\ at = 0 /\ result = NULL
  BY DEF Init
<1>2. status \in Statuses
  <2>1. (CHOOSE s \in Statuses : TRUE) \in Statuses
    BY AssertionAssumption
  <2> QED
    BY <2>1 DEF Init
<1>3. text \in Nullable(Seq(Char))
  BY AssertionAssumption DEF Init, Nullable
<1>4. at \in 0 .. IF text = NULL THEN 0 ELSE terminator
  <2>1. text # NULL => terminator \in Nat
    <3>1. text # NULL => text \in Seq(Char)
      BY <1>3 DEF Nullable
    <3> QED
      BY <3>1, LenProperties DEF terminator
  <2> QED
    BY <1>1, <2>1
<1> QED
  BY <1>1, <1>2, <1>3, <1>4 DEF AssertionInv, TypeOK, VerdictIsMeaning, Nullable

\* A verdict that is the meaning ends the search.
LEMMA ReturnKeeps ==
    ASSUME AssertionInv, NEW passed \in BOOLEAN, Return(passed), passed = Meaning
    PROVE  AssertionInv'
<1>1. UNCHANGED <<text, status, assertion, at>> /\ result' = passed
  BY DEF Return, inputs
<1>2. Meaning' = Meaning
  BY <1>1 DEF Meaning, needle
<1>3. TypeOK'
  BY <1>1 DEF AssertionInv, TypeOK, terminator, Nullable
<1>4. result' # NULL
  BY <1>1, AssertionAssumption
<1> QED
  BY <1>1, <1>2, <1>3, <1>4 DEF AssertionInv, VerdictIsMeaning

LEMMA EvalStatusKeeps == ASSUME AssertionInv, EvalStatus PROVE AssertionInv'
<1> DEFINE passed == assertion.value = "INT" /\ status = assertion.int
<1>1. Return(passed) /\ assertion.type = "STATUS_EQ" /\ TypeOK
  BY DEF EvalStatus, Of, AssertionInv
<1>2. assertion.value \in {"INT", "STRING"}
  BY <1>1, AssertionFields
<1>3. passed = Meaning
  BY <1>2 DEF Meaning
<1>4. passed \in BOOLEAN
  OBVIOUS
<1> HIDE DEF passed
<1> QED
  BY <1>1, <1>3, <1>4, ReturnKeeps

\* The search goes on at position p, with nothing found before it.
LEMMA GotoInBodyKeeps ==
    ASSUME AssertionInv, result = NULL, assertion.type = "BODY_CONTAINS",
           NEW p \in Nat \ {0}, Goto(p),
           HasBody, needle # <<>>, last >= 1, p <= last + 1, \A i \in 1 .. p - 1 : ~ Same(i)
    PROVE  AssertionInv'
<1>1. UNCHANGED <<text, status, assertion, result>> /\ at' = p
  BY DEF Goto, inputs
<1>2. text # NULL /\ needle \in Seq(Char)
  BY AssertionFields DEF AssertionInv, HasBody, Nullable, needle
<1>3. Len(text) \in Nat /\ Len(needle) \in Nat \ {0}
  BY <1>2, Typed, EmptySeq DEF AssertionInv
<1>4. p \in 0 .. terminator
  BY <1>3 DEF last, terminator
<1>5. TypeOK'
  BY <1>1, <1>2, <1>4 DEF AssertionInv, TypeOK, terminator, Nullable
<1>6. /\ HasBody' <=> HasBody
      /\ needle' = needle /\ last' = last
      /\ \A i : Same(i)' <=> Same(i)
  BY <1>1 DEF HasBody, needle, last, Same
<1>7. SearchedBody'
  BY <1>1, <1>6 DEF SearchedBody
<1> QED
  BY <1>1, <1>5, <1>7 DEF AssertionInv, VerdictIsMeaning

LEMMA BodyMeaning ==
    ASSUME TypeOK, HasBody
    PROVE  /\ needle = <<>> => Meaning
           /\ needle # <<>> => (Meaning <=> \E i \in 1 .. last : Same(i))
           /\ Meaning \in BOOLEAN
           /\ Len(text) \in Nat /\ Len(needle) \in Nat
<1>1. text \in Seq(Char) /\ needle \in Seq(Char) /\ assertion.value = "BYTES"
      /\ text \notin {NULL, <<>>} /\ needle # NULL
  BY Typed, AssertionFields DEF HasBody, Nullable, needle
<1>2. Meaning <=> Holds(text, needle)
  BY <1>1 DEF Meaning
<1>3. Meaning \in BOOLEAN
  BY <1>1 DEF Meaning
<1>4. Len(text) \in Nat /\ Len(needle) \in Nat
  BY <1>1, LenProperties
<1>5. ASSUME needle = <<>> PROVE Holds(text, needle)
  <2>1. Len(<<>>) = 0 /\ Len(SubSeq(text, 0 + 1, Len(text))) \in Nat
    <3>1. \A k \in 1 .. Len(text) : text[k] \in Char
      BY <1>1, ElementOfSeq
    <3> QED
      BY <1>4, <3>1, SubSeqProperties
  <2>2. SubSeq(<<>>, 1, 0) = <<>> /\ SubSeq(SubSeq(text, 0 + 1, Len(text)), 1, 0) = <<>>
    BY SubSeqEmpty
  <2>3. IsPrefix(<<>>, SubSeq(text, 0 + 1, Len(text)))
    BY <2>1, <2>2 DEF IsPrefix
  <2>4. 0 \in 0 .. Len(text)
    BY <1>4
  <2> QED
    BY <1>5, <2>3, <2>4 DEF Holds
<1>6. ASSUME needle # <<>> PROVE Meaning <=> \E i \in 1 .. last : Same(i)
  BY <1>1, <1>2, <1>6, HoldsAtSomePlace DEF last, Same
<1> QED
  BY <1>2, <1>3, <1>4, <1>5, <1>6

LEMMA EvalBodyKeeps == ASSUME AssertionInv, EvalBody PROVE AssertionInv'
<1>1. TypeOK /\ result = NULL /\ assertion.type = "BODY_CONTAINS"
  BY DEF EvalBody, Of, AssertionInv
<1>2. CASE ~ HasBody /\ Return(FALSE)
  <2>1. assertion.value \in {"BYTES", "STRING"}
    BY <1>1, AssertionFields
  <2>2. Meaning = FALSE
    BY <1>2, <2>1 DEF Meaning, HasBody
  <2> QED
    BY <1>2, <2>2, ReturnKeeps
<1>3. CASE HasBody /\ needle = <<>> /\ Return(TRUE)
  BY <1>1, <1>3, BodyMeaning, ReturnKeeps
<1>4. CASE HasBody /\ Len(text) < Len(needle) /\ Return(FALSE)
  <2>1. Len(text) \in Nat /\ Len(needle) \in Nat /\ Meaning \in BOOLEAN
    BY <1>1, <1>4, BodyMeaning
  <2>2. needle # <<>>
    BY <1>4, <2>1, EmptySeq
  <2>3. \A i \in 1 .. last : FALSE
    BY <1>4, <2>1 DEF last
  <2>4. Meaning = FALSE
    BY <1>1, <1>4, <2>1, <2>2, <2>3, BodyMeaning
  <2> QED
    BY <1>4, <2>4, ReturnKeeps
<1>5. CASE HasBody /\ needle # <<>> /\ Len(text) >= Len(needle) /\ Goto(1)
  <2>1. last >= 1 /\ 1 <= last + 1
    BY <1>1, <1>5, BodyMeaning DEF last
  <2>2. \A i \in 1 .. 1 - 1 : ~ Same(i)
    OBVIOUS
  <2> QED
    BY <1>1, <1>5, <2>1, <2>2, GotoInBodyKeeps
<1> QED
  BY <1>2, <1>3, <1>4, <1>5 DEF EvalBody

LEMMA CompareBytesKeeps == ASSUME AssertionInv, CompareBytes PROVE AssertionInv'
<1>1. TypeOK /\ result = NULL /\ assertion.type = "BODY_CONTAINS" /\ SearchedBody /\ at > 0
  BY DEF CompareBytes, Of, AssertionInv
<1>2. HasBody /\ needle # <<>> /\ last >= 1 /\ at <= last + 1
      /\ \A i \in 1 .. at - 1 : ~ Same(i)
  BY <1>1 DEF SearchedBody
<1>3. /\ Meaning <=> \E i \in 1 .. last : Same(i)
      /\ Meaning \in BOOLEAN /\ last \in Int
  BY <1>1, <1>2, BodyMeaning DEF last
<1>4. at \in Nat \ {0}
  <2>1. text # NULL => terminator \in Nat
    BY <1>1, Typed
  <2> QED
    BY <1>1, <2>1 DEF TypeOK
<1>5. CASE at > last /\ Return(FALSE)
  <2>1. \A i \in 1 .. last : i \in 1 .. at - 1
    BY <1>2, <1>3, <1>4, <1>5
  <2>2. Meaning = FALSE
    BY <1>2, <1>3, <2>1
  <2> QED
    BY <1>5, <2>2, ReturnKeeps
<1>6. CASE at <= last /\ Same(at) /\ Return(TRUE)
  <2>1. at \in 1 .. last
    BY <1>3, <1>4, <1>6
  <2>2. Meaning = TRUE
    BY <1>3, <1>6, <2>1
  <2> QED
    BY <1>6, <2>2, ReturnKeeps
<1>7. CASE at <= last /\ ~ Same(at) /\ Goto(at + 1)
  <2>1. at + 1 \in Nat \ {0} /\ at + 1 <= last + 1
    BY <1>3, <1>4, <1>7
  <2>2. \A i \in 1 .. (at + 1) - 1 : i \in 1 .. at - 1 \/ i = at
    BY <1>4
  <2>3. \A i \in 1 .. (at + 1) - 1 : ~ Same(i)
    BY <1>2, <1>7, <2>2
  <2> QED
    BY <1>1, <1>2, <1>7, <2>1, <2>3, GotoInBodyKeeps
<1> QED
  BY <1>5, <1>6, <1>7 DEF CompareBytes

LEMMA GotoInHeadersKeeps ==
    ASSUME AssertionInv, result = NULL, assertion.type = "HEADER_CONTAINS",
           NEW p \in 1 .. terminator, Goto(p),
           HasHeaders, LineStart(p), \A i \in 1 .. p - 1 : LineStart(i) => ~ LineMatches(i)
    PROVE  AssertionInv'
<1>1. UNCHANGED <<text, status, assertion, result>> /\ at' = p
  BY DEF Goto, inputs
<1>2. text # NULL /\ terminator \in Nat
  BY Typed DEF AssertionInv, HasHeaders
<1>3. TypeOK'
  BY <1>1, <1>2 DEF AssertionInv, TypeOK, terminator, Nullable
<1>4. /\ HasHeaders' <=> HasHeaders
      /\ \A i : LineStart(i)' <=> LineStart(i)
      /\ \A i : LineMatches(i)' <=> LineMatches(i)
  BY <1>1 DEF HasHeaders, LineStart, LineMatches, LineEnd, Find, SkipSpaces, RtrimEnd, terminator
<1>5. LineStart(p)' /\ \A i \in 1 .. p - 1 : LineStart(i)' => ~ LineMatches(i)'
  BY <1>4
<1>6. SearchedHeaders'
  BY <1>1, <1>4, <1>5 DEF SearchedHeaders, LineStart
<1> QED
  BY <1>1, <1>3, <1>6 DEF AssertionInv, VerdictIsMeaning

LEMMA HeaderMeaning ==
    ASSUME TypeOK, assertion.type = "HEADER_CONTAINS"
    PROVE  /\ Meaning \in BOOLEAN
           /\ ~ HasHeaders => ~ Meaning
           /\ HasHeaders => (Meaning <=> \E i \in 1 .. Len(text) : LineStart(i) /\ LineMatches(i))
<1>1. assertion.value \in {"HEADER", "STRING"}
  BY AssertionFields
<1>2. CASE assertion.value = "STRING"
  BY <1>2 DEF Meaning, HasHeaders
<1>3. CASE assertion.value = "HEADER"
  <2>1. Meaning <=> /\ NULL \notin {text, assertion.name, assertion.content}
                    /\ SaysSomewhere(text, assertion.name, assertion.content)
    BY <1>3 DEF Meaning
  <2>2. Meaning \in BOOLEAN
    BY <1>3 DEF Meaning
  <2>3. text = <<>> => ~ SaysSomewhere(text, assertion.name, assertion.content)
    <3>1. Len(<<>>) = 0 /\ \A i \in 1 .. 0 : FALSE
      BY EmptySeq
    <3> QED
      BY <3>1 DEF SaysSomewhere
  <2>4. ~ HasHeaders => ~ Meaning
    BY <1>3, <2>1, <2>3 DEF HasHeaders
  <2>5. ASSUME HasHeaders
        PROVE  Meaning <=> \E i \in 1 .. Len(text) : LineStart(i) /\ LineMatches(i)
    <3>1. NULL \notin {text, assertion.name, assertion.content} /\ text # NULL
      BY <2>5 DEF HasHeaders
    <3> QED
      BY <2>1, <3>1, SaidOnSomeLine
  <2> QED
    BY <2>2, <2>4, <2>5
<1> QED
  BY <1>1, <1>2, <1>3

LEMMA EvalHeaderKeeps == ASSUME AssertionInv, EvalHeader PROVE AssertionInv'
<1>1. TypeOK /\ result = NULL /\ assertion.type = "HEADER_CONTAINS"
  BY DEF EvalHeader, Of, AssertionInv
<1>2. CASE ~ HasHeaders /\ Return(FALSE)
  BY <1>1, <1>2, HeaderMeaning, ReturnKeeps
<1>3. CASE HasHeaders /\ Goto(1)
  <2>1. 1 \in 1 .. terminator
    BY <1>1, <1>3, Typed DEF HasHeaders
  <2>2. LineStart(1) /\ \A i \in 1 .. 1 - 1 : LineStart(i) => ~ LineMatches(i)
    BY DEF LineStart
  <2> QED
    BY <1>1, <1>3, <2>1, <2>2, GotoInHeadersKeeps
<1> QED
  BY <1>2, <1>3 DEF EvalHeader

\* Within a line no other line starts.
LEMMA NoLineStartsInside ==
    ASSUME TypeOK, text # NULL, NEW p \in 1 .. Len(text), NEW i \in p + 1 .. LineEnd(p)
    PROVE  ~ LineStart(i)
<1>1. Len(text) \in Nat
  BY Typed
<1>2. LineEnd(p) \in p .. terminator /\ First(LineEnd(p), "\n", p, terminator)
  BY LineMatchesDecides DEF IsLine
<1>3. i - 1 \in p .. LineEnd(p) - 1 /\ i # 1
  BY <1>1, <1>2 DEF terminator
<1> QED
  BY <1>2, <1>3 DEF First, LineStart

LEMMA CompareLineKeeps == ASSUME AssertionInv, CompareLine PROVE AssertionInv'
<1>1. TypeOK /\ result = NULL /\ assertion.type = "HEADER_CONTAINS" /\ SearchedHeaders /\ at > 0
  BY DEF CompareLine, Of, AssertionInv
<1>2. HasHeaders /\ LineStart(at) /\ text # NULL
      /\ \A i \in 1 .. at - 1 : LineStart(i) => ~ LineMatches(i)
  BY <1>1 DEF SearchedHeaders, HasHeaders
<1>3. /\ Meaning \in BOOLEAN
      /\ Meaning <=> \E i \in 1 .. Len(text) : LineStart(i) /\ LineMatches(i)
  BY <1>1, <1>2, HeaderMeaning
<1>4. Len(text) \in Nat /\ terminator = Len(text) + 1 /\ at \in 1 .. terminator
  BY <1>1, <1>2, Typed DEF TypeOK, terminator
<1>5. CASE at = terminator /\ Return(FALSE)
  <2>1. \A i \in 1 .. Len(text) : i \in 1 .. at - 1
    BY <1>4, <1>5
  <2>2. Meaning = FALSE
    BY <1>2, <1>3, <2>1
  <2> QED
    BY <1>5, <2>2, ReturnKeeps
<1>6. CASE at < terminator /\ LineMatches(at) /\ Return(TRUE)
  <2>1. at \in 1 .. Len(text)
    BY <1>4, <1>6
  <2>2. Meaning = TRUE
    BY <1>2, <1>3, <1>6, <2>1
  <2> QED
    BY <1>6, <2>2, ReturnKeeps
<1>7. CASE at < terminator /\ ~ LineMatches(at)
  <2>1. at \in 1 .. Len(text)
    BY <1>4, <1>7
  <2>2. LineEnd(at) \in at .. terminator /\ First(LineEnd(at), "\n", at, terminator)
    BY <1>1, <1>2, <2>1, LineMatchesDecides DEF IsLine
  <2>3. \A i \in 1 .. LineEnd(at) : LineStart(i) => ~ LineMatches(i)
    <3>1. ASSUME NEW i \in 1 .. LineEnd(at), LineStart(i) PROVE ~ LineMatches(i)
      <4>1. ~ (i \in at + 1 .. LineEnd(at))
        BY <1>1, <1>2, <2>1, <3>1, NoLineStartsInside
      <4>2. i \in 1 .. at - 1 \/ i = at
        BY <1>4, <2>2, <4>1
      <4> QED
        BY <1>2, <1>7, <3>1, <4>2
    <3> QED
      BY <3>1
  <2>4. CASE LineEnd(at) = terminator /\ Return(FALSE)
    <3>1. \A i \in 1 .. Len(text) : i \in 1 .. LineEnd(at)
      BY <1>4, <2>4
    <3>2. Meaning = FALSE
      BY <1>3, <2>3, <3>1
    <3> QED
      BY <2>4, <3>2, ReturnKeeps
  <2>5. CASE LineEnd(at) < terminator /\ Goto(LineEnd(at) + 1)
    <3>1. LineEnd(at) + 1 \in 1 .. terminator /\ (LineEnd(at) + 1) - 1 = LineEnd(at)
      BY <1>4, <2>2, <2>5
    <3>2. LineStart(LineEnd(at) + 1)
      BY <2>2, <2>5, <3>1 DEF First, LineStart
    <3>3. \A i \in 1 .. (LineEnd(at) + 1) - 1 : LineStart(i) => ~ LineMatches(i)
      BY <2>3, <3>1
    <3> QED
      BY <1>1, <1>2, <2>5, <3>1, <3>2, <3>3, GotoInHeadersKeeps
  <2>6. at # terminator
    BY <1>4, <1>7
  <2>7. \/ LineEnd(at) = terminator /\ Return(FALSE)
        \/ LineEnd(at) < terminator /\ Goto(LineEnd(at) + 1)
    BY <1>7, <2>6, Zenon DEF CompareLine
  <2> QED
    BY <2>4, <2>5, <2>7
<1> QED
  BY <1>5, <1>6, <1>7 DEF CompareLine

LEMMA AssertionNext == ASSUME AssertionInv, [Next]_vars PROVE AssertionInv'
<1>1. CASE UNCHANGED vars
  <2>1. UNCHANGED <<text, status, assertion, at, result>>
    BY <1>1 DEF vars, inputs
  <2>2. TypeOK'
    BY <2>1 DEF AssertionInv, TypeOK, terminator, Nullable
  <2>3. Meaning' = Meaning
    BY <2>1 DEF Meaning, needle
  <2>4. /\ HasBody' <=> HasBody
        /\ needle' = needle /\ last' = last
        /\ \A i : Same(i)' <=> Same(i)
    BY <2>1 DEF HasBody, needle, last, Same
  <2>5. /\ HasHeaders' <=> HasHeaders
        /\ \A i : LineStart(i)' <=> LineStart(i)
        /\ \A i : LineMatches(i)' <=> LineMatches(i)
    BY <2>1 DEF HasHeaders, LineStart, LineMatches, LineEnd, Find, SkipSpaces, RtrimEnd, terminator
  <2>6. SearchedBody' <=> SearchedBody
    BY <2>1, <2>4 DEF SearchedBody
  <2>7. SearchedHeaders' <=> SearchedHeaders
    <3>1. LineStart(at)' <=> LineStart(at)
      BY <2>1 DEF LineStart
    <3> QED
      BY <2>1, <2>5, <3>1 DEF SearchedHeaders
  <2>8. VerdictIsMeaning'
    BY <2>1, <2>3 DEF AssertionInv, VerdictIsMeaning
  <2>9. result' = NULL /\ at' > 0 =>
           \/ assertion'.type = "BODY_CONTAINS" /\ SearchedBody'
           \/ assertion'.type = "HEADER_CONTAINS" /\ SearchedHeaders'
    BY <2>1, <2>6, <2>7 DEF AssertionInv
  <2> QED
    BY <2>2, <2>8, <2>9 DEF AssertionInv
<1> QED
  BY <1>1, EvalStatusKeeps, EvalBodyKeeps, CompareBytesKeeps, EvalHeaderKeeps, CompareLineKeeps
  DEF Next, Returned

-----------------------------------------------------------------------------
(* Theorems *)

\* The place of the search, that nothing before it matches, and the verdict,
\* for texts and words of any length (assertion.c:38-62, 99-145, 148-234).
THEOREM AssertionInvariant == Spec => []AssertionInv
<1>1. Init => AssertionInv
  BY AssertionInit
<1>2. AssertionInv /\ [Next]_vars => AssertionInv'
  BY AssertionNext
<1> QED
  BY <1>1, <1>2, PTL DEF Spec

\* The verdict is what the assertion says of the response: the searches find
\* every place and invent none (assertion.c:38-62, 99-145, 148-234).
THEOREM AssertionVerdictIsMeaning == Spec => []VerdictIsMeaning
<1>1. AssertionInv => VerdictIsMeaning
  BY DEF AssertionInv
<1> QED
  BY <1>1, AssertionInvariant, PTL

\* No read is outside the text and no pointer turns round
\* (assertion.c:52-56, 109-142).
THEOREM AssertionReadsStayInside == Spec => []ReadsStayInside
<1>1. AssertionInv => ReadsStayInside
  <2> SUFFICES ASSUME AssertionInv, result = NULL, at > 0
               PROVE  \/ /\ assertion.type = "BODY_CONTAINS"
                         /\ at <= last + 1 /\ last >= 1
                      \/ /\ assertion.type = "HEADER_CONTAINS"
                         /\ at <= terminator
                         /\ Find(":", at, LineEnd(at)) < LineEnd(at) =>
                               SkipSpaces(Find(":", at, LineEnd(at)) + 1) <= LineEnd(at)
    BY DEF ReadsStayInside
  <2>1. CASE assertion.type = "BODY_CONTAINS"
    BY <2>1 DEF AssertionInv, SearchedBody
  <2>2. CASE assertion.type = "HEADER_CONTAINS"
    <3>1. TypeOK /\ text # NULL
      BY <2>2 DEF AssertionInv, SearchedHeaders, HasHeaders
    <3>2. Len(text) \in Nat /\ terminator = Len(text) + 1 /\ at \in 1 .. terminator
      BY <3>1, Typed DEF TypeOK, terminator
    <3>3. CASE at \in 1 .. Len(text)
      BY <2>2, <3>1, <3>2, <3>3, ValueStartsInLine
    <3>4. CASE at = terminator
      <4>1. First(LineEnd(at), "\n", at, terminator)
        BY <3>2, <3>4, FindIsFirst DEF LineEnd
      <4>2. LineEnd(at) = at
        BY <3>2, <3>4, <4>1 DEF First
      <4>3. First(Find(":", at, at), ":", at, at)
        BY <3>2, FindIsFirst
      <4>4. ~ (Find(":", at, at) < at)
        BY <3>2, <4>3 DEF First
      <4> QED
        BY <2>2, <3>2, <4>2, <4>4
    <3> QED
      BY <3>2, <3>3, <3>4
  <2> QED
    BY <2>1, <2>2 DEF AssertionInv
<1> QED
  BY <1>1, AssertionInvariant, PTL

=============================================================================
