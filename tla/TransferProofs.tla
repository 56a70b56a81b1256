--------------------------- MODULE TransferProofs ---------------------------
(***************************************************************************)
(* Proofs about module Transfer, for every word size, largest block, chunk *)
(* size, initial capacity and set of methods: the buffers of the two       *)
(* callbacks hold what is written into them, RESPONSE_OK means a whole     *)
(* transfer, and the list of headers has one known leak.                   *)
(***************************************************************************)
EXTENDS Transfer, TLAPS

\* A size below 2^64 is its own remainder.
LEMMA WrapSmall ==
    ASSUME NEW n \in Nat, n < Word
    PROVE  Wrap(n) = n
  BY SizeAssumption DEF Wrap

\* The helper max_size returns an upper bound of its arguments, and one of them.
LEMMA LargestBounds ==
    ASSUME NEW a \in Nat, NEW b \in Nat, NEW c \in Nat
    PROVE  /\ Largest(a, b, c) \in Nat
           /\ a <= Largest(a, b, c) /\ b <= Largest(a, b, c) /\ c <= Largest(a, b, c)
  BY DEF Largest

\* A buffer whose capacity is its block, and that has room behind its bytes.
Sound(buffer, spare) ==
    /\ buffer \in Buffers
    /\ buffer.block = buffer.capacity
    /\ buffer.len + spare <= buffer.capacity

\* What a callback stores fits, and is all it was given: neither the sum nor
\* the doubled capacity wraps.
LEMMA StoredFits ==
    ASSUME NEW buffer \in Buffers, NEW n \in 0 .. MaxChunk, NEW spare \in {0, 1},
           buffer.block = buffer.capacity, buffer.len <= buffer.capacity,
           NEW new \in Stored(buffer, n, spare)
    PROVE  Sound(new, spare) /\ new.len = buffer.len + n
<1> USE SizeAssumption DEF Buffers, Sizes
<1>1. Wrap(buffer.len + n) = buffer.len + n
  BY WrapSmall
<1>2. RequiredSize(buffer, n, spare) = buffer.len + n + spare
  BY WrapSmall DEF RequiredSize
<1>3. Wrap(buffer.capacity * 2) = buffer.capacity * 2
  BY WrapSmall
<1>4. CASE RequiredSize(buffer, n, spare) <= buffer.capacity
  <2>1. new = [len |-> buffer.len + n, capacity |-> buffer.capacity,
               block |-> buffer.block]
    BY <1>1, <1>4 DEF Stored
  <2> QED
    BY <2>1, <1>2, <1>4 DEF Sound
<1>5. CASE ~ (RequiredSize(buffer, n, spare) <= buffer.capacity)
  <2>1. PICK k \in 0 .. MaxAlloc :
           /\ k = NewCapacity(buffer, n, spare)
           /\ new = [len |-> buffer.len + n, capacity |-> k, block |-> k]
    BY <1>1, <1>5 DEF Stored
  <2>2. buffer.len + n + spare <= k
    <3>1. InitialCapacity \in Nat /\ buffer.capacity * 2 \in Nat
          /\ buffer.len + n + spare \in Nat
      OBVIOUS
    <3>2. k = Largest(InitialCapacity, buffer.capacity * 2, buffer.len + n + spare)
      BY <2>1, <1>2, <1>3 DEF NewCapacity
    <3> QED
      BY <3>1, <3>2, LargestBounds
  <2> QED
    BY <2>1, <2>2 DEF Sound
<1> QED
  BY <1>4, <1>5

LEMMA TransferInit == Init => TransferInv
<1> SUFFICES ASSUME Init PROVE TransferInv
  OBVIOUS
<1> USE SizeAssumption, RequestAssumption DEF Init
<1>1. TypeOK
  <2>1. Empty \in Buffers
    BY DEF Empty, Buffers, Sizes
  <2>2. req \in Requests /\ 0 \in 0 .. MaxLines
    OBVIOUS
  <2> QED
    BY <2>1, <2>2 DEF TypeOK, Stages
<1>2. BuffersHold /\ Gathered
  BY DEF BuffersHold, Gathered, Empty
<1>3. req.lines \in Nat
  BY DEF Requests
<1>4. OkSoFar /\ ListSoFar /\ HeaderListFreed
  BY <1>2, <1>3 DEF OkSoFar, ListSoFar, HeaderListFreed
<1> QED
  BY <1>1, <1>2, <1>4 DEF TransferInv

-----------------------------------------------------------------------------
(* The steps before curl_easy_perform *)

LEMMA AskKeepsTypes ==
    ASSUME TransferInv, Ask
    PROVE  TypeOK' /\ BuffersHold' /\ ListSoFar' /\ HeaderListFreed'
<1> USE RequestAssumption DEF TransferInv, TypeOK, BuffersHold, OkSoFar, ListSoFar,
      HeaderListFreed, asked, answer, GiveUp, Stages, Requests
<1>1. CASE SetMethod
  <2>1. /\ stage = "method" /\ UNCHANGED <<req, nodes, body, headers, arrived>>
        /\ \/ stage' = "headers" /\ result' = result
           \/ stage' = "done" /\ result' = "CURL_ERROR"
    BY <1>1 DEF SetMethod
  <2> QED
    BY <2>1
<1>2. CASE ParseHeaders
  BY <1>2 DEF ParseHeaders
<1>3. CASE AppendLine
  BY <1>3 DEF AppendLine
<1>4. CASE SetHeaders
  BY <1>4 DEF SetHeaders
<1>5. CASE SetOptions
  BY <1>5 DEF SetOptions
<1> QED
  BY <1>1, <1>2, <1>3, <1>4, <1>5 DEF Ask

LEMMA AskKeepsOk ==
    ASSUME TransferInv, Ask
    PROVE  OkSoFar'
<1> USE DEF TransferInv, TypeOK, OkSoFar, Gathered, asked, answer, GiveUp, Stages
<1>1. CASE SetMethod
  <2>1. CASE result' = "CURL_ERROR"
    BY <1>1, <2>1 DEF SetMethod
  <2>2. CASE result' # "CURL_ERROR"
    <3>1. stage' = "headers" /\ result' = result /\ req' = req
          /\ UNCHANGED <<body, headers, arrived>>
      BY <1>1, <2>2 DEF SetMethod
    <3>2. result = "OK"
      BY <1>1, <2>2, <3>1 DEF SetMethod
    <3>a. curl.post = FALSE /\ curl.custom = "none" /\ curl.fields = FALSE /\ curl.size = FALSE
          /\ curl = [post |-> FALSE, custom |-> "none", fields |-> FALSE, size |-> FALSE]
      BY <1>1 DEF SetMethod
    <3>3. SentAsAsked'
      <4>1. CASE req.method = "GET"
        BY <1>1, <2>2, <3>1, <3>a, <4>1 DEF SetMethod, SentAsAsked, Verb, Payload
      <4>2. CASE req.method = "POST"
        BY <1>1, <2>2, <3>1, <3>a, <4>2
          DEF SetMethod, SentAsAsked, Verb, Payload, WithFields
      <4>3. CASE req.method \in {"PUT", "DELETE", "PATCH"}
        BY <1>1, <2>2, <3>1, <3>a, <4>3
          DEF SetMethod, SentAsAsked, Verb, Payload, WithFields
      <4> QED
        BY <1>1, <2>2, <4>1, <4>2, <4>3 DEF SetMethod
    <3> QED
      BY <3>1, <3>2, <3>3
  <2> QED
    BY <2>1, <2>2
<1>2. CASE ParseHeaders
  BY <1>2 DEF ParseHeaders, SentAsAsked, Verb, Payload
<1>3. CASE AppendLine
  BY <1>3 DEF AppendLine, SentAsAsked, Verb, Payload
<1>4. CASE SetHeaders
  BY <1>4 DEF SetHeaders, SentAsAsked, Verb, Payload
<1>5. CASE SetOptions
  BY <1>5 DEF SetOptions, SentAsAsked, Verb, Payload
<1> QED
  BY <1>1, <1>2, <1>3, <1>4, <1>5 DEF Ask

-----------------------------------------------------------------------------
(* The callbacks and the end of the transfer *)

LEMMA WriteCallbackKeeps ==
    ASSUME TransferInv, NEW n \in 0 .. MaxChunk, WriteCallback(n)
    PROVE  TransferInv'
<1> USE SizeAssumption DEF TransferInv, asked
<1>1. body' = body \/ (Sound(body', 0) /\ body'.len = body.len + n)
  BY StoredFits DEF WriteCallback, TypeOK, BuffersHold
<1>2. result' = "OK" => body'.len = body.len + n /\ result = "OK"
  BY StoredFits DEF WriteCallback, TypeOK, BuffersHold, GiveUp
<1>3. arrived' = [arrived EXCEPT !.body = @ + n] /\ arrived' \in [body : Nat, headers : Nat]
      /\ arrived'.headers = arrived.headers
  BY DEF WriteCallback, TypeOK
<1>4. TypeOK'
  BY <1>1, <1>3 DEF WriteCallback, TypeOK, GiveUp, Stages, Sound
<1>5. BuffersHold'
  BY <1>1 DEF WriteCallback, BuffersHold, Sound, TypeOK, Buffers, Sizes
<1>6. OkSoFar'
  <2>1. result' = "OK" => Gathered'
    BY <1>2, <1>3 DEF WriteCallback, OkSoFar, Gathered, TypeOK
  <2> QED
    BY <1>2, <2>1 DEF WriteCallback, OkSoFar, GiveUp, SentAsAsked, Verb, Payload, TypeOK, Stages
<1>7. ListSoFar' /\ HeaderListFreed'
  BY <1>3 DEF WriteCallback, ListSoFar, HeaderListFreed, GiveUp, TypeOK, Stages
<1> QED
  BY <1>4, <1>5, <1>6, <1>7

LEMMA HeaderCallbackKeeps ==
    ASSUME TransferInv, NEW n \in 0 .. MaxChunk, HeaderCallback(n)
    PROVE  TransferInv'
<1> USE SizeAssumption DEF TransferInv, asked
<1>0. headers.len <= headers.capacity
  BY DEF BuffersHold, TypeOK, Buffers, Sizes, Empty
<1>1. headers' = headers \/ (Sound(headers', 1) /\ headers'.len = headers.len + n)
  BY <1>0, StoredFits DEF HeaderCallback, TypeOK, BuffersHold
<1>2. result' = "OK" => headers'.len = headers.len + n /\ result = "OK"
  BY <1>0, StoredFits DEF HeaderCallback, TypeOK, BuffersHold, GiveUp
<1>3. arrived' = [arrived EXCEPT !.headers = @ + n]
      /\ arrived' \in [body : Nat, headers : Nat] /\ arrived'.body = arrived.body
  BY DEF HeaderCallback, TypeOK
<1>4. TypeOK'
  BY <1>1, <1>3 DEF HeaderCallback, TypeOK, GiveUp, Stages, Sound
<1>5. BuffersHold'
  BY <1>1 DEF HeaderCallback, BuffersHold, Sound, TypeOK, Buffers, Sizes
<1>6. OkSoFar'
  <2>1. result' = "OK" => Gathered'
    BY <1>2, <1>3 DEF HeaderCallback, OkSoFar, Gathered, TypeOK
  <2> QED
    BY <1>2, <2>1 DEF HeaderCallback, OkSoFar, GiveUp, SentAsAsked, Verb, Payload, TypeOK, Stages
<1>7. ListSoFar' /\ HeaderListFreed'
  BY <1>3 DEF HeaderCallback, ListSoFar, HeaderListFreed, GiveUp, TypeOK, Stages
<1> QED
  BY <1>4, <1>5, <1>6, <1>7

LEMMA EndKeeps ==
    ASSUME TransferInv, Perform \/ CleanupHeaderList
    PROVE  TransferInv'
<1> USE DEF TransferInv, asked, answer, GiveUp
<1>1. TypeOK' /\ BuffersHold'
  BY RequestAssumption DEF Perform, CleanupHeaderList, TypeOK, BuffersHold, Stages
<1>2. OkSoFar'
  BY DEF Perform, CleanupHeaderList, OkSoFar, Gathered, SentAsAsked, Verb, Payload, TypeOK, Stages
<1>3. ListSoFar' /\ HeaderListFreed'
  BY DEF Perform, CleanupHeaderList, ListSoFar, HeaderListFreed, TypeOK, Stages, Requests
<1> QED
  BY <1>1, <1>2, <1>3

LEMMA StutterKeeps ==
    ASSUME TransferInv, UNCHANGED vars
    PROVE  TransferInv'
BY DEF TransferInv, vars, asked, answer, TypeOK, BuffersHold, OkSoFar, Gathered,
    SentAsAsked, Verb, Payload, ListSoFar, HeaderListFreed

-----------------------------------------------------------------------------
\* The inductive invariant of a transfer (worker.c:44-100, 129-274, 364-477).
THEOREM TransferInvariant == Spec => []TransferInv
<1>1. TransferInv /\ [Next]_vars => TransferInv'
  <2> SUFFICES ASSUME TransferInv, [Next]_vars PROVE TransferInv'
    OBVIOUS
  <2>1. CASE Ask
    BY <2>1, AskKeepsTypes, AskKeepsOk DEF TransferInv
  <2>2. CASE Answer
    BY <2>2, WriteCallbackKeeps, HeaderCallbackKeeps, EndKeeps DEF Answer
  <2>3. CASE Finished \/ UNCHANGED vars
    BY <2>3, StutterKeeps DEF Finished
  <2> QED
    BY <2>1, <2>2, <2>3 DEF Next
<1> QED
  BY <1>1, TransferInit, PTL DEF Spec

\* The callbacks of worker.c:44-100 write inside their blocks, whatever the
\* sizes of words, blocks and chunks.
THEOREM TransferBuffersHold == Spec => []BuffersHold
<1>1. TransferInv => BuffersHold
  BY DEF TransferInv
<1> QED
  BY <1>1, TransferInvariant, PTL

\* RESPONSE_OK is pushed for whole transfers only (worker.c:130-267).
THEOREM TransferOkMeansDone == Spec => []OkMeansDone
<1>1. TransferInv => OkMeansDone
  BY DEF TransferInv, OkMeansDone, OkSoFar, ListSoFar
<1> QED
  BY <1>1, TransferInvariant, PTL

\* A header list outlives its transfer only when an option failed after it
\* was complete (worker.c:157-274).
THEOREM TransferHeaderListFreed == Spec => []HeaderListFreed
<1>1. TransferInv => HeaderListFreed
  BY DEF TransferInv
<1> QED
  BY <1>1, TransferInvariant, PTL
=============================================================================
