------------------------------ MODULE Transfer ------------------------------
(***************************************************************************)
(* One transfer of an HTTP worker (src/core/worker.c): how the request is  *)
(* given to libcurl, and how its callbacks gather the response.            *)
(*                                                                         *)
(* libcurl is external.  Between curl_easy_perform and its result it calls *)
(* header_callback for the header lines of every response on the way, the  *)
(* redirects it follows included, and for trailers after the body; it      *)
(* calls write_callback for chunks of the last response's body; a callback *)
(* that returns another number than it was given ends the transfer with an *)
(* error.  Bytes are counted, not modelled; sizes are size_t, so sums and  *)
(* products wrap at Word, and realloc gives no block above MaxAlloc.       *)
(***************************************************************************)
EXTENDS Integers

CONSTANTS Methods,        \* of a Request
          MaxLines,       \* bound: lines in the text of the request's headers
          Word,           \* 2^64
          MaxAlloc,       \* the largest block: PTRDIFF_MAX bytes
          MaxChunk,       \* what libcurl gives to a callback at once
          InitialCapacity \* INITIAL_CAPACITY

ASSUME SizeAssumption ==
    /\ Word \in Nat /\ MaxAlloc \in Nat /\ MaxChunk \in Nat /\ InitialCapacity \in Nat
    /\ 2 * MaxAlloc < Word
    /\ MaxAlloc + MaxChunk + 1 < Word

ASSUME RequestAssumption ==
    /\ Methods \subseteq {"GET", "POST", "PUT", "DELETE", "PATCH", "HEAD", "OPTIONS"}
    /\ MaxLines \in Nat

VARIABLES
    req,      \* the request: method, body and headers text present, its lines
    curl,     \* the handle: POST, CUSTOMREQUEST, POSTFIELDS, POSTFIELDSIZE
    stage,    \* where http_worker_routine is
    nodes,    \* curl_slist nodes allocated
    body, headers,  \* the buffers of the Response: length, capacity, block
    result,   \* response->result
    arrived   \* history: bytes libcurl received for each buffer

asked == <<req, curl, nodes>>
answer == <<body, headers, arrived>>
vars == <<asked, stage, result, answer>>

Requests == [method : Methods, body : BOOLEAN, text : BOOLEAN, lines : 0 .. MaxLines]
Stages == {"method", "headers", "lines", "options", "perform", "cleanup", "done"}
Empty == [len |-> 0, capacity |-> 0, block |-> 0]

\* calloc leaves result RESPONSE_OK.
Init ==
    /\ req \in Requests /\ (req.lines = 0 \/ req.text = TRUE)
    /\ curl = [post |-> FALSE, custom |-> "none", fields |-> FALSE, size |-> FALSE]
    /\ stage = "method"
    /\ nodes = 0
    /\ body = Empty /\ headers = Empty
    /\ result = "OK"
    /\ arrived = [body |-> 0, headers |-> 0]

-----------------------------------------------------------------------------
(* The request *)

\* RESPONSE_CURL_ERROR, and on to a cleanup label.
GiveUp(label) == result' = "CURL_ERROR" /\ stage' = label

\* Without POSTFIELDSIZE libcurl would take the length from a terminating
\* zero, which the copied body does not have.
WithFields(handle) ==
    IF req.body THEN [handle EXCEPT !.fields = TRUE, !.size = TRUE] ELSE handle

\* set_curl_method; any curl_easy_setopt in it may fail.  HEAD and OPTIONS
\* fall into the default case.
SetMethod ==
    /\ stage = "method"
    /\ \/ /\ req.method \in {"GET", "POST", "PUT", "DELETE", "PATCH"}
          /\ curl' = CASE req.method = "GET" -> curl
                       [] req.method = "POST" -> WithFields([curl EXCEPT !.post = TRUE])
                       [] OTHER -> WithFields([curl EXCEPT !.custom = req.method])
          /\ stage' = "headers"
          /\ UNCHANGED result
       \/ GiveUp("done") /\ UNCHANGED curl
    /\ UNCHANGED <<req, nodes, answer>>

\* set_curl_headers is called for a text only; parse_headers copies it first.
ParseHeaders ==
    /\ stage = "headers"
    /\ \/ stage' = (IF req.text THEN "lines" ELSE "options") /\ UNCHANGED result
       \/ req.text /\ GiveUp("done")
    /\ UNCHANGED <<asked, answer>>

\* Mutant of AppendLine: the nodes so far are not freed.
AppendLineKeeps ==
    /\ stage = "lines" /\ nodes < req.lines
    /\ \/ nodes' = nodes + 1 /\ UNCHANGED <<stage, result>>
       \/ UNCHANGED nodes /\ GiveUp("done")
    /\ UNCHANGED <<req, curl, answer>>

AppendLine ==
    /\ stage = "lines" /\ nodes < req.lines
    /\ \/ nodes' = nodes + 1 /\ UNCHANGED <<stage, result>>
       \/ nodes' = 0 /\ GiveUp("done")
    /\ UNCHANGED <<req, curl, answer>>

\* CURLOPT_HTTPHEADER.  A text of line ends only has no list, which is an error.
SetHeaders ==
    /\ stage = "lines" /\ nodes = req.lines
    /\ \/ nodes > 0 /\ stage' = "options" /\ UNCHANGED <<nodes, result>>
       \/ nodes' = 0 /\ GiveUp("done")
    /\ UNCHANGED <<req, curl, answer>>

\* URL, callbacks, timeouts, redirects and user agent; cleanup_curl is behind
\* the label that frees the list.
SetOptions ==
    /\ stage = "options"
    /\ \/ stage' = "perform" /\ UNCHANGED result
       \/ GiveUp("done")
    /\ UNCHANGED <<asked, answer>>

-----------------------------------------------------------------------------
(* The response *)

Wrap(n) == n % Word

\* max_size
Largest(a, b, c) == IF a > b THEN (IF a > c THEN a ELSE c) ELSE (IF b > c THEN b ELSE c)

\* Mutant of RequiredSize: nothing is kept free behind the chunk.
RequiredSizeTight(buffer, n, spare) == Wrap(buffer.len + n)

RequiredSize(buffer, n, spare) == Wrap(buffer.len + n + spare)

NewCapacity(buffer, n, spare) ==
    Largest(InitialCapacity, Wrap(buffer.capacity * 2), RequiredSize(buffer, n, spare))

\* Room for n bytes and some to spare: as it is, or after realloc.
Stored(buffer, n, spare) ==
    LET len == Wrap(buffer.len + n)
        c == NewCapacity(buffer, n, spare)
    IN IF RequiredSize(buffer, n, spare) <= buffer.capacity
       THEN {[len |-> len, capacity |-> buffer.capacity, block |-> buffer.block]}
       ELSE {[len |-> len, capacity |-> k, block |-> k] : k \in {c} \cap 0 .. MaxAlloc}

\* realloc may fail whatever it is asked for.
MayRefuse(buffer, n, spare) == RequiredSize(buffer, n, spare) > buffer.capacity

\* Mutant of WriteCallback: a chunk without room is skipped, not refused.
WriteCallbackSkips(n) ==
    /\ stage = "perform"
    /\ arrived' = [arrived EXCEPT !.body = @ + n]
    /\ \/ body' \in Stored(body, n, 0) /\ UNCHANGED <<stage, result>>
       \/ MayRefuse(body, n, 0) /\ UNCHANGED <<body, stage, result>>
    /\ UNCHANGED <<asked, headers>>

WriteCallback(n) ==
    /\ stage = "perform"
    /\ arrived' = [arrived EXCEPT !.body = @ + n]
    /\ \/ body' \in Stored(body, n, 0) /\ UNCHANGED <<stage, result>>
       \/ MayRefuse(body, n, 0) /\ UNCHANGED body /\ GiveUp("cleanup")
    /\ UNCHANGED <<asked, headers>>

\* One byte more, for the terminating zero behind the lines so far.
HeaderCallback(n) ==
    /\ stage = "perform"
    /\ arrived' = [arrived EXCEPT !.headers = @ + n]
    /\ \/ headers' \in Stored(headers, n, 1) /\ UNCHANGED <<stage, result>>
       \/ MayRefuse(headers, n, 1) /\ UNCHANGED headers /\ GiveUp("cleanup")
    /\ UNCHANGED <<asked, body>>

\* External: the transfer ends, well, or with an error (a timeout, the sixth
\* redirect, a connection that breaks) after any part of the response.
Perform ==
    /\ stage = "perform"
    /\ \/ arrived.headers > 0 /\ stage' = "cleanup" /\ UNCHANGED result
       \/ GiveUp("cleanup")
    /\ UNCHANGED <<asked, answer>>

\* cleanup_header_list: the response was pushed before.
CleanupHeaderList ==
    /\ stage = "cleanup"
    /\ nodes' = 0
    /\ stage' = "done"
    /\ UNCHANGED <<req, curl, result, answer>>

Ask == SetMethod \/ ParseHeaders \/ AppendLine \/ SetHeaders \/ SetOptions

Answer ==
    \/ \E n \in 0 .. MaxChunk : WriteCallback(n) \/ HeaderCallback(n)
    \/ Perform \/ CleanupHeaderList

\* The worker goes on to the next task.
Finished == stage = "done" /\ UNCHANGED vars

Next == Ask \/ Answer \/ Finished

Spec == Init /\ [][Next]_vars

-----------------------------------------------------------------------------
(* Properties *)

Sizes == 0 .. MaxAlloc
Buffers == [len : Sizes, capacity : Sizes, block : Sizes]

TypeOK ==
    /\ req \in Requests
    /\ stage \in Stages
    /\ nodes \in 0 .. MaxLines
    /\ body \in Buffers /\ headers \in Buffers
    /\ result \in {"OK", "CURL_ERROR"}
    /\ arrived \in [body : Nat, headers : Nat]

\* No byte is written behind a block, whatever the chunks and however large
\* the response: the callbacks count in the capacity they allocated, and the
\* headers always have room for their terminating zero (worker.c:51-67,
\* 79-96).
BuffersHold ==
    /\ body.block = body.capacity /\ body.len <= body.block
    /\ headers.block = headers.capacity
    /\ headers # Empty => headers.len < headers.block

\* What libcurl sends.  POST without POSTFIELDS reads standard input.
Verb == IF curl.custom # "none" THEN curl.custom ELSE IF curl.post THEN "POST" ELSE "GET"
Payload == IF curl.fields THEN (IF curl.size THEN "body" ELSE "overread")
           ELSE IF curl.post THEN "stdin" ELSE "nothing"

\* Two requests are not sent as they say: a GET without the body it has, a
\* POST that has none.
SentAsAsked ==
    /\ Verb = req.method
    /\ Payload = CASE req.method = "GET" -> "nothing"
                   [] req.method = "POST" /\ ~ req.body -> "stdin"
                   [] OTHER -> IF req.body THEN "body" ELSE "nothing"

Gathered == body.len = arrived.body /\ headers.len = arrived.headers

\* A worker that reports RESPONSE_OK has sent what the Request says and holds
\* all that came back, although RESPONSE_OK is what calloc leaves in the field
\* and a chunk may have been refused (worker.c:130, 241-265, 364-433).
OkMeansDone ==
    stage = "done" /\ result = "OK" => SentAsAsked /\ Gathered /\ nodes = 0

\* The list of the request's headers is freed on every way out but one: an
\* option that fails after it was built (worker.c:157-274, 435-477).
HeaderListFreed ==
    stage = "done" /\ nodes > 0 =>
        nodes = req.lines /\ result = "CURL_ERROR" /\ arrived.headers = 0

-----------------------------------------------------------------------------
(* The inductive invariant behind them *)

\* As long as nothing failed, the handle is as asked and no byte was dropped.
OkSoFar ==
    /\ stage = "method" =>
          curl = [post |-> FALSE, custom |-> "none", fields |-> FALSE, size |-> FALSE]
    /\ result = "OK" => Gathered
    /\ result = "OK" /\ stage # "method" => SentAsAsked
    /\ result = "CURL_ERROR" => stage \in {"cleanup", "done"}

\* A list that is still there at the end is the whole one.
ListSoFar ==
    /\ stage \in {"method", "headers"} => nodes = 0
    /\ nodes <= req.lines
    /\ stage \in {"options", "perform", "cleanup"} /\ nodes > 0 => nodes = req.lines
    /\ stage \notin {"perform", "cleanup", "done"} => arrived.headers = 0
    /\ stage = "done" /\ result = "OK" => nodes = 0

TransferInv == TypeOK /\ BuffersHold /\ OkSoFar /\ ListSoFar /\ HeaderListFreed
=============================================================================
