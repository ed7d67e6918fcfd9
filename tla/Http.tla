-------------------------------- MODULE Http --------------------------------
(***************************************************************************)
(* bowst-venue: one HTTP request of the snapshot thread (net/http.rs and   *)
(* require_ok of binance/rest.rs).  get reads until the connection ends,   *)
(* wherever that is, and parse_response then decides from the framing      *)
(* whether all of the response is there.                                   *)
(*                                                                         *)
(* A response is counted in units: a unit of the headers, a byte of the    *)
(* body, a line with the size of a chunk, or the line end after a chunk.   *)
(***************************************************************************)
EXTENDS Integers, Sequences, SequencesExt, FiniteSets

CONSTANTS
  MaxBody,      \* max_body
  MaxHeaders,   \* MAX_HEADERS
  Heads         \* the sizes of the headers that are sent

ASSUME HttpAssumption == {MaxBody, MaxHeaders} \subseteq Nat /\ Heads \subseteq Nat \ {0}

VARIABLES
  response,   \* what the server sends
  received,   \* how much of it is in `raw`
  bodyRead,   \* `body`
  status      \* "reading", "ok" or the error

httpVars == <<response, received, bodyRead, status>>

\* How the headers frame the body.  "both" and "conflict" are contradictory headers,
\* "coded" is a transfer or content encoding that is not supported, and "bad" a status
\* line or a header that is none.
Framings == {"length", "chunked", "close", "both", "conflict", "coded", "bad"}

\* The ways to send `size` bytes in chunks: the set of the places where one ends.
Chunkings(size) == {ends \in SUBSET (1 .. size) : size > 0 => size \in ends}

Responses ==
  UNION {[head : Heads, framing : Framings, size : {n}, ends : Chunkings(n), code : {200, 429}]
           : n \in 0 .. MaxBody + 1}

Unit(what, n) == [what |-> what, n |-> n]

\* Byte k of the body; in front of it the size line if a chunk begins, behind it the
\* line end if one ends.
ByteOf(r, k) ==
  LET begins == k = 1 \/ k - 1 \in r.ends
      end == CHOOSE e \in r.ends : e >= k /\ \A f \in r.ends : f >= k => e <= f
  IN  IF r.framing # "chunked" THEN <<Unit("byte", k)>>
      ELSE (IF begins THEN <<Unit("size", end - k + 1)>> ELSE <<>>)
             \o <<Unit("byte", k)>>
             \o (IF k \in r.ends THEN <<Unit("line end", 0)>> ELSE <<>>)

Sent(r) ==
  [k \in 1 .. r.head |-> Unit("header", k)]
    \o FlattenSeq([k \in 1 .. r.size |-> ByteOf(r, k)])
    \o (IF r.framing = "chunked" THEN <<Unit("size", 0)>> ELSE <<>>)

-----------------------------------------------------------------------------
(* parse_response and decode_chunked *)

\* Mutant: a chunk is whatever there is of it.
ChunkIsShortLenient(s) == FALSE

\* The connection ended before the chunk did.
ChunkIsShort(s) == s.phase # "done"

\* decode_chunked, one unit.  phase is what the loop waits for: a size line, `left`
\* bytes of a chunk, the line end behind it.
ChunkUnit(s, u) ==
  IF s.phase \in {"done", "error"} THEN s
  ELSE IF s.phase = "size" /\ u.what = "size" /\ u.n = 0 THEN [s EXCEPT !.phase = "done"]
  ELSE IF s.phase = "size" /\ u.what = "size"
    THEN IF Len(s.body) + u.n > MaxBody
         THEN [s EXCEPT !.phase = "error", !.error = "TooLarge"]
         ELSE [s EXCEPT !.phase = "bytes", !.left = u.n]
  ELSE IF s.phase = "bytes" /\ u.what = "byte"
    THEN [s EXCEPT !.body = Append(@, u), !.left = @ - 1,
                   !.phase = IF s.left = 1 THEN "line end" ELSE "bytes"]
  ELSE IF s.phase = "line end" /\ u.what = "line end" THEN [s EXCEPT !.phase = "size"]
  ELSE [s EXCEPT !.phase = "error", !.error = "Malformed"]

Result(error, bytes) == [error |-> error, body |-> bytes]

DecodeChunked(rest) ==
  LET start == [phase |-> "size", left |-> 0, body |-> <<>>, error |-> ""]
      after[k \in 0 .. Len(rest)] == IF k = 0 THEN start ELSE ChunkUnit(after[k - 1], rest[k])
      s == after[Len(rest)]
  IN  IF s.phase = "error" THEN Result(s.error, <<>>)
      ELSE IF ChunkIsShort(s) THEN Result("TruncatedBody", <<>>)
      ELSE Result("", s.body)

ParseResponse(r, raw) ==
  LET rest == SubSeq(raw, r.head + 1, Len(raw)) IN
  IF Len(raw) < r.head THEN Result("IncompleteHeaders", <<>>)
  ELSE IF r.head > MaxHeaders THEN Result("TooLarge", <<>>)
  ELSE IF r.framing \in {"bad", "both", "conflict"} THEN Result("Malformed", <<>>)
  ELSE IF r.framing = "coded" THEN Result("Unsupported", <<>>)
  ELSE IF r.framing = "chunked" THEN DecodeChunked(rest)
  ELSE IF r.framing = "length"
    THEN IF r.size > MaxBody THEN Result("TooLarge", <<>>)
         ELSE IF Len(rest) < r.size THEN Result("TruncatedBody", <<>>)
         ELSE Result("", SubSeq(rest, 1, r.size))
  ELSE IF Len(rest) > MaxBody THEN Result("TooLarge", <<>>)
  ELSE Result("", rest)

-----------------------------------------------------------------------------
(* get *)

HttpInit ==
  /\ response \in Responses
  /\ received = 0
  /\ bodyRead = <<>>
  /\ status = "reading"

\* One read; what would take the buffer past its limit is refused.
Receive(n) ==
  /\ status = "reading"
  /\ received + n <= Len(Sent(response))
  /\ IF received + n > MaxBody + MaxHeaders
     THEN status' = "TooLarge" /\ UNCHANGED received
     ELSE received' = received + n /\ UNCHANGED status
  /\ UNCHANGED <<response, bodyRead>>

\* The connection ends, after the whole response or in the middle of it, with or without
\* a TLS close_notify; then require_ok looks at the status.
EndOfStream ==
  /\ status = "reading"
  /\ LET parsed == ParseResponse(response, SubSeq(Sent(response), 1, received))
     IN  /\ bodyRead' = parsed.body
         /\ status' = IF parsed.error # "" THEN parsed.error
                      ELSE IF response.code # 200 THEN "Status"
                      ELSE "ok"
  /\ UNCHANGED <<response, received>>

\* Nothing comes for the time-out, or the socket fails.
ReadFails ==
  /\ status = "reading"
  /\ \E error \in {"Timeout", "Io"} : status' = error
  /\ UNCHANGED <<response, received, bodyRead>>

HttpNext == EndOfStream \/ ReadFails \/ \E n \in 1 .. MaxBody + MaxHeaders : Receive(n)

HttpSpec == HttpInit /\ [][HttpNext]_httpVars

-----------------------------------------------------------------------------

Body(r) == [k \in 1 .. r.size |-> Unit("byte", k)]

\* A body that is accepted is the server's, whole and without the framing, wherever the
\* connection broke; and a response that came whole and keeps within the limits is not
\* refused.  Without a length or chunks the end of the connection is the only sign, so
\* there the body may be a part (http.rs:135-141); TruncationIsCaught below does not
\* make that exception.
AcceptedIsWhole ==
  /\ status = "ok" => IF response.framing = "close"
                      THEN IsPrefix(bodyRead, Body(response))
                      ELSE bodyRead = Body(response)
  /\ received = Len(Sent(response)) /\ response.head <= MaxHeaders /\ response.size <= MaxBody
       /\ response.framing \in {"length", "chunked", "close"}
       => status \in {"reading", "ok", "Timeout", "Io"} \/ (status = "Status" /\ response.code # 200)

\* http.rs:222-223, of a connection that ends without a TLS close_notify: "the framing
\* checks in `parse_response` still catch any truncation".
TruncationIsCaught == status = "ok" => bodyRead = Body(response)

=============================================================================
