---------------------------- MODULE MCComponents ----------------------------
(***************************************************************************)
(* The parts that share no state with the session's protocol or with each  *)
(* other, for TLC: the WebSocket connection, the HTTP request, the JSON    *)
(* reader, the depth decoders, the decimals, the ladders of a book, the    *)
(* request budget, the reconnect delays, the latency histograms, the ring  *)
(* of single values and the threads of the tool.  Each behaviour is one of *)
(* one part; the others stay in their initial states.                      *)
(***************************************************************************)
EXTENDS WsClient, Http, Json, MCDepthDecoder, FixedPoint, Ladder, TokenBucket, Backoff, Histogram,
        SpscRing, MdTool

VARIABLE part    \* whose behaviour this is

(* Frames of every kind: messages whole and in fragments of the lengths    *)
(* around each limit, control frames, and frames with an error.            *)
F(op, fin, len) == [op |-> op, fin |-> fin, len |-> len, flaw |-> "none"]

MCFrames ==
  {F("text", TRUE, 1), F("text", FALSE, 2), F("binary", TRUE, 3),
   F("continuation", FALSE, 1), F("continuation", TRUE, 2),
   F("ping", TRUE, 1), F("close", TRUE, 0), F("close", TRUE, 1), F("text", TRUE, 4),
   [F("text", TRUE, 1) EXCEPT !.flaw = "bits"], [F("text", TRUE, 3) EXCEPT !.flaw = "length"]}

-----------------------------------------------------------------------------

Parts ==
  {"socket", "http", "json", "depth", "decimal", "book", "budget", "backoff", "latency",
   "ring", "tool"}

(* A part that is not looked at starts in one of its initial states. *)
PartsInit ==
  /\ part \in Parts
  /\ Init /\ JsonInit /\ TextInit /\ BookInit /\ BackoffInit /\ HistogramInit
  /\ RingInit /\ ToolInit
  /\ IF part = "http" THEN HttpInit
     ELSE HttpInit /\ response = CHOOSE r \in Responses : TRUE
  /\ IF part = "depth" THEN DecoderInit ELSE DecoderInit /\ fields = EmptyFields
  /\ IF part = "budget" THEN BucketInit
     ELSE BucketInit /\ weight = CHOOSE w \in Weights : TRUE

Stays(name, v) == part # name => UNCHANGED v

PartsNext ==
  /\ UNCHANGED part
  /\ Stays("socket", vars) /\ Stays("http", httpVars) /\ Stays("json", jsonVars)
  /\ Stays("depth", decoderVars) /\ Stays("decimal", text) /\ Stays("book", bookVars)
  /\ Stays("budget", bucketVars) /\ Stays("backoff", backoffVars)
  /\ Stays("latency", histogramVars) /\ Stays("ring", ringVars) /\ Stays("tool", toolVars)
  /\ \/ part = "socket" /\ Next
     \/ part = "http" /\ HttpNext
     \/ part = "json" /\ JsonNext
     \/ part = "depth" /\ DecoderNext
     \/ part = "decimal" /\ TextNext
     \/ part = "book" /\ BookNext
     \/ part = "budget" /\ BucketNext
     \/ part = "backoff" /\ BackoffNext
     \/ part = "latency" /\ HistogramNext
     \/ part = "ring" /\ RingNext
     \/ part = "tool" /\ ToolNext

partsVars ==
  <<part, vars, httpVars, jsonVars, decoderVars, text, bookVars, bucketVars, backoffVars,
    histogramVars, ringVars, toolVars>>

(* The fairness of the parts' own specifications.  Of the socket it is asked *)
(* only from when the peer has closed it, which is less.                     *)
PartsSpec ==
  /\ PartsInit /\ [][PartsNext]_partsVars
  /\ WF_vars(part = "socket" /\ peer = "closed" /\ Client)
  /\ WF_ringVars(part = "ring" /\ Pushing)
  /\ WF_ringVars(part = "ring" /\ Popping)
  /\ WF_toolVars(part = "tool" /\ Ending)
  /\ WF_toolVars(part = "tool" /\ SessionEnds)
  /\ WF_toolVars(part = "tool" /\ Metrics)

=============================================================================
