------------------------------- MODULE MdTool -------------------------------
(***************************************************************************)
(* The bowst-md tool (main.rs) and the metrics endpoint it runs            *)
(* (bowst-telemetry server.rs): the main thread that watches the board and *)
(* then ends everything, the market-data thread whose handler writes the   *)
(* board, and the metrics thread, which serves one client at a time and is *)
(* joined when the server is dropped, on every way out of main.            *)
(*                                                                         *)
(* The board's mutex is held for one step at a time and nothing is awaited *)
(* under it, so every use of the board is one action.  MdSession has what  *)
(* the session does; here it is any sequence of statuses.  Clients may do  *)
(* anything: a read or write returns at the latest after io_timeout.       *)
(***************************************************************************)
EXTENDS Naturals, FiniteSets

CONSTANTS
  Configured,   \* the instruments of the session
  MaxRequest,   \* MAX_REQUEST, in units of a read
  DrainLimit    \* DRAIN_LIMIT

ASSUME ToolAssumption == {MaxRequest, DrainLimit} \subseteq Nat /\ IsFiniteSet(Configured)

VARIABLES
  main,         \* where main is
  exitCode,     \* "", "success" or "failure"
  everLive,     \* what watch has seen live
  stopSession,  \* the flag the session polls
  md,           \* the market-data thread: "unborn", "running", "done" or "panicked"
  boardLive,    \* Board::live, a partial map
  reportedLive, \* the instruments the session ever reported live
  mismatched,   \* MdStats::verification_mismatches is not 0
  stopServer,   \* MetricsServer::stop
  metrics,      \* the metrics thread
  head,         \* bytes of the request read
  drained       \* bytes discarded after the response

mdVars == <<md, boardLive, reportedLive, mismatched>>
metricsVars == <<metrics, head, drained>>
toolVars == <<main, exitCode, everLive, stopSession, mdVars, stopServer, metricsVars>>

ToolInit ==
  /\ main = "setup" /\ exitCode = "" /\ everLive = {}
  /\ stopSession = FALSE /\ stopServer = FALSE
  /\ md = "unborn" /\ boardLive = [i \in {} |-> FALSE] /\ reportedLive = {} /\ mismatched = FALSE
  /\ metrics = "none" /\ head = 0 /\ drained = 0

-----------------------------------------------------------------------------
(* main *)

\* start_metrics, with or without --metrics
StartMetrics ==
  /\ main = "setup"
  /\ main' = "session"
  /\ metrics' \in {"none", "serve"}
  /\ UNCHANGED <<exitCode, everLive, stopSession, mdVars, stopServer, head, drained>>

\* Arguments, instruments, the server, the session, the journal or a thread cannot be
\* had: main returns, and drops what it has.
SetupFails ==
  /\ main \in {"setup", "session"}
  /\ exitCode' = "failure"
  /\ main' = "drop"
  /\ UNCHANGED <<everLive, stopSession, mdVars, stopServer, metricsVars>>

SpawnSession ==
  /\ main = "session"
  /\ main' = "watch"
  /\ md' = "running"
  /\ UNCHANGED <<exitCode, everLive, stopSession, boardLive, reportedLive, mismatched, stopServer,
                 metricsVars>>

\* Mutant: an instrument on the board counts, live or not.
SampleAny == DOMAIN boardLive

\* What is live on the board now
Sample == {i \in DOMAIN boardLive : boardLive[i]}

\* watch, once a second; a thread that panicked may have left the board's mutex poisoned.
Watch ==
  /\ main = "watch"
  /\ \/ everLive' = everLive \cup Sample
     \/ md = "panicked" /\ UNCHANGED everLive
  /\ UNCHANGED <<main, exitCode, stopSession, mdVars, stopServer, metricsVars>>

\* The time is over.
WatchEnds ==
  /\ main = "watch"
  /\ main' = "join"
  /\ stopSession' = TRUE
  /\ UNCHANGED <<exitCode, everLive, mdVars, stopServer, metricsVars>>

JoinSession ==
  /\ main = "join"
  /\ \/ md = "done" /\ main' = "journal" /\ UNCHANGED exitCode
     \/ md = "panicked" /\ main' = "drop" /\ exitCode' = "failure"
  /\ UNCHANGED <<everLive, stopSession, mdVars, stopServer, metricsVars>>

\* finish_journal, or no journal
FinishJournal ==
  /\ main = "journal"
  /\ \/ main' = "judge" /\ UNCHANGED exitCode
     \/ main' = "drop" /\ exitCode' = "failure"
  /\ UNCHANGED <<everLive, stopSession, mdVars, stopServer, metricsVars>>

Judge ==
  /\ main = "judge"
  /\ exitCode' = IF ~ mismatched /\ Cardinality(everLive) = Cardinality(Configured)
                 THEN "success" ELSE "failure"
  /\ main' = "drop"
  /\ UNCHANGED <<everLive, stopSession, mdVars, stopServer, metricsVars>>

\* MetricsServer::shutdown, by Drop: set the flag, then join
DropMetrics ==
  /\ main = "drop"
  /\ stopServer' = TRUE
  /\ main' = IF metrics = "none" THEN "exited" ELSE "join metrics"
  /\ UNCHANGED <<exitCode, everLive, stopSession, mdVars, metricsVars>>

JoinMetrics ==
  /\ main = "join metrics" /\ metrics = "done"
  /\ main' = "exited"
  /\ UNCHANGED <<exitCode, everLive, stopSession, mdVars, stopServer, metricsVars>>

\* main once the time is over
Ending == WatchEnds \/ JoinSession \/ FinishJournal \/ Judge \/ DropMetrics \/ JoinMetrics

Main == StartMetrics \/ SetupFails \/ SpawnSession \/ Watch \/ Ending

-----------------------------------------------------------------------------
(* The market-data thread: Recorder::on_status *)

Put(i, isLive) == [j \in DOMAIN boardLive \cup {i} |-> IF j = i THEN isLive ELSE boardLive[j]]

InstrumentLive(i) ==
  /\ md = "running"
  /\ boardLive' = Put(i, TRUE)
  /\ reportedLive' = reportedLive \cup {i}
  /\ UNCHANGED <<md, mismatched, main, exitCode, everLive, stopSession, stopServer, metricsVars>>

InstrumentDown(i) ==
  /\ md = "running"
  /\ boardLive' = Put(i, FALSE)
  /\ mismatched' \in {mismatched, TRUE}
  /\ UNCHANGED <<md, reportedLive, main, exitCode, everLive, stopSession, stopServer, metricsVars>>

Disconnected ==
  /\ md = "running"
  /\ boardLive' = [i \in DOMAIN boardLive |-> FALSE]
  /\ UNCHANGED <<md, reportedLive, mismatched, main, exitCode, everLive, stopSession, stopServer,
                 metricsVars>>

\* The session sees the flag and returns, or panics at any time.
SessionEnds ==
  /\ md = "running"
  /\ \/ stopSession /\ md' = "done"
     \/ md' = "panicked"
  /\ UNCHANGED <<boardLive, reportedLive, mismatched, main, exitCode, everLive, stopSession,
                 stopServer, metricsVars>>

-----------------------------------------------------------------------------
(* The metrics thread *)

Others == <<main, exitCode, everLive, stopSession, mdVars, stopServer>>

\* serve: the flag, then accept; without a client it sleeps and comes back.
Serve ==
  /\ metrics = "serve"
  /\ IF stopServer THEN metrics' = "done"
     ELSE metrics' \in {"serve", "read"}
  /\ head' = 0 /\ drained' = 0
  /\ UNCHANGED Others

\* Mutant: a request may be as long as it likes.
TooLargeNever(n) == FALSE

TooLarge(n) == n > MaxRequest

\* read_head, one read: part of the head, all of it, more than is accepted, or the end of
\* the client's data.  The count starts over behind the first length that is refused.
ReadHead ==
  /\ metrics = "read"
  /\ head' = (head + 1) % (MaxRequest + 2)
  /\ metrics' \in IF TooLarge(head') THEN {"respond"} ELSE {"read", "respond"}
  /\ UNCHANGED <<drained, Others>>

\* write_all of the response, which render makes from the board
Respond ==
  /\ metrics = "respond"
  /\ metrics' = "drain"
  /\ UNCHANGED <<head, drained, Others>>

\* One read of what the client still sends
Drain ==
  /\ metrics = "drain"
  /\ IF drained < DrainLimit
     THEN drained' = drained + 1 /\ metrics' \in {"drain", "serve"}
     ELSE metrics' = "serve" /\ UNCHANGED drained
  /\ UNCHANGED <<head, Others>>

\* An error or the time-out ends the exchange, and affects no other client.
ExchangeFails ==
  /\ metrics \in {"read", "respond"}
  /\ metrics' = "serve"
  /\ UNCHANGED <<head, drained, Others>>

Metrics == Serve \/ ReadHead \/ Respond \/ Drain \/ ExchangeFails

ToolNext ==
  \/ Main \/ Metrics
  \/ \E i \in Configured : InstrumentLive(i) \/ InstrumentDown(i)
  \/ Disconnected \/ SessionEnds

ToolSpec == ToolInit /\ [][ToolNext]_toolVars

-----------------------------------------------------------------------------

\* The tool succeeds only if every instrument was live at some time, no verification
\* failed, and the session and the metrics thread are over.  (watch samples the board, so
\* an instrument that was live between two samples only is missed: main.rs:356 says "the
\* instruments that were ever live".)
SuccessIsEarned ==
  /\ exitCode = "success" => reportedLive = Configured /\ ~ mismatched
  /\ main = "exited" => md # "running" /\ metrics \in {"none", "done"}

\* The tool comes to its end whatever clients the metrics endpoint has at the time: every
\* read and write of an exchange is bounded, and there are boundedly many of them
\* (server.rs:153-208).
ToolExits == main = "watch" ~> main = "exited"

=============================================================================
