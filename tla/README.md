# Bowst market data: TLA+ models, checks and proofs

This project models the parts of Bowst that decide whether an order book may
be trusted: the synchronisation of a book with a venue's feed, the market-data
session that drives it, the continuous verification of live books, the
lock-free rings that threads exchange data through, the journal and its replay,
and the parts around them, from the bytes of a socket to the exit code of the
tool. Paths below are relative to the repository; `sync.rs` and `ladder.rs` are
in `crates/bowst-book/src/`, `books.rs`, `md.rs`, `depth.rs` and `replay.rs` in
`crates/bowst-venue/src/binance/`, `ring.rs`, `bytes_ring.rs` and `fixed.rs` in
`crates/bowst-core/src/`, `server.rs` in `crates/bowst-telemetry/src/`.

## 1. The system

| Part | State | Operations | Talks to | What makes it correct |
|---|---|---|---|---|
| `BookSync` (`sync.rs`) | live or awaiting, `last`, the book, the buffered deltas | `on_delta`, `on_snapshot`, `reset` | called by `MdBooks` | a readable book is the venue's book at `last`; the buffer is one chain |
| `Book`, `Ladder` (`book.rs`, `ladder.rs`) | sorted levels per side, horizon | `apply`, `load`, `clear` | called by `BookSync` | agrees with a map of prices within the horizon |
| `MdBooks` (`books.rs`) | one `BookSync` per instrument, one shadow for verification | `apply`, `on_snapshot`, `start_`/`cancel_verification`, `on_verification_snapshot`, `reset_all` | called by the session and by replay; reports to the handler | no false mismatch; the shadow is compared at the same update only |
| `MdSession` (`md.rs`) | snapshot state per instrument, generation, verification in progress, cursor | connect, drain, collect, request, schedule, take all down | WebSocket, job and result channels, handler, journal | one request per book that is down; nothing from an old connection is used; every book comes back |
| `SnapshotWorker` (`md.rs`) | current job, request budget, pause | take a job, fetch, answer | job and result channels, REST | answers every job once, in order |
| SPSC ring (`ring.rs`) | slots, head, positions, cached head | `push`, `pop` | two threads, shared memory | a bounded FIFO without data races |
| Byte ring (`bytes_ring.rs`) | bytes, head, tail, cached copies | `write_with`, `read_with` | two threads | the same for records of any size |
| Journal (`bowst-journal`) | ring, pending gap, segment files | `append`, write, rotate, flush, sync, `finish`; open and read | session, disk | nothing lost in silence; readable after a crash |
| Replay (`replay.rs`) | `MdBooks` | one call per record | journal | reproduces the session |
| Rate limit, backoff | balance; attempt | `try_take`, `observe_used`; `next_delay`, `reset` | snapshot thread; session | stays within the budget; bounded delay |
| WebSocket reader and client (`ws/`) | buffer, message, consumed | `spare`, `commit`, `next_event`; `connect`, `fill`, `send` | socket, session | the same events however the bytes are chunked |
| HTTP (`net/http.rs`) | what was received | `get`, `parse_response` | snapshot thread | a body that is accepted is whole |
| JSON reader, decoders (`json.rs`, `levels.rs`, `depth.rs`) | position, depth, `after_value`; fields | `next_key`, `next_element`, values, `skip`; `decode` | session, replay | the structure of a text is JSON's, whatever its scalars hold; the order of fields does not matter |
| Decimals (`fixed.rs`) | none | parse, round, format | decoders | both paths agree; nothing is lost |
| Histogram (`histogram.rs`) | buckets, count, sum, extremes | `record`, `merge`, `reset`, percentiles | session | percentiles never understate |
| Metrics endpoint (`server.rs`) | stop flag, one client | serve, shutdown | tool, clients | always ends |
| `bowst-md` (`main.rs`) | board of live instruments, what was ever live | handler callbacks, watch loop, exit | session, journal, endpoint | shows a book live only while it is; succeeds only when it should |

TLS, the handshake's text, `exchange_info`, arguments and text rendering are
pure functions or I/O and hold no protocol state.

What is hard to test here: the snapshot thread answers at its own pace while
the stream, the connection and the verification it was asked for move on; a
delta may be lost, repeated or late on either side of a snapshot; the buffer
may fill at any point of a chain; a push and a pop interleave at every memory
access; counters wrap; a crash cuts a record in two; bytes arrive in any
pieces. `PROJECT.json` lists each of these hazards at its line
with the properties that watch it.

## 2. Modules

| Module | Models | Notes |
|---|---|---|
| `SeqRules` | the effect of each `BookSync` call on sequence numbers | constant operators, shared by `SeqSync` and `MdBooks` |
| `SeqSync` | abstract specification of a sync | a spec made of `SeqRules` |
| `BookSync` | `sync.rs` and the venue that feeds it | `on_delta` and `on_snapshot` have one action per way out |
| `MCBookSync` | `BookSync` with the newest delta heard as history | for the violation run |
| `BookSyncProofs` | theorems about `BookSync` | |
| `MdBooks` | `books.rs` | operators that give the set of results of a call |
| `MdSession` | `md.rs`: session loop, snapshot thread, channels, handler | uses `MdBooks` |
| `MCMdSession` | constants of `MdSession` for TLC | |
| `MdSessionProofs` | theorems about `MdSession` and `MdReplay` | |
| `Fifo` | abstract bounded queue | |
| `SpscRing` | `ring.rs` | one action per shared-memory access |
| `NatLemmas` | natural numbers: induction, recursion, sums, remainders | lemmas, used by the proofs |
| `SpscRingProofs` | theorems about `SpscRing` | |
| `RecordQueue` | abstract queue of records | a record is never refused while the queue is empty |
| `BytesRing` | `bytes_ring.rs` | one action per shared-memory access |
| `BytesRingProofs` | theorems about `BytesRing` | |
| `JournalFiles` | segments as `reader.rs` and `format.rs` see them | constant operators |
| `Journal` | `journal.rs`: producer, ring, writer thread, sessions | the ring is a `RecordQueue` |
| `JournalProofs` | theorems about `Journal` | |
| `MCCore` | `BookSync`, `BytesRing` and `Journal`, side by side | each behaviour is one of one part |
| `MdReplay` | the session's journal and `replay.rs` | composes `MdSession` with a second `MdBooks` |
| `MCMdReplay` | constants of `MdReplay` for TLC | |
| `WsClient` | `ws/reader.rs`, `ws/frame.rs`, `ws/client.rs` | |
| `Http` | `net/http.rs`, `require_ok` of `rest.rs` | |
| `Json` | `json.rs`, against a grammar | |
| `DepthDecoder` | `depth.rs`, `levels.rs` | |
| `MCDepthDecoder` | constants of `DepthDecoder` for TLC | |
| `FixedPoint` | `fixed.rs` | |
| `Ladder` | `ladder.rs`, `book.rs` | |
| `LadderProofs` | theorems about `Ladder` | |
| `TokenBucket` | `ratelimit.rs`, budget and pauses of the snapshot thread | |
| `Backoff` | `backoff.rs` as the session uses it | |
| `Histogram` | `histogram.rs` as the session uses it | |
| `MdTool` | threads of `main.rs`, `server.rs` | |
| `ComponentProofs` | theorems about `WsClient`, `Http`, `DepthDecoder`, `TokenBucket`, `Backoff` and `MdTool` | |
| `MCComponents` | `SpscRing` and the parts from `WsClient` on, side by side | each behaviour is one of one part |

**BookSync.** `venue[n]` is the venue's book after update `n`. A delta is any
range of updates with the quantities they leave behind, perhaps with one
invalid update added; it may be given to the sync at any time, any number of
times and in any order, and so may a snapshot of any age. This covers every
loss, duplication and reordering. `live`/`last` are `State`, `book` is the
`Book` as a map from side and price to quantity, `pending` is the buffer with
the number of updates it holds, `result` is what the last call returned. The
replay loop of `on_snapshot` is described by what holds before each message
(`Used`, `Unreachable`, `InvalidUse`, `StopsAt`) instead of by recursion, which
is also what makes it provable.

**MdBooks and MdSession.** A sync is what `SeqRules` says of it, plus the
snapshot `base` that its book was built on. That is justified by the proof
that `BookSync` implements `SeqSync` and that its book is the venue's. Errors
that `BookSync` would meet in the data (invalid, crossed, overflow) are
choices of `SeqRules`. The stream may misreport one update per instrument,
`Misreported[i]`, which is what verification exists to find. `compare` looks at
the top `VERIFY_LEVELS` levels of each side only, so what it finds depends on
where the misreported level stands: `InReach[i]`, a parameter, are the updates
after which that level is among those, and `Differ` sees a wrong book only after
one of them. Books that stand at different updates count as different.
That a snapshot has a last level too, beyond which the shadow knows nothing,
is not modelled: `VERIFY_LEVELS` is far less than what a snapshot holds, unless
so many of its levels have gone since. `pc` is the place
in the session loop: "drain" (messages are handled, or the connection is
dropped), "collect", "request", "schedule", and "down" between connections,
"stopped" at the end. A turn of the loop that finds no message, no result and
nothing due passes through all of them. `shown` is the board of
`bowst-md` (`Recorder::on_status`). The snapshot thread takes a job, gets the
venue's book as of that moment, and answers, or fails, later. Clocks are
choices: a retry may come due at any time, a verification may be due or
time out at any turn.

**SpscRing.** Each action is one access to shared memory; the counters wrap
at `Wrap` (a multiple of the capacity, as 2^64 is). Atomics are sequentially
consistent in the model. The values in the slots are plain memory; `NoSlotRace`
shows that producer and consumer are never both about to touch the same slot.

**BytesRing.** Memory is counted in words of `ALIGN` bytes, since headers are
one word and payloads are padded to whole words. A word is a number, so that a
payload word can look like a header or like the wrap marker. `Payloads`, what
`write_with` is called with, is a parameter: any sequences of words in the
proofs, and for TLC ones that repeat one word, so that a mixture of two records
is none. `skip`, `start` and
`needed` of `write_with` are `Skip`, `StartsAt` and `Needed`. `queue` is a history
variable: the records published and not yet removed. A region that would run
past the end stops the thread, as the code does; `RegionsInBounds` shows that
this never happens.

**Journal.** A file header takes one unit of a segment and a record two, a
header and a payload, so that a crash can fall between them. A segment knows
how far it was written (`size`), how much of that the system has (`os`) and how
much the disk has (`synced`). A crash of the process keeps what the system has,
a power failure any part of that from `synced` on; a disk fault fails one
operation or damages one unit. Records of a
session are numbered in the order of the calls of `append`, dropped ones
included, which is what lets a reader's view be compared with what was
appended. Sessions follow one another in the same directory.

**MdReplay.** `replayed` are the books of a replay that has read all records
so far. Records come from the session's own steps. `followed` says that so far
the replay has had the session's book of every instrument; from the moment it
has not, there is nothing left to compare.

**WsClient.** A byte is named by its place in a frame, so any mix-up of bytes
shows. The server sends any frames of a set, with the limits of
`ReaderConfig`, the 16- and 64-bit lengths and the flaws the parser looks for
scaled down; the client reads any number of the bytes that are there.

**Http, Json, DepthDecoder.** A response is a sequence of header units, body
bytes and chunk lines, cut anywhere. The JSON reader sees a text token by
token, written while it is read, and is compared with a grammar that keeps its
own stack. It is a grammar of structure: the code only finds where a number or
a string ends, so a run of number characters such as `1-2` is a value to it
(token "run"), and so is a string with any character after a backslash. A depth message is a sequence of keys with values, in any order, in
an envelope or not.

**FixedPoint, Ladder, TokenBucket, Backoff, Histogram.** Widths, capacities
and limits are parameters with small values. Texts are typed character by
character, as overflow and trailing zeros are what the two paths differ in. The
ladder is compared with the venue's whole side. `TokenBucket` remembers how much
was taken since each moment; `Histogram` remembers every value.

**MdTool.** The session is any sequence of statuses; clients of the endpoint
may do anything. The board's mutex is held for one step and nothing is awaited
under it. A session that panics may leave it poisoned.

Mutated definitions used to test the properties are kept beside the originals
and are marked "Mutant". They are not part of any specification.

## 3. Runs

| Run | Question | Bounds | Result |
|---|---|---|---|
| `core`, book sync | is a readable book ever wrong, is the buffer ever broken, does the sync follow `SeqSync`? | 2 prices, quantities 0 and 1, 4 updates, 3 messages, 4 updates buffered | holds |
| `core`, byte ring | is the byte ring a queue of whole records, race-free, in bounds, and does its reader never stall? | 8 words (the smallest capacity), counters wrap at 16, records of 0 and 3 words (the largest) and one too large, payloads of two words, one of which looks like the wrap marker | holds |
| `core`, journal | is a journal ever incomplete without a mark, is `finish` to be trusted, does it return? | segments of 3 units (a file header and a record), ring of 2, 3 and then 1 appends, 2 sessions, 1 fault | holds, 932,920 states with the two above |
| `booksync_stale` | is a readable book ever older than what was received? | room for 1 update | violated, see 6 |
| `session` | do requests, books, handler, verification and replay stay consistent? | 1 instrument, 3 updates, 2 lost connections, 1 early timeout; the wrong level in reach after update 2 | holds, 546,306 states |
| `session_two` | the same for what instruments share | 2 instruments, 1 update, 1 lost connection | holds, 1,058,730 states |
| `session_live` | does every book come back, and is a wrong one found? | 1 instrument, 3 updates, 1 lost connection; the wrong level in reach after the last update only | holds, 127,718 states |
| `session_tracked` | does the session know which verification is running? | as `session`, smaller | violated, see 6 |
| `replay_exact` | does a replay have the session's books and statuses? | as `session`, smaller | violated, see 6 |
| `journal_silent` | is every drop marked? | 1 session, no fault | violated, see 6 |
| `journal_restart` | can a journal be read after a crash? | 2 sessions, no fault | violated, see 6 |
| `components` | is the ring of single values a bounded queue, race-free, without lost elements, and is each of the other parts correct on its own? | see below | holds, 765,119 states |
| `http_truncated` | is every truncated body refused? | as in `components` | violated, see 6 |
| `depth_bids_first` | do the bids come before the asks? | as in `components` | violated, see 6 |

Why the bounds are enough: a chain break, a restart for messages, a restart
for updates and an overlapping delta all fit in 4 updates with 3 messages (and
the theorems lift the bounds altogether). In `session`, two lost connections
let results of two older generations meet the current one, three updates leave
room for a gap while live, a rebuilt book and a verification across it, and one
early timeout lets a snapshot arrive for the wrong verification. In
`session_live` a verification can pass the wrong book while the level is out of
reach, and a later one has to find it. The ring (capacity 4, two values) has
counters that wrap at twice the capacity, the smallest value at which a slot's
old and new sequence numbers can still be told apart in every lap. In the byte ring
records of 0 and of 3 words, 1 and 4 with their header, bring the write
position to every index, where the end of the buffer leaves room for a record
exactly, or for 1, 2 or 3 words to skip.

In the journal every record but the first of a session rotates, a drop can come
before, between and after records that fit, and the second session finds whatever the first one left. In `components`:
three frames of lengths around each limit in a buffer that holds the largest
frame and its header and no more, so that compaction happens at every offset
(socket); bodies up to one byte over the limit in every division into chunks
(http); texts of up to 9 tokens, 2 deep (json); two known symbols with
different ticks and every order of fields, the bids perhaps twice (depth); all
texts of 5 characters with an i64 of 8 bits and an i128 of 16 (decimal); 2 of 4
prices kept, so that levels are dropped and come back (book); a window of 4,
weights below and above the capacity (budget); a shift of 3 bits with more
attempts than that (backoff); 3 samples of a 6-bit value at every kind of
bucket edge (latency); 2 instruments and 2 reads of a request (tool).

`TypeOK` of `MdSession`, `SpscRing`, `BytesRing`, `Journal` and `WsClient` is
left out of the runs. It holds there too, and says less than the others; it is
part of what is proved.

`MaxTimeouts` bounds only timeouts of verifications that could still settle;
one that is stuck may always time out. `CHECK_DEADLOCK FALSE` in the session,
journal and components runs: a stopped session, a finished journal, a parsed
text and a tool that has exited stop. In `core` deadlock is checked; a journal
that is at its end rests there (`JournalRests`).

**Fairness.** `SpscRing`: a push that was begun is finished (`Pushing`) and the
consumer keeps polling, as its loop does (`Popping`); no push need be begun.
`PushedIsPopped` says that of a queue that is not empty an element is popped;
with `ImplementsFifo` that is every element in its turn. `BytesRing`: the
reader (the journal's writer thread) keeps calling `read_with` (`Reading`). `MdSession`: the
loop and the snapshot thread keep running (neither blocks for ever: reads
time out, the queues are unbounded), timers come due, and the connection is
made again after a loss. Strong fairness is assumed of the venue only: of
infinitely many requests for an instrument some succeed, of infinitely many
usable snapshots some hold valid data, and what is on the stream is delivered.
Without that no program could bring a book up. `Journal`: the writer thread
keeps running (`Writing`); the producer need not. `WsClient`: the loop of `stream` keeps
polling, and a socket with bytes returns some; `components` asks that only of a
connection the peer has closed. `MdTool`: the watch ends (it is a
count of seconds), the session notices its stop flag, and the metrics thread
keeps running, since every read and write has a timeout; nothing is assumed of
clients. Verification is due again and
again while the session runs. Liveness is checked with a finite number of venue
updates: that a stream which outruns every snapshot for ever could keep a book
down is a property of the protocol and outside these models.

## 4. Proofs

The theorems hold for every value of the constants that meets the named
assumptions of the module concerned, not only for the bounds of the runs. Each
rests on an inductive invariant, which TLC checked on the run's instance, or on
a smaller one, before it was proved: `IInv`, and where a module proves several
parts `ReplayInv`, `BucketInv`, `BackoffInv`, `ToolInv`, `DecoderInv`, `HttpInv`,
`WsInv` and `BookInv`.

| Module | Theorems that lift a run's property | Assumes |
|---|---|---|
| `BookSyncProofs` | `TypeCorrect`, `LiveBookCorrect`, `BufferCorrect`, `SnapshotRefusal`, `OutcomeCorrect`, `Refinement` (`BookSync` implements `SeqSync`) | prices are finite, quantities include 0, sizes are positive |
| `MdSessionProofs` | `SessionOneSyncRequest`, `SessionLiveMeansIdle`, `SessionLiveBookIsOfThisConnection`, `SessionHandlerKnows`, `SessionVerifiedBookIsLive`, `SessionMismatchIsReal` | at least one instrument; the bounds are natural numbers; `Misreported` and `InReach` give each instrument an update and a set of updates, any whatever |
| `MdSessionProofs`, of `MdReplay` | `ReplayLeavesRightly` | the same |
| `SpscRingProofs` | `RingNoSlotRace`, `RingImplementsFifo` | a capacity of at least 2 that divides the width of the counters, as a power of two divides 2^64 |
| `BytesRingProofs` | `BytesNoRegionRace`, `BytesRegionsInBounds`, `BytesImplementsRecordQueue` | an even capacity of at least 8 words that divides the width of the counters |
| `JournalProofs` | `JournalNeverSilentlyIncomplete`, `JournalFinishIsComplete` | a segment holds a file header and a record; the bounds are natural numbers |
| `LadderProofs` | `LadderKnownLevelsAreExact` | at least one level is kept and one price exists |
| `ComponentProofs`, of `TokenBucket` | `BucketBudgetIsKept`, `BucketOneSleepIsEnough` | a positive window |
| `ComponentProofs`, of `Backoff` | `BackoffDelaysSlowDown` | delays and width are natural numbers |
| `ComponentProofs`, of `DepthDecoder` | `DecoderIgnoresOrder` | positive increments; level arrays are sequences of levels with integer prices and quantities |
| `ComponentProofs`, of `Http` | `HttpAcceptsOnlyWholeBodies` | the limits are natural numbers, and there are headers |
| `ComponentProofs`, of `WsClient` | `WsDeliversTheFrames`, `WsEndsWhereTheServerSays` | the buffer holds the largest frame and what one read of the handshake brings; a frame has an opcode, a length and perhaps a flaw; the limits are natural numbers |
| `ComponentProofs`, of `MdTool` | `ToolSuccessIsEarned` | finitely many instruments are configured |

**BookSync.** The invariants are not inductive one by one. `IInv` joins the
type invariant and the chain property with two facts the code relies on
silently: every buffered message is one the venue really sent (`VenueData`),
and a hidden book is empty. From these the replay of any buffer over any
snapshot reaches the venue's book at the final cursor (`ReplayReaches`). Its
core is `Carry`: between the point where the replay starts, or the last message
that sets a level, and any later used message, a level that no message sets
does not change at the venue. Loops are argued about through their first
offending message (`LeastNat`). The refinement then only needs the chain: on a
chain, the cursor ends at the chain's end or at the snapshot
(`FinalCursorOnChain`).

**MdSession.** The properties of the run hold together or not at all, and need
five facts about what is on its way between the threads. Requests match states
(`RequestsAreMatched`) only because nothing on its way is of a connection yet
to come (`GenerationsArePast`). That no mismatch is reported without cause
needs that the shadow's snapshot is no older than the one of the live book
(`ShadowIsNewer`). That in turn rests on the order in which one thread answers:
the answers to one instrument's requests ascend (`AnswersAscend`) and are newer
than the snapshot a live book was built on (`AnswersAreFresh`), and a book's
cursor is its snapshot or what the stream has delivered (`BooksAreOfTheStream`).
What each call of `MdBooks` may do to the books is stated once
(`ApplyFacts`, `OnVerificationFacts` and their like) and used by every action that calls it.
Two answers of one thread that overtook each other would break the proof at
`AnswersAscend`: the single snapshot thread is what the code relies on.

**MdReplay.** `ReplayInv` adds to the session's invariant that a followed
replay differs from the session at most in its verification, and only while the
session verifies nothing: a verification that starts is journaled, and makes
the two equal again. What the replay goes on verifying is a live book, with a
snapshot no older than that book's (`ShadowSound`), so a mismatch it finds
alone is a mistake of the session's book. `ReplayFollows` shows that the
composition is not true for want of behaviours: the replay can always take a
record the way the session took it, or finds the book wrong.

**SpscRing.** `SlotsAreStamped` says which sequence number each slot carries,
counted from the consumer's position: the one `pop` waits for if the slot is
filled, and otherwise one of two that `pop` cannot take for it. With
`CachedHeadIsBehind` the producer's view of the room is too small or exact.
`RingImplementsFifo` then maps each publishing store to `Push` and each freeing
one to `Pop`. That "full" and "empty" are exact is part of it.

**BytesRing.** Counters wrap, so `IInv` says that there are positions that do
not: `cut[k]`, where the `k`-th record in the ring begins or the words skipped
before it do. The records lie one behind the other between the cuts
(`RecordsLie`), both sides stand at the first and the last cut, and what they
have cached is some earlier position of the other side (`PositionsAreCuts`).
What is about to be written is less than a lap ahead of what may be read
(`WrittenIsApart`), so it is another word. `ReadSkip` moves the first cut over
the skipped words, `ReadFree` drops it, and `WritePublish` adds one. Nothing is
assumed of the words of a payload, which may look like headers and markers.

**Journal.** A reader's view is a recursion over segments and records, and what
it accounts for is a sum. Both disappear from the inductive step: `upTo` of a
record is the number of the last append it stands for, so "nothing is missing"
becomes a property of neighbours, `Follows`. In `IInv` the records of a segment
are chained that way; a segment opens a new session or continues the one before
it, which was then whole when it was rotated away (`Linked`); the ring goes on
where the last segment ends, and the pending gap where the ring ends; what is
on disk is always a prefix of what was written. Rotation, faults, damage and
crashes keep that, since a session that failed writes no more. Only then is the
reader looked at: whatever prefix it reads of linked segments is complete
(`ReadBackIsComplete`), and adding up a chain gives its last `upTo`
(`CompleteIsAccounted`). `JournalFinishIsComplete` also needs that all segments
are whole once the last sync is done, and that the ring was empty after `stop`
was loaded.

**Ladder.** `BookInv` says that the levels are in order from worst to best and
that as a set they are exact: nothing beyond the horizon, everything listed up
to it. The binary search finds the only place that keeps the order
(`IndexFacts`, `InsertOrdered`). An insertion into a full side drops the
worst level, or the new one, and moves the horizon to the worst that is left; an
update beyond the horizon is ignored. So no level at or better than the horizon
is ever missing. `load` is an induction over the snapshot: while there is room the levels stand as
they came, from then on they are sorted and exact for what has been read.

**DepthDecoder.** Between two fields `DecoderInv` describes the decoder by what
the message has said under each key, not by the order it was said in
(`UpdateWalk`, `SnapshotWalk`): each side has not come, is put off, or was read,
and the sides that were read lie one behind the other in the buffer
(`Gathered`). That no side is read before the symbol is known is part of it.
One lemma per key shows that a field keeps the description or makes the message
offend; `UpdateEnds` then reads what was put off and compares the verdict with
the message's meaning.

**Http.** `HttpInv` only adds to the property that no more is received than was
sent; the argument is about `parse_response`. After `k` bytes and their framing
`decode_chunked` is in a state that `k` and the chunks determine (`AfterBytes`),
unless a chunk went past the limit, by induction over the bytes
(`ChunkedByte`, `ChunkedBody`). Only the size line 0 ends the body and no other
unit is one, so a part of a body is never taken for the whole.

**WsClient.** `WsInv` says that some number `n` of whole frames was taken:
what the buffer holds is the wire from the end of frame `n` on (`HoldsFrom`),
what was delivered is what these frames mean (`EventsUpTo`), and the reassembly
buffer is the message that is unfinished after them (`Assembles`). The wire is
the frames joined, so a buffer that holds two bytes begins with the header of
frame `n + 1` wherever it was compacted (`HoldsFrame`), and frames sent later
change neither the bytes nor the meaning of earlier ones (`ReadingGrows`).
Which message a frame belongs to, and its bytes so far, depend on the data
frames only, so a control frame between two fragments changes neither. The client goes to the socket only
while frame `n + 1` is not all there (`LacksFrame`); at the end of a closed
stream everything is, so every frame was delivered.

**Backoff.** The delay belongs to the last attempt, and the factor of the next
one is no smaller, also past the width of the shift. `1 << n` is a recursive
function; that it doubles, and so grows, is proved (`ShiftedDoubles`).

**TokenBucket.** `BalanceIsCovered` adds to the weight taken since any moment
what could be taken now; that sum only grows as fast as the bucket fills.
`SleepIsLongEnough` carries the rounded-up wait from `try_take` to the moment
the thread wakes.

**MdTool.** What `watch` has sampled was reported, and a success is final
(`SuccessIsFinal`): it is found after the session has been joined, so nothing
changes what it was found from. That as many were seen live as are configured
means that all were is an argument about finite sets (`AllWereLive`).

**Induction.** The library's induction theorems take an operator, which the
provers cannot instantiate. `NatLemmas` states induction for sets of numbers
(`SetInduction`) and recursion for functions whose steps are functions too
(`Recursion`, `RecursionUpTo`), so that recursive functions and sums over data
can be reasoned about: the reader and the accounts of `JournalProofs`, `load` in
`LadderProofs`, the shift of `Backoff`, `decode_chunked` and the joined units of
`Http`, the events and pings of `WsClient`.

**Only model-checked.** All liveness (`DownLeadsToLive`, `WrongBookIsCaught`,
`ReaderNeverStalls`, `FinishReturns`, `ToolExits` and the like), which the
prover does not handle. `FixedPoint`, `Json` and `Histogram` compare an
algorithm with a reference definition, both of them recursions over the whole
text or sample; `Json` and `FixedPoint` would also need unique parsing of a
grammar and division of products, for which the provers have no theory.

## 5. Not modelled

* TLS, sockets, URLs, the text of the handshake, the rendering of metrics and
  reports, printing, arguments: I/O and wording without protocol state.
* `exchange_info.rs` (read once, before anything else starts), the value types
  of `bowst-core` other than `fixed.rs`, and arithmetic of `Dec` that nothing in
  the repository uses on the way of a price.
* `is_abandoned` of the rings (a reference count), and weak memory: atomics are
  sequentially consistent.
* Counters, except the drops of the journal; the job channel is assumed open
  (it closes only when the snapshot thread has ended).
* A journal whose segments were removed or renamed by hand, and a `start` that
  fails.

## 6. Findings

* **A live book may be older than a delta already received** (`booksync_stale`).
  When a delta does not fit into `buffered_updates` the buffer forgets it. A
  snapshot that is older than that delta then has nothing to miss and goes
  live. The next delta exposes the gap. `sync.rs:18` says a stale book can
  never be quoted from.
* **A running verification is forgotten** (`session_tracked`). After a timeout
  the late snapshot is loaded into the next verification of the same
  instrument; the snapshot meant for it is answered `NotRunning`, and the
  session clears `verification` although `MdBooks` goes on verifying. Nothing
  times it out or counts it any more; the next start replaces it. No wrong
  verdict follows (`MismatchIsReal` holds), and a wrong book is still caught
  (`WrongBookIsCaught`).
* **The last drops are not marked** (`journal_silent`). A gap marker is written
  by the next append that finds room. If none comes, `finish` returns `Ok` and
  the end of the journal is missing without a mark. `README.md:145` says
  "Never silently incomplete: drops are marked". Everything before that point
  is accounted for (`NothingMissingUnmarked`).
* **A replay may leave the session** (`replay_exact`). A verification that the
  session gives up, at its timeout, is not journaled (`md.rs:616`, `664`). The
  replay goes on verifying, and may find a mismatch where the session found
  none and take down a book that the session kept. `replay.rs:7-8` says that
  "the handler sees exactly the books and status changes the live session
  produced, including any verification mismatch". What does hold is that the
  replay leaves the session only over a book that is wrong
  (`ReplayLeavesOnlyWrongBooks`).
* **A restart makes a torn journal unreadable** (`journal_restart`). The new
  session continues behind the torn segment, which is then not the last, and
  the reader refuses it. `format.rs:26-27` says that readers accept the torn
  record of a crash.

* **A truncated body may be accepted** (`http_truncated`). A body with neither
  length nor chunks ends with the connection, and if that breaks early, the part
  that came is the body (`http.rs:135-141`). `http.rs:222-223` says that the
  framing checks "still catch any truncation". Every other truncated body is
  refused (`AcceptedIsWhole`).
* **Bids do not always come first** (`depth_bids_first`). Levels are read in the
  order of the message, so asks that come before the bids are before them in
  the updates too. `depth.rs:27` says "bids first". Apart from that the order of
  the fields does not matter (`DecodedInAnyOrder`), and a book takes the
  updates of a delta in any order.

Smaller differences between code and comments, met while modelling: the budget
allows up to twice the capacity in a window, as its tests expect
(`BudgetIsKept`, `ratelimit.rs:22`); `watch` samples once a second, so "ever
live" (`main.rs:356`) misses an instrument that was live in between
(`SuccessIsEarned`, which is about the other direction); `io_timeout` is per
read, so a request slower than that is not refused (`server.rs:9-10`);
`connect` drops bytes behind the reply that do not fit the buffer, which no
configuration in use can cause (`WsClient`, `ConfigAssumption`).

## 7. Plan

1. Done: the models and runs of sections 2 and 3, and the proofs of section 4:
   book sync, session, replay, both rings, journal, ladder, WebSocket client,
   HTTP, decoders, request budget, backoff, tool.
2. Left: proofs of the fixed-point conversions, the JSON reader and the
   histogram, which need theories of division and of parsing first.
