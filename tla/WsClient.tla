------------------------------ MODULE WsClient ------------------------------
(***************************************************************************)
(* One WebSocket connection, from the bytes of the socket to the events    *)
(* the session handles: ws/client.rs (connect, fill, send), ws/reader.rs   *)
(* (the receive buffer, fragments), ws/frame.rs (headers) and the loop of  *)
(* MdSession::stream that drives them.                                     *)
(*                                                                         *)
(* A byte is named by where the server put it: <<i, k>> is byte k of frame *)
(* i, and <<0, k>> byte k of the upgrade reply.  A header says what its    *)
(* frame is, but only if the reader looks at the frame's first byte.       *)
(***************************************************************************)
EXTENDS Naturals, Sequences, SequencesExt, FiniteSets

CONSTANTS
  Buffer,       \* ReaderConfig::buffer
  MaxFrame,     \* ReaderConfig::max_frame
  MaxMessage,   \* ReaderConfig::max_message
  Short,        \* LEN_16: from this length on, 2 more header bytes
  Medium,       \* the largest 16-bit length: beyond it, 8 more header bytes
  Chunk,        \* bytes per read during the handshake
  Reply,        \* length of the server's upgrade reply
  Frames,       \* the frames the server may send
  MaxFrames     \* bound: frames per connection

MaxServerHeader == 10

\* WsReader::new refuses smaller buffers.  Nothing checks the last conjunct: connect
\* would drop what follows the reply and does not fit.
ASSUME ConfigAssumption ==
  /\ {Buffer, MaxFrame, MaxMessage, Short, Medium, Chunk, Reply, MaxFrames} \subseteq Nat
  /\ Frames \subseteq [op : {"text", "binary", "continuation", "close", "ping", "pong"},
                       fin : BOOLEAN, len : Nat, flaw : {"none", "bits", "length"}]
  /\ MaxFrame + MaxServerHeader <= Buffer
  /\ Chunk <= Buffer

VARIABLES
  sent,      \* the frames the server has sent
  peer,      \* "open" or "closed": whether the server may send more
  taken,     \* bytes read from the socket
  pc,        \* "connect", "drain", "pong", "fill", "ended"
  why,       \* why it ended: "", "reply", "protocol", "close", "closed", "dropped"
  buf,       \* buf[..end], the received bytes that are kept
  start,     \* bytes of buf already consumed
  fragment,  \* opcode of the fragmented message in progress, or ""
  message,   \* the reassembly buffer
  events,    \* what next_event returned so far
  pongs      \* the payloads of the pongs sent

vars == <<sent, peer, taken, pc, why, buf, start, fragment, message, events, pongs>>
reader == <<buf, start, fragment, message>>
server == <<sent, peer>>

Control == {"close", "ping", "pong"}

HeaderLen(f) == IF f.len < Short THEN 2 ELSE IF f.len <= Medium THEN 4 ELSE MaxServerHeader

FrameLen(f) == HeaderLen(f) + f.len

FrameBytes(s, i) == [k \in 1 .. FrameLen(s[i]) |-> <<i, k>>]

\* All bytes the server writes to a connection on which it sends the frames s.
FramesBytes(s, m) == FlattenSeq([i \in 1 .. m |-> FrameBytes(s, i)])
WireOf(s) == [k \in 1 .. Reply |-> <<0, k>>] \o FramesBytes(s, Len(s))

Wire == WireOf(sent)

Arrived == Len(Wire) - taken

-----------------------------------------------------------------------------

Init ==
  /\ sent = <<>> /\ peer = "open"
  /\ taken = 0
  /\ pc = "connect" /\ why = ""
  /\ buf = <<>> /\ start = 0
  /\ fragment = "" /\ message = <<>>
  /\ events = <<>> /\ pongs = <<>>

ServerSends ==
  /\ peer = "open"
  /\ Len(sent) < MaxFrames
  /\ \E f \in Frames : sent' = Append(sent, f)
  /\ UNCHANGED <<peer, taken, pc, why, reader, events, pongs>>

ServerCloses ==
  /\ peer = "open"
  /\ peer' = "closed"
  /\ UNCHANGED <<sent, taken, pc, why, reader, events, pongs>>

End(reason) == pc' = "ended" /\ why' = reason

\* WsClient::connect: one read of the upgrade reply.  What follows the reply in the
\* same read goes to the reader.
ReplyRead ==
  /\ pc = "connect"
  /\ \E n \in 1 .. Chunk :
       /\ n <= Arrived
       /\ taken' = taken + n
       /\ IF taken' < Reply
          THEN UNCHANGED <<pc, buf>>
          ELSE LET leftover == SubSeq(Wire, Reply + 1, taken')
                   kept == IF Len(leftover) < Buffer THEN Len(leftover) ELSE Buffer
               IN pc' = "drain" /\ buf' = SubSeq(leftover, 1, kept)
  /\ UNCHANGED <<server, why, start, fragment, message, events, pongs>>

\* The reply is refused, the read fails or times out, or the server is gone.
ConnectFails ==
  /\ pc = "connect"
  /\ End("reply")
  /\ UNCHANGED <<server, taken, reader, events, pongs>>

-----------------------------------------------------------------------------
(* parse_server_header over the unconsumed bytes. *)

Available == SubSeq(buf, start + 1, Len(buf))

\* The frame whose header is at the front of Available.
NextFrame == sent[Available[1][1]]

AtFrame == Available[1][2] = 1

\* Reserved bits, an unknown opcode or a mask show in the first two bytes, the rest
\* once the whole header is there.
BadHeader ==
  /\ Len(Available) >= 2
  /\ \/ ~ AtFrame
     \/ NextFrame.flaw = "bits"
     \/ /\ Len(Available) >= HeaderLen(NextFrame)
        /\ \/ NextFrame.flaw = "length"
           \/ NextFrame.op \in Control /\ (~ NextFrame.fin \/ NextFrame.len >= Short)
           \/ NextFrame.len > MaxFrame

NeedsMore ==
  /\ ~ BadHeader
  /\ Len(Available) >= 2 => Len(Available) < FrameLen(NextFrame)

Payload == SubSeq(Available, HeaderLen(NextFrame) + 1, FrameLen(NextFrame))

-----------------------------------------------------------------------------
(* WsReader::next_event, one frame at a time, and what MdSession::stream does *)
(* with the event.                                                            *)

NoFrame ==
  /\ pc = "drain"
  /\ NeedsMore
  /\ pc' = "fill"
  /\ UNCHANGED <<server, taken, why, reader, events, pongs>>

ProtocolError ==
  /\ pc = "drain"
  /\ BadHeader
  /\ End("protocol")
  /\ UNCHANGED <<server, taken, reader, events, pongs>>

HasFrame == pc = "drain" /\ ~ BadHeader /\ ~ NeedsMore

Consume == start' = start + FrameLen(NextFrame) /\ UNCHANGED <<server, taken, buf>>

Deliver(op, payload) == events' = Append(events, [op |-> op, payload |-> payload])

\* WsEvent::Pong is ignored by the session.
PingOrPong ==
  /\ HasFrame
  /\ NextFrame.op \in {"ping", "pong"}
  /\ Consume
  /\ Deliver(NextFrame.op, Payload)
  /\ pc' = IF NextFrame.op = "ping" THEN "pong" ELSE "drain"
  /\ UNCHANGED <<why, fragment, message, pongs>>

\* A close frame holds nothing or a code of two bytes.
Close ==
  /\ HasFrame
  /\ NextFrame.op = "close"
  /\ Consume
  /\ IF NextFrame.len = 1
     THEN End("protocol") /\ UNCHANGED events
     ELSE End("close") /\ Deliver("close", SubSeq(Payload, 3, NextFrame.len))
  /\ UNCHANGED <<fragment, message, pongs>>

\* An unfragmented message is handed out where it lies in the receive buffer.
Whole ==
  /\ HasFrame
  /\ NextFrame.op \in {"text", "binary"} /\ NextFrame.fin /\ fragment = ""
  /\ Consume
  /\ Deliver(NextFrame.op, Payload)
  /\ UNCHANGED <<pc, why, fragment, message, pongs>>

\* A message may not begin inside another, nor be continued when there is none.
UnexpectedFragment ==
  /\ HasFrame
  /\ NextFrame.op \notin Control
  /\ (NextFrame.op = "continuation") = (fragment = "")
  /\ Consume
  /\ End("protocol")
  /\ UNCHANGED <<fragment, message, events, pongs>>

\* Mutant: every fragment clears the reassembly buffer.
HeldNever == <<>>

\* What the reassembly buffer holds before this fragment; a first fragment clears it.
Held == IF NextFrame.op = "continuation" THEN message ELSE <<>>

Fragment ==
  /\ HasFrame
  /\ NextFrame.op \notin Control
  /\ IF NextFrame.op = "continuation" THEN fragment # "" ELSE ~ NextFrame.fin /\ fragment = ""
  /\ Consume
  /\ LET kind == IF NextFrame.op = "continuation" THEN fragment ELSE NextFrame.op IN
     IF Len(Held) + NextFrame.len > MaxMessage
     THEN /\ End("protocol")
          /\ message' = Held /\ fragment' = kind
          /\ UNCHANGED events
     ELSE /\ message' = Held \o Payload
          /\ fragment' = IF NextFrame.fin THEN "" ELSE kind
          /\ IF NextFrame.fin THEN Deliver(kind, message') ELSE UNCHANGED events
          /\ UNCHANGED <<pc, why>>
  /\ UNCHANGED pongs

\* WsClient::send of a pong with the payload of the ping.
SendPong ==
  /\ pc = "pong"
  /\ pongs' = Append(pongs, Last(events).payload)
  /\ pc' = "drain"
  /\ UNCHANGED <<server, taken, why, reader, events>>

\* The socket stays full for SEND_DEADLINE or fails: part of a frame may be out.
SendFails ==
  /\ pc = "pong"
  /\ End("dropped")
  /\ UNCHANGED <<server, taken, reader, events, pongs>>

-----------------------------------------------------------------------------
(* WsClient::fill and the end of the session's loop body. *)

\* Mutant: no compaction while part of a frame is held.
CompactsOnlyWhenEmpty == start = Len(buf)

\* WsReader::spare: start over when all is consumed, else compact when room is short.
Compacts == start = Len(buf) \/ Buffer - Len(buf) < MaxFrame

Compacted == IF Compacts THEN Available ELSE buf

StartCompacted == IF Compacts THEN 0 ELSE start

Room == Buffer - Len(Compacted)

Fill ==
  /\ pc = "fill"
  /\ \E n \in 1 .. Room :
       /\ n <= Arrived
       /\ buf' = Compacted \o SubSeq(Wire, taken + 1, taken + n)
       /\ taken' = taken + n
  /\ start' = StartCompacted
  /\ pc' = "drain"
  /\ UNCHANGED <<server, why, fragment, message, events, pongs>>

\* The buffer is full, or the socket has nothing yet.
FillNothing ==
  /\ pc = "fill"
  /\ Room = 0 \/ (Arrived = 0 /\ peer = "open")
  /\ buf' = Compacted
  /\ start' = StartCompacted
  /\ pc' = "drain"
  /\ UNCHANGED <<server, taken, why, fragment, message, events, pongs>>

\* Mutant: a closed peer is noticed before its last bytes are read.
FillClosedEarly ==
  /\ pc = "fill"
  /\ peer = "closed"
  /\ buf' = Compacted
  /\ start' = StartCompacted
  /\ End("closed")
  /\ UNCHANGED <<server, taken, fragment, message, events, pongs>>

FillClosed ==
  /\ pc = "fill"
  /\ Room > 0 /\ Arrived = 0 /\ peer = "closed"
  /\ buf' = Compacted
  /\ start' = StartCompacted
  /\ End("closed")
  /\ UNCHANGED <<server, taken, fragment, message, events, pongs>>

\* The session drops the connection: stopped, silent or too old, or the read failed.
DropConnection ==
  /\ pc = "fill"
  /\ End("dropped")
  /\ UNCHANGED <<server, taken, reader, events, pongs>>

Client ==
  \/ ReplyRead \/ NoFrame \/ ProtocolError \/ PingOrPong \/ Close \/ Whole
  \/ UnexpectedFragment \/ Fragment \/ SendPong \/ Fill \/ FillNothing \/ FillClosed

Next == ServerSends \/ ServerCloses \/ Client \/ ConnectFails \/ SendFails \/ DropConnection

Spec == Init /\ [][Next]_vars /\ WF_vars(Client)

-----------------------------------------------------------------------------
(* What a sequence s of frames means, read off the whole of it and not from a *)
(* buffer.                                                                     *)

FramePayload(s, i) == SubSeq(FrameBytes(s, i), HeaderLen(s[i]) + 1, FrameLen(s[i]))

DataFrames(s, i) == {j \in 1 .. i : s[j].op \notin Control}

\* The frame that begins the message frame i belongs to, 0 if none does.
FirstOf(s, i) ==
  LET firsts == {j \in DataFrames(s, i) : s[j].op # "continuation"}
  IN IF firsts = {} THEN 0 ELSE Max(firsts)

\* Whether a message is unfinished before frame i.
InMessage(s, i) == DataFrames(s, i - 1) # {} /\ ~ s[Max(DataFrames(s, i - 1))].fin

\* The bytes of that message up to frame i.
PayloadsUpTo(s, i) ==
  FlattenSeq([k \in 1 .. i |-> IF k \in DataFrames(s, i) /\ k >= FirstOf(s, i)
                               THEN FramePayload(s, k) ELSE <<>>])

\* RFC 6455 and the limits: the frames that end the connection as protocol errors.
IsError(s, i) ==
  LET f == s[i] IN
  \/ f.flaw # "none"
  \/ f.len > MaxFrame
  \/ f.op \in Control /\ (~ f.fin \/ f.len >= Short)
  \/ f.op = "close" /\ f.len = 1
  \/ f.op \in {"text", "binary"} /\ InMessage(s, i)
  \/ f.op = "continuation" /\ ~ InMessage(s, i)
  \/ /\ f.op \notin Control
     /\ ~ f.fin \/ f.op = "continuation"
     /\ Len(PayloadsUpTo(s, i)) > MaxMessage

EndsConnection(s, i) == IsError(s, i) \/ s[i].op = "close"

\* The frames up to the one that ends the connection.
Meant(s) == {i \in 1 .. Len(s) : \A j \in 1 .. i - 1 : ~ EndsConnection(s, j)}

EventOf(s, i) ==
  LET f == s[i] IN
  IF f.op = "close" THEN [op |-> "close", payload |-> SubSeq(FramePayload(s, i), 3, f.len)]
  ELSE IF f.op \in Control THEN [op |-> f.op, payload |-> FramePayload(s, i)]
  ELSE [op |-> s[FirstOf(s, i)].op, payload |-> PayloadsUpTo(s, i)]

Completes(s, i) == ~ IsError(s, i) /\ (s[i].op \in Control \/ s[i].fin)

\* item[i] for the i of 1 .. n in which, in order.
Listed(n, which, item) ==
  LET list[i \in 0 .. n] ==
        IF i = 0 THEN <<>>
        ELSE IF i \in which THEN Append(list[i - 1], item[i]) ELSE list[i - 1]
  IN  list[n]

\* The events of the first n frames.
EventsUpTo(s, n) ==
  Listed(n, {i \in Meant(s) : Completes(s, i)}, [i \in 1 .. Len(s) |-> EventOf(s, i)])

MeantEvents == EventsUpTo(sent, Len(sent))

PingPayloads(e) ==
  Listed(Len(e), {i \in 1 .. Len(e) : e[i].op = "ping"}, [i \in 1 .. Len(e) |-> e[i].payload])

-----------------------------------------------------------------------------

\* The state variables have their types, and the buffers keep within ReaderConfig.
TypeOK ==
  /\ sent \in Seq(Frames) /\ Len(sent) <= MaxFrames
  /\ peer \in {"open", "closed"}
  /\ taken \in 0 .. Len(Wire)
  /\ pc \in {"connect", "drain", "pong", "fill", "ended"}
  /\ why \in {"", "reply", "protocol", "close", "closed", "dropped"}
  /\ Len(buf) <= Buffer
  /\ start \in 0 .. Len(buf)
  /\ fragment \in {"", "text", "binary"}
  /\ Len(message) <= MaxMessage

\* However the bytes were cut into reads, moved by compaction and interleaved with
\* control frames, the session gets the server's messages: whole, in order, each with
\* its own bytes.  A ping is answered with its own payload (reader.rs:75-210, md.rs:413).
EventsAreTheFrames ==
  /\ IsPrefix(events, MeantEvents)
  /\ IsPrefix(pongs, PingPayloads(events))

\* A connection ends for the reason the server gave, after everything before it was
\* delivered: Closed skips nothing that was received (client.rs:131-133), and only a
\* frame that breaks the protocol or a limit is a protocol error.
EndsWhereTheServerSays ==
  /\ why = "closed" => events = MeantEvents /\ \A i \in Meant(sent) : ~ EndsConnection(sent, i)
  /\ why = "protocol" => events = MeantEvents /\ \E i \in Meant(sent) : IsError(sent, i)
  /\ why = "close" => events = MeantEvents /\ Last(events).op = "close"

\* The client comes to the end of a connection the server has closed: it does not go
\* round with a full buffer in which no frame is complete.
ClosedIsNoticed == peer = "closed" ~> pc = "ended"

=============================================================================
