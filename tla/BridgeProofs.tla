---------------------------- MODULE BridgeProofs ----------------------------
(***************************************************************************)
(* Proofs about one HTTP request in flight, for streams of any length and  *)
(* frames of any size.  Its steps are steps of the channel, so what is     *)
(* proved of a channel holds of the bridge's.  On that rests the rest: the *)
(* engine's own socket attaches before the worker knows of the channel, so *)
(* that it is sent the stream from its first frame, and the handler's state*)
(* is at any time what the frames that have arrived make of it.            *)
(***************************************************************************)
EXTENDS HttpBridge, ChannelProofs

socket == reader[HttpReader]
sent == received[HttpReader]

(* Who has gone how far.  The worker is invoked after the engine's socket  *)
(* has attached and writes after it was invoked; the engine's socket leaves*)
(* a stream only after a rejection or an error of its own.                 *)
InvokedInOrder ==
  /\ conn = "connecting" => invocation = "none"
  /\ conn = "closing" => invocation = "rejected"
  /\ ended => invocation = "rejected" \/ conn \in {"failed", "broken", "closed"}
  /\ invocation # "none" => socket # "none"
  /\ socket = "none" => writer = "none" /\ written = <<>> /\ pending = <<>>
  /\ socket \in {"closing", "closed"} => writerClosed
  /\ socket \in {"leaving", "left"} => invocation = "rejected" \/ conn \in {"failed", "broken"}

(* Frames are numbered as written; the socket is sent all of them while it *)
(* is there, and has a beginning of them in any case.                      *)
SentInOrder ==
  /\ Len(written) <= MaxFrames
  /\ \A i \in 1 .. Len(written) : written[i].id = i
  /\ Len(sent) <= Len(written)
  /\ \A i \in 1 .. Len(sent) : sent[i] = written[i]
  /\ socket \in {"open", "closing", "closed"} => sent = written
  /\ consumed \in 0 .. Len(sent)

Said(data, n) == \E i \in 1 .. n : written[i].data = data
NoBodyIn(frames, n) == \A i \in 1 .. n : ~IsBody(frames[i])

(* The response is what the frames consumed so far make of it.             *)
BodyIsConsumed ==
  /\ \E n \in 0 .. consumed : IsBodyOf(body, written, n)
  /\ ~ended /\ crashed = "no" => IsBodyOf(body, written, consumed)
  /\ body # <<>> => /\ headersSet
                    /\ ~NoBodyIn(written, consumed)
                    /\ head = HeadOf(written)

HeadIsConsumed ==
  /\ ~ended /\ headersSet => body # <<>>
  /\ ~ended /\ ~headersSet => head = NoHead
  /\ ~headersSet /\ crashed = "no" =>
       /\ NoBodyIn(written, consumed)
       /\ statusCode = IF Said("set_status", consumed) THEN "set" ELSE "200"
       /\ responseHeaders = IF Said("set_headers", consumed) THEN "set" ELSE "default"

ClosedIsComplete ==
  conn = "closed" /\ invocation # "rejected" /\ crashed = "no" =>
    /\ socket \in {"closing", "closed"}
    /\ IsBodyOf(body, written, Len(written))
    /\ head = HeadOf(written)

ResponseInv ==
  /\ BridgeTypeOK
  /\ InvokedInOrder
  /\ SentInOrder
  /\ BodyIsConsumed
  /\ HeadIsConsumed
  /\ ClosedIsComplete

-----------------------------------------------------------------------------
(* The bridge takes no step that a channel could not take.                 *)
LEMMA BridgeStepsChannel == [BridgeNext]_bridgeVars => [ChannelNext]_channelVars
BY HttpReaderAssumption
DEF BridgeNext, bridgeVars, ChannelNext, WorkerWrites, ChannelSide,
    HttpReaderOpen, InvocationResolves, InvocationRejects, FrameArrives,
    ConnClose, ConnError

(* Seen through the channel's variables the bridge behaves as a channel,   *)
(* so that what holds of every channel holds of the one it creates.        *)
THEOREM BridgeImplementsChannel == BridgeSpec => ChannelSpec
<1>1. BridgeInit => ChannelInit
  BY DEF BridgeInit
<1>2. QED
  BY <1>1, BridgeStepsChannel, PTL DEF BridgeSpec, ChannelSpec

-----------------------------------------------------------------------------
(* What the frames make of body and head.                                  *)

LEMMA FramesTyped ==
  ASSUME NEW frames \in Seq(Frame)
  PROVE  /\ Len(frames) \in Nat
         /\ \A i \in 1 .. Len(frames) : frames[i] \in Frame /\ frames[i].data \in Data
         /\ \A f \in Frame :
              /\ Append(frames, f) \in Seq(Frame)
              /\ Len(Append(frames, f)) = Len(frames) + 1
              /\ Append(frames, f)[Len(frames) + 1] = f
              /\ \A i \in 1 .. Len(frames) : Append(frames, f)[i] = frames[i]
<1>1. Len(frames) \in Nat
  BY LenProperties
<1>2. \A i \in 1 .. Len(frames) : frames[i] \in Frame
  BY ElementOfSeq
<1>3. \A f \in Frame : f.data \in Data
  BY DEF Frame
<1>4. QED
  BY <1>1, <1>2, <1>3, AppendProperties

(* A frame written later changes nothing of what was sent before ...       *)
LEMMA BodyFramesStay ==
  ASSUME NEW frames \in Seq(Frame), NEW f \in Frame, NEW n \in 0 .. Len(frames)
  PROVE  /\ BodyFrames(Append(frames, f), n) = BodyFrames(frames, n)
         /\ \A i \in 1 .. n : Append(frames, f)[i] = frames[i]
<1>1. \A i \in 1 .. n : Append(frames, f)[i] = frames[i]
  BY FramesTyped
<1>2. QED
  BY <1>1 DEF BodyFrames

(* ... nor of the head once there is a body frame.                         *)
LEMMA HeadStays ==
  ASSUME NEW frames \in Seq(Frame), NEW f \in Frame, NEW n \in 0 .. Len(frames),
         ~NoBodyIn(frames, n)
  PROVE  HeadOf(Append(frames, f)) = HeadOf(frames)
<1> DEFINE more == Append(frames, f)
<1>1. /\ Len(frames) \in Nat /\ Len(more) = Len(frames) + 1
      /\ \A i \in 1 .. Len(frames) : more[i] = frames[i]
  BY FramesTyped
<1> HIDE DEF more
<1>2. PICK k \in 1 .. n : IsBody(frames[k])
  BY DEF NoBodyIn
<1>3. k \in 1 .. Len(frames) /\ IsBody(more[k])
  BY <1>1, <1>2
<1>4. Preamble(more) = Preamble(frames)
  <2>1. \A i \in Preamble(more) : i \in Preamble(frames)
    <3> TAKE i \in Preamble(more)
    <3>1. i \in 1 .. Len(more) /\ \A j \in 1 .. i : ~IsBody(more[j])
      BY DEF Preamble
    <3>2. i < k
      BY <1>1, <1>3, <3>1
    <3>3. i \in 1 .. Len(frames) /\ \A j \in 1 .. i : frames[j] = more[j]
      BY <1>1, <1>3, <3>1, <3>2
    <3>4. QED
      BY <3>1, <3>3 DEF Preamble
  <2>2. \A i \in Preamble(frames) : i \in Preamble(more)
    <3> TAKE i \in Preamble(frames)
    <3>1. i \in 1 .. Len(frames) /\ \A j \in 1 .. i : ~IsBody(frames[j])
      BY DEF Preamble
    <3>2. i \in 1 .. Len(more) /\ \A j \in 1 .. i : frames[j] = more[j]
      BY <1>1, <3>1
    <3>3. QED
      BY <3>1, <3>2 DEF Preamble
  <2>3. QED
    BY <2>1, <2>2
<1>5. \A i \in Preamble(frames) : more[i] = frames[i]
  BY <1>1 DEF Preamble
<1>6. QED
  BY <1>4, <1>5 DEF HeadOf, more

(* The preamble ends with the stream or before its first body frame.       *)
LEMMA PreambleEnds ==
  ASSUME NEW frames \in Seq(Frame), NEW n \in 0 .. Len(frames), NoBodyIn(frames, n),
         n = Len(frames) \/ IsBody(frames[n + 1])
  PROVE  Preamble(frames) = 1 .. n
<1>1. Len(frames) \in Nat
  BY FramesTyped
<1>2. \A i \in 1 .. n : i \in Preamble(frames)
  BY <1>1 DEF Preamble, NoBodyIn
<1>3. \A i \in Preamble(frames) : i \in 1 .. n
  <2> TAKE i \in Preamble(frames)
  <2>1. i \in 1 .. Len(frames) /\ \A j \in 1 .. i : ~IsBody(frames[j])
    BY DEF Preamble
  <2>2. QED
    BY <1>1, <2>1
<1>4. QED
  BY <1>2, <1>3

LEMMA BodyBegins == \A frames : IsBodyOf(<<>>, frames, 0)
<1>1. Len(<<>>) = 0 /\ DOMAIN <<>> = {}
  BY EmptySeq
<1>2. QED
  BY <1>1 DEF IsBodyOf, Ascending, BodyFrames, Range

(* A control frame adds nothing to the body; a body frame adds itself.     *)
LEMMA BodySkips ==
  ASSUME NEW frames \in Seq(Frame), NEW n \in Nat, n < Len(frames),
         NEW b, IsBodyOf(b, frames, n), ~IsBody(frames[n + 1])
  PROVE  IsBodyOf(b, frames, n + 1)
<1>1. 1 .. n + 1 = (1 .. n) \cup {n + 1}
  OBVIOUS
<1>2. BodyFrames(frames, n + 1) = BodyFrames(frames, n)
  BY <1>1 DEF BodyFrames
<1>3. QED
  BY <1>2 DEF IsBodyOf

LEMMA BodyGrows ==
  ASSUME NEW frames \in Seq(Frame), NEW n \in Nat, n < Len(frames),
         \A i \in 1 .. Len(frames) : frames[i].id = i,
         NEW b \in Seq(Frame), IsBodyOf(b, frames, n), IsBody(frames[n + 1])
  PROVE  IsBodyOf(Append(b, frames[n + 1]), frames, n + 1)
<1> DEFINE f == frames[n + 1]
           more == Append(b, f)
           k == Len(b)
<1>1. Len(frames) \in Nat /\ n + 1 \in 1 .. Len(frames) /\ f \in Frame /\ f.id = n + 1
  BY FramesTyped
<1>2. /\ k \in Nat /\ Len(more) = k + 1 /\ more[k + 1] = f /\ more \in Seq(Frame)
      /\ \A i \in 1 .. k : more[i] = b[i]
  BY <1>1, FramesTyped
<1>3. DOMAIN b = 1 .. k /\ DOMAIN more = 1 .. k + 1
  BY <1>2, LenProperties
<1>4. \A i \in 1 .. k : b[i] \in BodyFrames(frames, n)
  BY <1>3 DEF IsBodyOf, Range
<1>5. \A g \in BodyFrames(frames, n) : g.id \in Nat /\ g.id <= n
  BY <1>1 DEF BodyFrames
<1> HIDE DEF f, more, k
<1>6. Ascending(more)
  <2> SUFFICES ASSUME NEW i \in 1 .. k + 1, NEW j \in 1 .. k + 1, i < j
               PROVE  more[i].id < more[j].id
    BY <1>2 DEF Ascending
  <2>1. i \in 1 .. k /\ more[i] = b[i] /\ b[i].id \in Nat /\ b[i].id <= n
    BY <1>2, <1>4, <1>5
  <2>2. CASE j = k + 1
    BY <1>1, <1>2, <2>1, <2>2
  <2>3. CASE j # k + 1
    <3>1. j \in 1 .. k /\ more[j] = b[j]
      BY <1>2, <2>3
    <3>2. Ascending(b)
      BY DEF IsBodyOf
    <3>3. QED
      BY <2>1, <3>1, <3>2 DEF Ascending, k
  <2>4. QED
    BY <2>2, <2>3
<1>7. Range(more) = Range(b) \cup {f}
  <2>1. 1 .. k + 1 = (1 .. k) \cup {k + 1}
    BY <1>2
  <2>2. QED
    BY <1>2, <1>3, <2>1 DEF Range
<1>8. BodyFrames(frames, n + 1) = BodyFrames(frames, n) \cup {f}
  <2>1. 1 .. n + 1 = (1 .. n) \cup {n + 1}
    OBVIOUS
  <2>2. QED
    BY <2>1 DEF BodyFrames, f
<1>9. QED
  BY <1>6, <1>7, <1>8 DEF IsBodyOf, f, more

-----------------------------------------------------------------------------
(* The invariant, step by step.                                            *)

LEMMA BridgeTyped ==
  ASSUME StreamInv, ResponseInv
  PROVE  /\ HttpReader \in Readers /\ \A r \in Readers : r = HttpReader
         /\ written \in Seq(Frame) /\ sent \in Seq(Frame) /\ pending \in Seq(Frame)
         /\ Len(written) \in Nat /\ Len(sent) \in Nat
         /\ consumed \in 0 .. Len(written) /\ consumed \in Nat
         /\ body \in Seq(Frame)
<1>1. HttpReader \in Readers /\ \A r \in Readers : r = HttpReader
  BY HttpReaderAssumption
<1>2. written \in Seq(Frame) /\ sent \in Seq(Frame) /\ pending \in Seq(Frame)
  BY <1>1, StreamTypes DEF sent
<1>3. Len(written) \in Nat /\ Len(sent) \in Nat
  BY <1>2, LenProperties
<1>4. QED
  BY <1>1, <1>2, <1>3 DEF ResponseInv, SentInOrder, BridgeTypeOK

LEMMA BridgeInitHolds == BridgeInit => ResponseInv
<1> SUFFICES ASSUME BridgeInit PROVE ResponseInv
  OBVIOUS
<1>1. ChannelTypeOK /\ written = <<>> /\ sent = <<>> /\ socket = "none"
  BY StreamInitHolds, HttpReaderAssumption
  DEF BridgeInit, StreamInv, ChannelInit, sent, socket
<1>2. Len(<<>>) = 0 /\ <<>> \in Seq(Frame)
  BY EmptySeq
<1>3. BridgeTypeOK
  <2>1. 0 \in 0 .. MaxFrames
    BY ChannelAssumption
  <2>2. QED
    BY <1>1, <1>2, <2>1 DEF BridgeInit, BridgeTypeOK
<1>4. InvokedInOrder
  BY <1>1 DEF BridgeInit, ChannelInit, InvokedInOrder
<1>5. SentInOrder
  BY <1>1, <1>2, ChannelAssumption DEF BridgeInit, SentInOrder
<1>6. IsBodyOf(body, written, 0)
  BY BodyBegins DEF BridgeInit
<1>7. BodyIsConsumed
  BY <1>6 DEF BridgeInit, BodyIsConsumed
<1>8. HeadIsConsumed
  BY DEF BridgeInit, HeadIsConsumed, NoBodyIn, Said
<1>9. ClosedIsComplete
  BY DEF BridgeInit, ClosedIsComplete
<1>10. QED
  BY <1>3, <1>4, <1>5, <1>7, <1>8, <1>9 DEF ResponseInv

(* A step of the channel that writes nothing leaves the response alone.    *)
LEMMA NothingWritten ==
  ASSUME ResponseInv, UNCHANGED <<written, conn, consumed, invocation, responseVars>>,
         ChannelTypeOK', socket \in {"closing", "closed"} => socket' \in {"closing", "closed"}
  PROVE  BridgeTypeOK' /\ BodyIsConsumed' /\ HeadIsConsumed' /\ ClosedIsComplete'
BY DEF ResponseInv, BridgeTypeOK, BodyIsConsumed, HeadIsConsumed, ClosedIsComplete,
       responseVars, Said

(* A frame written later than those consumed leaves it alone too; nothing  *)
(* is written once the socket was closed by the engine.                    *)
LEMMA FrameWritten ==
  ASSUME StreamInv, ResponseInv, NEW f \in Frame, written' = Append(written, f),
         UNCHANGED <<conn, consumed, invocation, responseVars>>,
         ChannelTypeOK', writer = "open"
  PROVE  BridgeTypeOK' /\ BodyIsConsumed' /\ HeadIsConsumed' /\ ClosedIsComplete'
<1>1. written \in Seq(Frame) /\ Len(written) \in Nat /\ consumed \in 0 .. Len(written)
  BY BridgeTyped
<1>2. \A n \in 0 .. consumed : /\ IsBodyOf(body, written, n) => IsBodyOf(body, written', n)
                               /\ NoBodyIn(written', n) <=> NoBodyIn(written, n)
                               /\ \A i \in 1 .. n : written'[i] = written[i]
  BY <1>1, BodyFramesStay DEF IsBodyOf, NoBodyIn
<1>3. consumed \in 0 .. consumed
  BY <1>1
<1>4. ~NoBodyIn(written, consumed) => HeadOf(written') = HeadOf(written)
  BY <1>1, HeadStays
<1>5. BridgeTypeOK'
  BY DEF ResponseInv, BridgeTypeOK, responseVars
<1>6. BodyIsConsumed'
  BY <1>2, <1>3, <1>4 DEF ResponseInv, BodyIsConsumed, responseVars
<1>7. HeadIsConsumed'
  BY <1>2, <1>3 DEF ResponseInv, HeadIsConsumed, Said, responseVars
<1>8. ClosedIsComplete'
  <2>1. ~writerClosed
    BY DEF StreamInv, ReleaseInv, WriterIsFollowed
  <2>2. socket \notin {"closing", "closed"}
    BY <2>1 DEF ResponseInv, InvokedInOrder
  <2>3. QED
    BY <2>2 DEF ResponseInv, ClosedIsComplete, responseVars
<1>9. QED
  BY <1>5, <1>6, <1>7, <1>8

(* The writer connects or closes.                                          *)
LEMMA WriterTurnsInBridge ==
  ASSUME StreamInv, ResponseInv, StreamInv', WriterConnects \/ WriterCloses,
         invocation # "none",
         UNCHANGED <<conn, consumed, invocation, responseVars>>
  PROVE  ResponseInv'
<1>1. HttpReader \in Readers
  BY BridgeTyped
<1>2. UNCHANGED <<written, received>> /\ socket # "none" /\ ChannelTypeOK'
  BY DEF WriterConnects, WriterCloses, ResponseInv, InvokedInOrder, StreamInv
<1>3. \/ WriterConnects /\ socket' = socket /\ writerClosed' = writerClosed
      \/ /\ WriterCloses /\ writerClosed'
         /\ \/ socket' = socket
            \/ socket = "open" /\ socket' = "closing"
  <2>1. CASE WriterConnects
    BY <2>1 DEF WriterConnects, socket
  <2>2. CASE WriterCloses
    <3>1. reader' = reader \/ reader' = CloseSockets(readWss)
      BY <2>2 DEF WriterCloses
    <3>2. \A r \in Readers : CloseSockets(readWss)[r] =
            IF r \in readWss /\ reader[r] = "open" THEN "closing" ELSE reader[r]
      BY DEF CloseSockets
    <3>3. \/ reader'[HttpReader] = reader[HttpReader]
          \/ reader[HttpReader] = "open" /\ reader'[HttpReader] = "closing"
      BY <1>1, <3>1, <3>2
    <3>4. writerClosed' = TRUE
      BY <2>2 DEF WriterCloses
    <3>5. QED
      BY <2>2, <3>3, <3>4 DEF socket
  <2>3. QED
    BY <2>1, <2>2
<1>4. BridgeTypeOK' /\ BodyIsConsumed' /\ HeadIsConsumed' /\ ClosedIsComplete'
  BY <1>2, <1>3, NothingWritten
<1>5. InvokedInOrder'
  BY <1>2, <1>3 DEF ResponseInv, InvokedInOrder, responseVars
<1>6. SentInOrder'
  BY <1>2, <1>3 DEF ResponseInv, SentInOrder, sent
<1>7. QED
  BY <1>4, <1>5, <1>6 DEF ResponseInv

(* A frame reaches the open socket, since then nothing is buffered; a      *)
(* socket that is leaving gets no more.                                    *)
LEMMA WriterSendsInBridge ==
  ASSUME StreamInv, ResponseInv, StreamInv', invocation # "none",
         NEW size \in Sizes, NEW data \in Data, WriterSends(size, data),
         UNCHANGED <<conn, consumed, invocation, responseVars>>
  PROVE  ResponseInv'
<1> DEFINE n == Len(written)
           f == [id |-> n + 1, size |-> size, data |-> data]
<1>1. /\ writer = "open" /\ n < MaxFrames /\ written' = Append(written, f)
      /\ Broadcast(f) \/ BufferFrame(f) \/ Overflow(f)
      /\ UNCHANGED <<registered, writer, writerClosed, reader, readWss, abandonTimer>>
  BY DEF WriterSends
<1>2. /\ HttpReader \in Readers /\ \A r \in Readers : r = HttpReader
      /\ written \in Seq(Frame) /\ sent \in Seq(Frame)
      /\ n \in Nat /\ Len(sent) \in Nat /\ consumed \in Nat
  BY BridgeTyped
<1>3. f \in Frame /\ f.id = n + 1
  BY <1>1, <1>2, ChannelAssumption DEF Frame
<1> HIDE DEF f, n
<1>4. BridgeTypeOK' /\ BodyIsConsumed' /\ HeadIsConsumed' /\ ClosedIsComplete'
  BY <1>1, <1>3, FrameWritten DEF StreamInv
<1>5. socket' = socket /\ socket # "none" /\ socket \notin {"closing", "closed"}
  <2>1. ~writerClosed
    BY <1>1 DEF StreamInv, ReleaseInv, WriterIsFollowed
  <2>2. QED
    BY <1>1, <2>1 DEF ResponseInv, InvokedInOrder, socket
<1>6. InvokedInOrder'
  BY <1>1, <1>5 DEF ResponseInv, InvokedInOrder, responseVars
<1>7. \/ socket = "open" /\ sent' = Append(sent, f)
      \/ socket # "open" /\ sent' = sent
  <2>1. socket = "open" => HttpReader \in readWss
    BY <1>2 DEF StreamInv, ReleaseInv, AttachedAreKnown, socket
  <2>2. QED
    BY <1>1, <1>2, <2>1 DEF Broadcast, BufferFrame, Overflow, sent, socket
<1>8. /\ Len(Append(written, f)) = n + 1 /\ Append(written, f)[n + 1] = f
      /\ \A i \in 1 .. n : Append(written, f)[i] = written[i]
  BY <1>2, <1>3, FramesTyped DEF n
<1>9. SentInOrder'
  <2>1. \A i \in 1 .. Len(written') : written'[i].id = i
    <3> SUFFICES ASSUME NEW i \in 1 .. n + 1 PROVE Append(written, f)[i].id = i
      BY <1>1, <1>8
    <3>1. CASE i = n + 1
      BY <1>3, <1>8, <3>1
    <3>2. CASE i # n + 1
      BY <1>2, <1>8, <3>2 DEF ResponseInv, SentInOrder, n
    <3>3. QED
      BY <3>1, <3>2
  <2>2. Len(written') = n + 1 /\ n + 1 <= MaxFrames
    BY <1>1, <1>2, <1>8, ChannelAssumption
  <2>3. CASE socket = "open"
    <3>1. sent' = written' /\ sent = written
      BY <1>1, <1>7, <2>3 DEF ResponseInv, SentInOrder
    <3>2. consumed' \in 0 .. n + 1
      BY <1>2, <3>1 DEF ResponseInv, SentInOrder, n
    <3>3. QED
      BY <1>2, <2>1, <2>2, <3>1, <3>2 DEF SentInOrder
  <2>4. CASE socket # "open"
    <3>1. sent' = sent /\ Len(sent) <= n
      BY <1>7, <2>4 DEF ResponseInv, SentInOrder, n
    <3>2. Len(sent') <= Len(written')
      BY <1>2, <2>2, <3>1
    <3>3. \A i \in 1 .. Len(sent) : written'[i] = written[i]
      BY <1>1, <1>2, <1>8, <3>1
    <3>4. QED
      BY <1>5, <2>1, <2>2, <2>4, <3>1, <3>2, <3>3 DEF ResponseInv, SentInOrder
  <2>5. QED
    BY <2>3, <2>4
<1>10. QED
  BY <1>4, <1>6, <1>9 DEF ResponseInv

(* The channel's other steps: the engine's socket attaches to an empty     *)
(* channel, leaves after a rejection or an error, is gone, and the abandon *)
(* timer fires.                                                            *)
LEMMA ChannelSideInBridge ==
  ASSUME StreamInv, ResponseInv, StreamInv', ChannelSide
  PROVE  ResponseInv'
<1>1. UNCHANGED <<conn, consumed, invocation, responseVars>>
  BY DEF ChannelSide
<1>2. /\ HttpReader \in Readers /\ \A r \in Readers : r = HttpReader
      /\ written \in Seq(Frame) /\ sent \in Seq(Frame) /\ ChannelTypeOK'
  BY BridgeTyped DEF StreamInv
<1>3. reader \in [Readers -> {"none", "open", "closing", "leaving", "closed",
                              "left", "denied"}] /\ received \in [Readers -> Seq(Frame)]
  BY DEF StreamInv, ChannelTypeOK
<1>4. CASE conn = "connecting" /\ ReaderAttaches(HttpReader)
  <2>1. written = <<>> /\ pending = <<>> /\ sent = <<>> /\ socket = "none" /\ writer = "none"
    BY <1>2, <1>4
    DEF ReaderAttaches, ResponseInv, InvokedInOrder, StreamInv, NothingBefore, socket, sent
  <2>2. ~writerClosed
    BY <2>1 DEF StreamInv, ReleaseInv, WriterIsFollowed
  <2>3. /\ socket' = "open" /\ sent' = <<>> \o <<>>
        /\ UNCHANGED <<writer, writerClosed, written>>
    BY <1>2, <1>3, <1>4, <2>1, <2>2 DEF ReaderAttaches, socket, sent
  <2>4. sent' = <<>>
    BY <2>3, EmptySeq, ConcatEmptySeq
  <2>5. SentInOrder'
    BY <1>1, <2>1, <2>3, <2>4 DEF ResponseInv, SentInOrder
  <2>6. InvokedInOrder'
    BY <1>1, <1>4, <2>1, <2>3 DEF ResponseInv, InvokedInOrder, responseVars
  <2>7. BridgeTypeOK' /\ BodyIsConsumed' /\ HeadIsConsumed' /\ ClosedIsComplete'
    BY <1>1, <1>2, <2>1, <2>3, NothingWritten
  <2>8. QED
    BY <2>5, <2>6, <2>7 DEF ResponseInv
<1>5. CASE conn \in {"closing", "failed", "broken"} /\ ReaderLeaves(HttpReader)
  <2>1. socket = "open" /\ socket' = "leaving"
        /\ UNCHANGED <<writer, writerClosed, written, received, pending>>
    BY <1>2, <1>3, <1>5 DEF ReaderLeaves, socket
  <2>2. SentInOrder'
    BY <1>1, <2>1 DEF ResponseInv, SentInOrder, sent
  <2>3. InvokedInOrder'
    BY <1>1, <1>5, <2>1 DEF ResponseInv, InvokedInOrder, responseVars
  <2>4. BridgeTypeOK' /\ BodyIsConsumed' /\ HeadIsConsumed' /\ ClosedIsComplete'
    BY <1>1, <1>2, <2>1, NothingWritten
  <2>5. QED
    BY <2>2, <2>3, <2>4 DEF ResponseInv
<1>6. CASE ReaderGone(HttpReader)
  <2>1. /\ \/ socket = "closing" /\ socket' = "closed"
           \/ socket = "leaving" /\ socket' = "left"
        /\ UNCHANGED <<writer, writerClosed, written, received>>
    BY <1>2, <1>3, <1>6 DEF ReaderGone, socket
  <2>2. SentInOrder'
    BY <1>1, <2>1 DEF ResponseInv, SentInOrder, sent
  <2>3. InvokedInOrder'
    BY <1>1, <2>1 DEF ResponseInv, InvokedInOrder, responseVars
  <2>4. BridgeTypeOK' /\ BodyIsConsumed' /\ HeadIsConsumed' /\ ClosedIsComplete'
    BY <1>1, <1>2, <2>1, NothingWritten
  <2>5. QED
    BY <2>2, <2>3, <2>4 DEF ResponseInv
<1>7. CASE AbandonTimerFires
  <2>1. UNCHANGED <<writer, writerClosed, written, received, reader>> /\ pending' = <<>>
    BY <1>7 DEF AbandonTimerFires, Dispose
  <2>2. SentInOrder' /\ InvokedInOrder'
    BY <1>1, <2>1 DEF ResponseInv, SentInOrder, InvokedInOrder, sent, socket, responseVars
  <2>3. BridgeTypeOK' /\ BodyIsConsumed' /\ HeadIsConsumed' /\ ClosedIsComplete'
    BY <1>1, <1>2, <2>1, NothingWritten DEF socket
  <2>4. QED
    BY <2>2, <2>3 DEF ResponseInv
<1>8. QED
  BY <1>4, <1>5, <1>6, <1>7 DEF ChannelSide

(* A step of the handler changes nothing of the channel.                   *)
LEMMA ChannelStays ==
  ASSUME ResponseInv, UNCHANGED channelVars
  PROVE  /\ socket' = socket /\ sent' = sent /\ UNCHANGED <<writer, writerClosed, written, pending>>
         /\ ChannelTypeOK'
         /\ consumed' = consumed => SentInOrder'
BY DEF ResponseInv, BridgeTypeOK, SentInOrder, channelVars, socket, sent, ChannelTypeOK

(* The promise: it is made when the socket opens, and a rejection ends the *)
(* response at once; neither touches what has been sent of the stream.     *)
LEMMA InvocationInBridge ==
  ASSUME StreamInv, ResponseInv,
         HttpReaderOpen \/ InvocationResolves \/ InvocationRejects
  PROVE  ResponseInv'
<1>1. UNCHANGED <<channelVars, consumed, statusCode, responseHeaders, headersSet, body>>
  BY DEF HttpReaderOpen, InvocationResolves, InvocationRejects, responseVars
<1>2. /\ SentInOrder' /\ ChannelTypeOK'
      /\ socket' = socket /\ UNCHANGED <<writer, writerClosed, written, pending>>
  BY <1>1, ChannelStays
<1>3. CASE HttpReaderOpen
  <2>1. /\ conn = "connecting" /\ conn' = "open" /\ socket # "none"
        /\ invocation' \in {"sent", "undelivered"} /\ UNCHANGED <<head, ended, crashed>>
    BY <1>3 DEF HttpReaderOpen, responseVars, socket
  <2>2. BridgeTypeOK' /\ BodyIsConsumed' /\ HeadIsConsumed' /\ ClosedIsComplete'
    BY <1>1, <1>2, <2>1
    DEF ResponseInv, BridgeTypeOK, BodyIsConsumed, HeadIsConsumed, ClosedIsComplete, Said
  <2>3. InvokedInOrder'
    BY <1>2, <2>1 DEF ResponseInv, InvokedInOrder
  <2>4. QED
    BY <1>2, <2>2, <2>3 DEF ResponseInv
<1>4. CASE InvocationResolves
  <2>1. /\ invocation = "sent" /\ invocation' = "resolved"
        /\ UNCHANGED <<conn, head, ended, crashed>>
    BY <1>4 DEF InvocationResolves, responseVars
  <2>2. BridgeTypeOK' /\ BodyIsConsumed' /\ HeadIsConsumed' /\ ClosedIsComplete'
    BY <1>1, <1>2, <2>1
    DEF ResponseInv, BridgeTypeOK, BodyIsConsumed, HeadIsConsumed, ClosedIsComplete, Said
  <2>3. InvokedInOrder'
    BY <1>2, <2>1 DEF ResponseInv, InvokedInOrder
  <2>4. QED
    BY <1>2, <2>2, <2>3 DEF ResponseInv
<1>5. CASE InvocationRejects
  <2>1. /\ invocation \in {"sent", "undelivered"} /\ invocation' = "rejected"
        /\ \/ conn' = conn
           \/ conn = "open" /\ conn' = "closing"
        /\ \/ HeadThrows /\ crashed' = "head" /\ UNCHANGED <<head, ended>>
           \/ /\ head' = IF headersSet THEN head ELSE ErrorHead
              /\ ended' = TRUE /\ crashed' = crashed
    BY <1>5 DEF InvocationRejects
  <2>2. BridgeTypeOK'
    <3>1. ErrorHead \in ResponseHead
      BY DEF ErrorHead, ResponseHead
    <3>2. QED
      BY <1>1, <1>2, <2>1, <3>1 DEF ResponseInv, BridgeTypeOK
  <2>3. BodyIsConsumed' /\ ClosedIsComplete'
    BY <1>1, <1>2, <2>1 DEF ResponseInv, BodyIsConsumed, ClosedIsComplete
  <2>4. HeadIsConsumed'
    BY <1>1, <1>2, <2>1 DEF ResponseInv, HeadIsConsumed, Said
  <2>5. InvokedInOrder'
    BY <1>2, <2>1 DEF ResponseInv, InvokedInOrder
  <2>6. QED
    BY <1>2, <2>2, <2>3, <2>4, <2>5 DEF ResponseInv
<1>6. QED
  BY <1>3, <1>4, <1>5

(* An error of the engine's own socket ends the response.                  *)
LEMMA ConnErrorInBridge ==
  ASSUME StreamInv, ResponseInv, ConnError
  PROVE  ResponseInv'
<1>1. /\ conn' = "failed" /\ ended' = TRUE
      /\ head' = IF headersSet THEN head ELSE ErrorHead
      /\ UNCHANGED <<channelVars, consumed, invocation, statusCode, responseHeaders,
                     headersSet, body, crashed>>
  BY DEF ConnError
<1>2. /\ SentInOrder' /\ ChannelTypeOK'
      /\ socket' = socket /\ UNCHANGED <<writer, writerClosed, written, pending>>
  BY <1>1, ChannelStays
<1>3. BridgeTypeOK'
  BY <1>1, <1>2 DEF ResponseInv, BridgeTypeOK, ErrorHead, ResponseHead
<1>4. BodyIsConsumed' /\ ClosedIsComplete'
  BY <1>1, <1>2 DEF ResponseInv, BodyIsConsumed, ClosedIsComplete
<1>5. HeadIsConsumed' /\ InvokedInOrder'
  BY <1>1, <1>2 DEF ResponseInv, HeadIsConsumed, InvokedInOrder, Said
<1>6. QED
  BY <1>2, <1>3, <1>4, <1>5 DEF ResponseInv

(* The head that is sent is the one the preamble asks for, if the frames   *)
(* consumed are the preamble.                                              *)
LEMMA HeadIsAsked ==
  ASSUME StreamInv, ResponseInv, crashed = "no", ~headersSet,
         consumed = Len(written) \/ IsBody(written[consumed + 1])
  PROVE  HeadOf(written) = [status |-> statusCode, headers |-> responseHeaders]
<1>1. written \in Seq(Frame) /\ consumed \in 0 .. Len(written)
  BY BridgeTyped
<1>2. /\ NoBodyIn(written, consumed)
      /\ statusCode = IF Said("set_status", consumed) THEN "set" ELSE "200"
      /\ responseHeaders = IF Said("set_headers", consumed) THEN "set" ELSE "default"
  BY DEF ResponseInv, HeadIsConsumed
<1>3. Preamble(written) = 1 .. consumed
  BY <1>1, <1>2, PreambleEnds
<1>4. QED
  BY <1>2, <1>3 DEF HeadOf, Said

(* The socket closes after its last frame, or broken.  The first ends the  *)
(* response, complete unless the invocation was rejected.                  *)
LEMMA ConnCloseInBridge ==
  ASSUME StreamInv, ResponseInv, crashed = "no", ConnClose
  PROVE  ResponseInv'
<1>1. /\ UNCHANGED <<channelVars, consumed, invocation, statusCode, responseHeaders, body>>
      /\ \/ /\ conn \in {"open", "closing"} /\ conn' = "closed"
            /\ socket \in {"closing", "leaving", "closed", "left"}
            /\ consumed = Len(sent)
         \/ conn = "failed" /\ conn' = "broken"
      /\ HeadCrash \/ (SendHead /\ ended' = TRUE /\ crashed' = crashed)
  BY DEF ConnClose, HeadCrash, socket, sent
<1>2. /\ SentInOrder' /\ ChannelTypeOK'
      /\ socket' = socket /\ UNCHANGED <<writer, writerClosed, written, pending>>
  BY <1>1, ChannelStays
<1>3. InvokedInOrder'
  BY <1>1, <1>2 DEF ResponseInv, InvokedInOrder, HeadCrash
<1>4. CASE HeadCrash
  <2>1. crashed' = "head" /\ UNCHANGED <<headersSet, head, ended>>
    BY <1>4 DEF HeadCrash
  <2>2. BridgeTypeOK' /\ BodyIsConsumed' /\ HeadIsConsumed' /\ ClosedIsComplete'
    BY <1>1, <1>2, <2>1
    DEF ResponseInv, BridgeTypeOK, BodyIsConsumed, HeadIsConsumed, ClosedIsComplete
  <2>3. QED
    BY <1>2, <1>3, <2>2 DEF ResponseInv
<1>5. CASE SendHead /\ ended' = TRUE /\ crashed' = crashed
  <2>1. /\ headersSet' = TRUE
        /\ head' = IF headersSet THEN head
                   ELSE [status |-> statusCode, headers |-> responseHeaders]
    BY <1>5 DEF SendHead
  <2>2. BridgeTypeOK'
    BY <1>1, <1>2, <1>5, <2>1 DEF ResponseInv, BridgeTypeOK, ResponseHead
  <2>3. BodyIsConsumed' /\ HeadIsConsumed'
    BY <1>1, <1>2, <1>5, <2>1 DEF ResponseInv, BodyIsConsumed, HeadIsConsumed
  <2>4. ASSUME conn' = "closed", invocation # "rejected"
        PROVE  /\ socket \in {"closing", "closed"}
               /\ IsBodyOf(body, written, Len(written))
               /\ head' = HeadOf(written)
    <3>1. conn = "open" /\ socket \in {"closing", "closed"} /\ consumed = Len(sent) /\ ~ended
      BY <1>1, <2>4 DEF ResponseInv, InvokedInOrder
    <3>2. consumed = Len(written)
      BY <3>1 DEF ResponseInv, SentInOrder
    <3>3. IsBodyOf(body, written, Len(written))
      BY <3>1, <3>2 DEF ResponseInv, BodyIsConsumed
    <3>4. head' = HeadOf(written)
      <4>1. CASE headersSet
        BY <2>1, <3>1, <4>1 DEF ResponseInv, HeadIsConsumed, BodyIsConsumed
      <4>2. CASE ~headersSet
        BY <2>1, <3>2, <4>2, HeadIsAsked
      <4>3. QED
        BY <4>1, <4>2
    <3>5. QED
      BY <3>1, <3>3, <3>4
  <2>5. ClosedIsComplete'
    BY <1>1, <1>2, <2>4 DEF ClosedIsComplete
  <2>6. QED
    BY <1>2, <1>3, <2>2, <2>3, <2>5 DEF ResponseInv
<1>6. QED
  BY <1>1, <1>4, <1>5

(* A control frame counts for the head while that has not been sent, and   *)
(* never for the body.                                                     *)
LEMMA ControlArrives ==
  ASSUME StreamInv, ResponseInv, crashed = "no", FrameArrives, crashed' = "no",
         ~IsBody(written[consumed + 1])
  PROVE  BodyIsConsumed' /\ HeadIsConsumed'
<1> DEFINE n == consumed + 1
<1>1. /\ consumed < Len(sent) /\ consumed' = n
      /\ sent[n] = written[n] /\ written' = written
      /\ consumed \in Nat /\ written \in Seq(Frame) /\ n \in 1 .. Len(written)
  BY BridgeTyped DEF FrameArrives, channelVars, ResponseInv, SentInOrder, sent
<1>2. \/ written[n].data = "set_status" /\ SetStatus
      \/ written[n].data = "set_headers" /\ SetHeaders
  BY <1>1 DEF FrameArrives, sent, IsBody
<1>3. UNCHANGED <<headersSet, head, body, ended>>
  BY <1>2 DEF SetStatus, SetHeaders
<1>4. 1 .. n = (1 .. consumed) \cup {n}
  BY <1>1
<1>5. BodyIsConsumed'
  <2>1. IsBodyOf(body, written, consumed) => IsBodyOf(body, written, n)
    BY <1>1, BodySkips
  <2>2. \A k \in 0 .. consumed : k \in 0 .. n
    BY <1>1
  <2>3. ~NoBodyIn(written, consumed) => ~NoBodyIn(written, n)
    BY <1>4 DEF NoBodyIn
  <2>4. QED
    BY <1>1, <1>3, <2>1, <2>2, <2>3 DEF ResponseInv, BodyIsConsumed
<1>6. HeadIsConsumed'
  <2>1. NoBodyIn(written, consumed) => NoBodyIn(written, n)
    BY <1>4 DEF NoBodyIn
  <2>2. \A data : Said(data, n) <=> Said(data, consumed) \/ written[n].data = data
    BY <1>4 DEF Said
  <2>3. \A data : Said(data, consumed)' <=> Said(data, n)
    BY <1>1 DEF Said
  <2>4. NoBodyIn(written, consumed)' <=> NoBodyIn(written, n)
    BY <1>1
  <2>5. QED
    BY <1>2, <1>3, <2>1, <2>2, <2>3, <2>4
    DEF ResponseInv, HeadIsConsumed, SetStatus, SetHeaders
<1>7. QED
  BY <1>5, <1>6

(* A body frame sends the head, if it is the first, and goes to the body   *)
(* unless the response has ended.                                          *)
LEMMA BodyArrives ==
  ASSUME StreamInv, ResponseInv, crashed = "no", FrameArrives,
         IsBody(written[consumed + 1])
  PROVE  BodyIsConsumed' /\ HeadIsConsumed' /\ body' \in Seq(Frame)
         /\ head' \in ResponseHead \cup {NoHead}
<1> DEFINE n == consumed + 1
           f == written[n]
<1>1. /\ consumed < Len(sent) /\ consumed' = n
      /\ sent[n] = written[n] /\ written' = written
      /\ consumed \in Nat /\ written \in Seq(Frame) /\ n \in 1 .. Len(written)
      /\ body \in Seq(Frame)
      /\ \A i \in 1 .. Len(written) : written[i].id = i
  BY BridgeTyped DEF FrameArrives, channelVars, ResponseInv, SentInOrder, sent
<1>2. WriteBody(f)
  BY <1>1 DEF FrameArrives, sent, IsBody
<1>3. f \in Frame /\ Append(body, f) \in Seq(Frame)
  BY <1>1, FramesTyped
<1>4. UNCHANGED <<statusCode, responseHeaders, ended>> /\ ~NoBodyIn(written, n)
  BY <1>1, <1>2 DEF WriteBody, HeadCrash, NoBodyIn
<1>5. \A k \in 0 .. consumed : k \in 0 .. n
  BY <1>1
<1>6. head \in ResponseHead \cup {NoHead}
      /\ [status |-> statusCode, headers |-> responseHeaders] \in ResponseHead
  BY DEF ResponseInv, BridgeTypeOK, ResponseHead
<1> HIDE DEF f
<1>7. CASE HeadCrash
  <2>1. crashed' = "head" /\ UNCHANGED <<headersSet, head, body, ended>>
    BY <1>7 DEF HeadCrash
  <2>2. BodyIsConsumed' /\ HeadIsConsumed'
    BY <1>1, <1>4, <1>5, <2>1 DEF ResponseInv, BodyIsConsumed, HeadIsConsumed
  <2>3. QED
    BY <1>1, <1>6, <2>1, <2>2
<1>8. CASE SendHead /\ ended
  <2>1. body' = body /\ headersSet' = TRUE /\ ended'
    BY <1>2, <1>4, <1>8 DEF WriteBody, HeadCrash, SendHead
  <2>2. headersSet => head' = head
    BY <1>8 DEF SendHead
  <2>3. BodyIsConsumed' /\ HeadIsConsumed'
    BY <1>1, <1>4, <1>5, <2>1, <2>2, <1>8 DEF ResponseInv, BodyIsConsumed, HeadIsConsumed
  <2>4. QED
    BY <1>1, <1>6, <1>8, <2>1, <2>3 DEF SendHead
<1>9. CASE SendHead /\ ~ended /\ ~HeadCrash
  <2>1. /\ body' = Append(body, f) /\ headersSet' = TRUE
        /\ head' = IF headersSet THEN head
                   ELSE [status |-> statusCode, headers |-> responseHeaders]
    BY <1>2, <1>9 DEF WriteBody, SendHead
  <2>2. IsBodyOf(body, written, consumed)
    BY <1>9 DEF ResponseInv, BodyIsConsumed
  <2>3. IsBodyOf(body', written, n)
    <3>1. consumed < Len(written)
      BY <1>1, BridgeTyped
    <3>2. IsBodyOf(Append(body, written[consumed + 1]), written, consumed + 1)
      BY <1>1, <2>2, <3>1, BodyGrows
    <3>3. QED
      BY <2>1, <3>2 DEF f
  <2>4. body' # <<>>
    BY <1>1, <1>3, <2>1, AppendProperties
  <2>5. head' = HeadOf(written)
    <3>1. CASE headersSet
      BY <1>9, <2>1, <3>1 DEF ResponseInv, HeadIsConsumed, BodyIsConsumed
    <3>2. CASE ~headersSet
      BY <2>1, <3>2, HeadIsAsked
    <3>3. QED
      BY <3>1, <3>2
  <2>6. n \in 0 .. n
    BY <1>1
  <2>7. BodyIsConsumed' /\ HeadIsConsumed'
    BY <1>1, <1>4, <2>1, <2>3, <2>4, <2>5, <2>6 DEF BodyIsConsumed, HeadIsConsumed
  <2>8. QED
    BY <1>3, <1>6, <2>1, <2>7
<1>10. QED
  BY <1>2, <1>7, <1>8, <1>9 DEF WriteBody

LEMMA FrameArrivesInBridge ==
  ASSUME StreamInv, ResponseInv, crashed = "no", FrameArrives
  PROVE  ResponseInv'
<1> DEFINE n == consumed + 1
<1>1. /\ consumed < Len(sent) /\ consumed' = n
      /\ conn \in {"open", "closing"} /\ UNCHANGED <<channelVars, conn, invocation>>
      /\ \/ written[n].data = "set_status" /\ SetStatus
         \/ written[n].data = "set_headers" /\ SetHeaders
         \/ IsBody(written[n]) /\ WriteBody(written[n])
  <2>1. consumed < Len(sent) /\ consumed' = n
    BY DEF FrameArrives, sent
  <2>2. n \in 1 .. Len(sent)
    BY <2>1, BridgeTyped
  <2>3. sent[n] = written[n]
    BY <2>2 DEF ResponseInv, SentInOrder
  <2>4. QED
    BY <2>1, <2>3 DEF FrameArrives, sent, IsBody
<1>2. /\ ChannelTypeOK' /\ socket' = socket /\ sent' = sent
      /\ UNCHANGED <<writer, writerClosed, written, pending>>
  BY <1>1, ChannelStays
<1>3. /\ consumed' \in 0 .. Len(sent) /\ consumed' \in 0 .. MaxFrames
  BY <1>1, BridgeTyped, ChannelAssumption DEF ResponseInv, SentInOrder
<1>4. SentInOrder'
  BY <1>2, <1>3 DEF ResponseInv, SentInOrder
<1>5. ended' = ended
  BY <1>1 DEF SetStatus, SetHeaders, WriteBody, HeadCrash
<1>6. InvokedInOrder' /\ ClosedIsComplete'
  BY <1>1, <1>2, <1>5 DEF ResponseInv, InvokedInOrder, ClosedIsComplete
<1>7. /\ statusCode' \in {"200", "set"} /\ responseHeaders' \in {"default", "set"}
      /\ headersSet' \in BOOLEAN /\ crashed' \in {"no", "head", "write"}
  BY <1>1
  DEF ResponseInv, BridgeTypeOK, SetStatus, SetHeaders, WriteBody, HeadCrash, SendHead
<1>8. CASE IsBody(written[n])
  BY <1>1, <1>2, <1>3, <1>4, <1>5, <1>6, <1>7, <1>8, BodyArrives
  DEF ResponseInv, BridgeTypeOK
<1>9. CASE ~IsBody(written[n])
  <2>1. UNCHANGED <<headersSet, head, body, crashed>>
    BY <1>1, <1>9 DEF SetStatus, SetHeaders
  <2>2. BodyIsConsumed' /\ HeadIsConsumed'
    BY <1>9, <2>1, ControlArrives
  <2>3. QED
    BY <1>1, <1>2, <1>3, <1>4, <1>5, <1>6, <1>7, <2>1, <2>2 DEF ResponseInv, BridgeTypeOK
<1>10. QED
  BY <1>8, <1>9

LEMMA BridgeNextKeeps ==
  StreamInv /\ ResponseInv /\ [BridgeNext]_bridgeVars => StreamInv' /\ ResponseInv'
<1> SUFFICES ASSUME StreamInv, ResponseInv, [BridgeNext]_bridgeVars
             PROVE  StreamInv' /\ ResponseInv'
  OBVIOUS
<1>1. StreamInv'
  BY BridgeStepsChannel, StreamNextKeeps
<1>2. CASE WorkerWrites
  <2>1. invocation # "none" /\ UNCHANGED <<conn, consumed, invocation, responseVars>>
    BY <1>2 DEF WorkerWrites
  <2>2. CASE WriterConnects \/ WriterCloses
    BY <1>1, <2>1, <2>2, WriterTurnsInBridge
  <2>3. ASSUME NEW size \in Sizes, NEW data \in Data, WriterSends(size, data)
        PROVE  ResponseInv'
    BY <1>1, <2>1, <2>3, WriterSendsInBridge
  <2>4. QED
    BY <1>1, <1>2, <2>2, <2>3 DEF WorkerWrites
<1>3. CASE ChannelSide
  BY <1>1, <1>3, ChannelSideInBridge
<1>4. CASE HttpReaderOpen \/ InvocationResolves \/ InvocationRejects
  BY <1>1, <1>4, InvocationInBridge
<1>5. CASE crashed = "no" /\ FrameArrives
  BY <1>1, <1>5, FrameArrivesInBridge
<1>6. CASE crashed = "no" /\ ConnClose
  BY <1>1, <1>6, ConnCloseInBridge
<1>7. CASE ConnError
  BY <1>1, <1>7, ConnErrorInBridge
<1>8. CASE UNCHANGED bridgeVars
  <2>1. ResponseInv'
    <3>1. UNCHANGED <<channelVars, conn, consumed, invocation, responseVars>>
      BY <1>8 DEF bridgeVars
    <3>2. /\ ChannelTypeOK' /\ socket' = socket /\ SentInOrder'
          /\ UNCHANGED <<writer, writerClosed, written, pending>>
      BY <3>1, ChannelStays
    <3>3. InvokedInOrder'
      BY <3>1, <3>2 DEF ResponseInv, InvokedInOrder, responseVars
    <3>4. QED
      BY <3>1, <3>2, <3>3, NothingWritten DEF ResponseInv
  <2>2. QED
    BY <1>1, <2>1
<1>9. QED
  BY <1>2, <1>3, <1>4, <1>5, <1>6, <1>7, <1>8 DEF BridgeNext

LEMMA BridgeAlways == BridgeSpec => [](StreamInv /\ ResponseInv)
<1>1. BridgeInit => StreamInv /\ ResponseInv
  BY BridgeInitHolds, StreamInitHolds DEF BridgeInit
<1>2. QED
  BY <1>1, BridgeNextKeeps, PTL DEF BridgeSpec

(* In every state the response is a faithful beginning of the stream the   *)
(* worker writes: no body frame missing, repeated or out of order, and the *)
(* head that of the control frames before the first body frame.            *)
THEOREM ResponseIsFaithful == BridgeSpec => []BridgeInv
<1>1. StreamInv /\ ResponseInv => BridgeInv
  <2> SUFFICES ASSUME StreamInv, ResponseInv PROVE BridgeInv
    OBVIOUS
  <2>1. \A n \in 0 .. consumed : n \in 0 .. Len(written)
    BY BridgeTyped
  <2>2. QED
    BY <2>1 DEF ResponseInv, BodyIsConsumed, BridgeInv, ResponseFollowsStream
<1>2. QED
  BY <1>1, BridgeAlways, PTL

(* When the socket closes and neither it nor the invocation has failed,    *)
(* the client has been sent all that the worker wrote.                     *)
THEOREM SuccessLeavesNothingOut == BridgeSpec => []SuccessIsComplete
<1>1. ResponseInv => SuccessIsComplete
  BY DEF ResponseInv, ClosedIsComplete, SuccessIsComplete
<1>2. QED
  BY <1>1, BridgeAlways, PTL

(* Over a healthy socket only a rejected invocation ends the response      *)
(* before the worker has closed its stream.                                *)
THEOREM StreamIsOnlyCutByFailure == BridgeSpec => []OnlyFailureCutsStream
<1>1. ResponseInv => OnlyFailureCutsStream
  BY DEF ResponseInv, InvokedInOrder, OnlyFailureCutsStream
<1>2. QED
  BY <1>1, BridgeAlways, PTL
=============================================================================
