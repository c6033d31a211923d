--------------------------- MODULE ChannelProofs ----------------------------
(***************************************************************************)
(* Proofs about a streaming channel, for any readers, frames and buffer    *)
(* size.  That no reader is left waiting rests on what the close handlers  *)
(* rely on without testing it: every socket that is not gone is in readWss,*)
(* and while frames are buffered readWss is empty, so that the writer's    *)
(* close handler may leave the readers alone (ReleaseInv).  That nothing   *)
(* is lost or repeated follows what buffer and readers hold (StreamInv);   *)
(* the byte count needs what a finite union of intervals counts.           *)
(***************************************************************************)
EXTENDS Channel, SequenceTheorems, FiniteSetTheorems, TLAPS

Shape ==
  /\ reader \in [Readers -> {"none", "open", "closing", "leaving", "closed",
                             "left", "denied"}]
  /\ readWss \in SUBSET Readers

(* readWss follows the sockets: attachChannelReader adds to it and only the*)
(* reader's `close' handler takes away.                                    *)
AttachedAreKnown ==
  \A r \in Readers : reader[r] \in {"open", "closing", "leaving"} => r \in readWss

(* The flag follows the writer's socket, and a channel only leaves the map *)
(* when it is set.                                                         *)
WriterIsFollowed ==
  /\ writerClosed <=> writer = "closed"
  /\ ~registered => writerClosed

(* The buffer's byte count stays within MAX_PENDING_CHANNEL_BYTES.         *)
BytesAreBounded == pendingBytes \in Nat /\ pendingBytes <= MaxPendingBytes

ReleaseInv ==
  /\ Shape
  /\ AttachedAreKnown
  /\ WriterIsFollowed
  /\ BufferWaitsForReader
  /\ BytesAreBounded
  /\ NoReaderWaitsForNothing

-----------------------------------------------------------------------------
(* The channel starts with no reader and an empty buffer.                  *)
LEMMA ChannelInitHolds == ChannelInit => ReleaseInv
BY ChannelAssumption
DEF ChannelInit, ReleaseInv, Shape, AttachedAreKnown, WriterIsFollowed,
    BufferWaitsForReader, BytesAreBounded, NoReaderWaitsForNothing

(* A frame is broadcast, buffered or dropped: the buffer is filled only    *)
(* while no reader is attached, and never beyond its size.                 *)
LEMMA WriterSendsKeeps ==
  ASSUME ReleaseInv, NEW size \in Sizes, NEW data \in Data,
         WriterSends(size, data)
  PROVE  ReleaseInv'
<1> DEFINE f == [id |-> Len(written) + 1, size |-> size, data |-> data]
<1>1. /\ writer = "open"
      /\ Broadcast(f) \/ BufferFrame(f) \/ Overflow(f)
      /\ UNCHANGED <<registered, writer, writerClosed, reader, readWss, abandonTimer>>
  BY DEF WriterSends
<1>2. registered /\ ~writerClosed
  BY <1>1 DEF ReleaseInv, WriterIsFollowed
<1>3. f.size \in Nat
  BY ChannelAssumption
<1>4. pending' # <<>> => readWss = {}
  BY <1>1 DEF Broadcast, BufferFrame, Overflow, ReleaseInv, BufferWaitsForReader
<1>5. BytesAreBounded'
  BY <1>1, <1>3, ChannelAssumption
  DEF Broadcast, BufferFrame, Overflow, ReleaseInv, BytesAreBounded
<1>6. QED
  BY <1>1, <1>2, <1>4, <1>5
  DEF ReleaseInv, Shape, AttachedAreKnown, WriterIsFollowed,
      BufferWaitsForReader, NoReaderWaitsForNothing

(* The writer's close releases every reader: if frames are buffered there  *)
(* is none, otherwise each open one is in readWss and is closed.           *)
LEMMA WriterClosesKeeps ==
  ASSUME ReleaseInv, WriterCloses
  PROVE  ReleaseInv'
<1>1. writerClosed' /\ writer' = "closed" /\ UNCHANGED <<readWss, pendingBytes>>
  BY DEF WriterCloses
<1>2. CASE pending = <<>>
  <2>1. reader' = CloseSockets(readWss) /\ abandonTimer' = FALSE /\ pending' = <<>>
    BY <1>2 DEF WriterCloses, Dispose
  <2>2. \A r \in Readers :
          reader'[r] = IF r \in readWss /\ reader[r] = "open" THEN "closing"
                                                              ELSE reader[r]
    BY <2>1 DEF CloseSockets
  <2>3. Shape' /\ AttachedAreKnown' /\ NoReaderWaitsForNothing'
    BY <1>1, <2>1, <2>2
    DEF ReleaseInv, Shape, AttachedAreKnown, NoReaderWaitsForNothing, CloseSockets
  <2>4. QED
    BY <1>1, <2>1, <2>3
    DEF ReleaseInv, WriterIsFollowed, BufferWaitsForReader, BytesAreBounded
<1>3. CASE pending # <<>>
  <2>1. abandonTimer' /\ UNCHANGED <<reader, registered, pending>>
    BY <1>3 DEF WriterCloses
  <2>2. readWss = {} /\ registered
    BY <1>3 DEF ReleaseInv, BufferWaitsForReader
  <2>3. QED
    BY <1>1, <2>1, <2>2
    DEF ReleaseInv, Shape, AttachedAreKnown, WriterIsFollowed,
        BufferWaitsForReader, BytesAreBounded, NoReaderWaitsForNothing
<1>4. QED
  BY <1>2, <1>3

(* A reader that attaches takes the buffer, and is closed at once if the   *)
(* writer is gone.                                                         *)
LEMMA ReaderAttachesKeeps ==
  ASSUME ReleaseInv, NEW r \in Readers, ReaderAttaches(r)
  PROVE  ReleaseInv'
<1>1. BytesAreBounded'
  BY ChannelAssumption DEF ReaderAttaches, ReleaseInv, BytesAreBounded
<1>2. Shape' /\ AttachedAreKnown' /\ NoReaderWaitsForNothing'
  BY DEF ReaderAttaches, ReleaseInv, Shape, AttachedAreKnown, NoReaderWaitsForNothing
<1>3. QED
  BY <1>1, <1>2 DEF ReaderAttaches, ReleaseInv, WriterIsFollowed, BufferWaitsForReader

(* A reader's close takes it out of readWss and drops the channel if it was*)
(* the last one of a finished stream.                                      *)
LEMMA ReaderGoneKeeps ==
  ASSUME ReleaseInv, NEW r \in Readers, ReaderGone(r)
  PROVE  ReleaseInv'
<1>1. Shape' /\ AttachedAreKnown' /\ NoReaderWaitsForNothing' /\ BytesAreBounded'
  BY DEF ReaderGone, ReleaseInv, Shape, AttachedAreKnown,
         NoReaderWaitsForNothing, BytesAreBounded
<1>2. BufferWaitsForReader' /\ WriterIsFollowed'
  <2>1. CASE writerClosed /\ readWss' = {}
    BY <2>1 DEF ReaderGone, Dispose, ReleaseInv, BufferWaitsForReader, WriterIsFollowed
  <2>2. CASE ~ (writerClosed /\ readWss' = {})
    BY <2>2 DEF ReaderGone, ReleaseInv, BufferWaitsForReader, WriterIsFollowed
  <2>3. QED
    BY <2>1, <2>2
<1>3. QED
  BY <1>1, <1>2 DEF ReleaseInv

(* The abandon timer empties the buffer of a channel whose writer closed.  *)
LEMMA AbandonKeeps ==
  ASSUME ReleaseInv, AbandonTimerFires
  PROVE  ReleaseInv'
BY DEF AbandonTimerFires, Dispose, ReleaseInv, Shape, AttachedAreKnown,
       WriterIsFollowed, BufferWaitsForReader, BytesAreBounded,
       NoReaderWaitsForNothing

(* Every step of a channel keeps the invariant.                            *)
LEMMA ChannelNextKeeps == ReleaseInv /\ [ChannelNext]_channelVars => ReleaseInv'
<1> SUFFICES ASSUME ReleaseInv, [ChannelNext]_channelVars
             PROVE  ReleaseInv'
  OBVIOUS
<1> USE DEF ReleaseInv, Shape, AttachedAreKnown, WriterIsFollowed,
            BufferWaitsForReader, BytesAreBounded, NoReaderWaitsForNothing
<1>1. CASE WriterConnects
  BY <1>1 DEF WriterConnects
<1>2. ASSUME NEW size \in Sizes, NEW data \in Data, WriterSends(size, data)
      PROVE  ReleaseInv'
  BY <1>2, WriterSendsKeeps
<1>3. CASE WriterCloses
  BY <1>3, WriterClosesKeeps
<1>4. CASE AbandonTimerFires
  BY <1>4, AbandonKeeps
<1>5. ASSUME NEW r \in Readers, ReaderDenied(r) \/ ReaderLeaves(r)
      PROVE  ReleaseInv'
  BY <1>5 DEF ReaderDenied, ReaderLeaves
<1>6. ASSUME NEW r \in Readers, ReaderAttaches(r)
      PROVE  ReleaseInv'
  BY <1>6, ReaderAttachesKeeps
<1>7. ASSUME NEW r \in Readers, ReaderGone(r)
      PROVE  ReleaseInv'
  BY <1>7, ReaderGoneKeeps
<1>8. CASE UNCHANGED channelVars
  BY <1>8 DEF channelVars
<1>9. QED
  BY <1>1, <1>2, <1>3, <1>4, <1>5, <1>6, <1>7, <1>8 DEF ChannelNext

(* Once the writer's close has been handled no reader's socket stays open, *)
(* also that of a reader which attaches afterwards.                        *)
THEOREM ReadersAreReleased == ChannelSpec => []NoReaderWaitsForNothing
<1>1. ReleaseInv => NoReaderWaitsForNothing
  BY DEF ReleaseInv
<1>2. QED
  BY <1>1, ChannelInitHolds, ChannelNextKeeps, PTL DEF ChannelSpec

(* The buffer never holds more than MAX_PENDING_CHANNEL_BYTES by its own   *)
(* count, and only holds frames while no reader is attached.               *)
THEOREM BufferStaysInBounds ==
  ChannelSpec => [](BytesAreBounded /\ BufferWaitsForReader)
<1>1. ReleaseInv => BytesAreBounded /\ BufferWaitsForReader
  BY DEF ReleaseInv
<1>2. QED
  BY <1>1, ChannelInitHolds, ChannelNextKeeps, PTL DEF ChannelSpec
-----------------------------------------------------------------------------
(* How many units the frames take.                                         *)

UnitsOf(i, size) == {i} \X (1 .. size)

LEMMA UnitsOfFinite ==
  ASSUME NEW i, NEW size \in Nat
  PROVE  IsFiniteSet(UnitsOf(i, size)) /\ Cardinality(UnitsOf(i, size)) = size
<1>1. IsFiniteSet({i}) /\ Cardinality({i}) = 1
  BY FS_Singleton
<1>2. IsFiniteSet(1 .. size) /\ Cardinality(1 .. size) = size
  BY FS_Interval
<1>3. IsFiniteSet({i} \X (1 .. size))
      /\ Cardinality({i} \X (1 .. size)) = Cardinality({i}) * Cardinality(1 .. size)
  BY <1>1, <1>2, FS_Product
<1>4. QED
  BY <1>1, <1>2, <1>3 DEF UnitsOf

LEMMA SizeIsNat ==
  ASSUME NEW f \in Frame
  PROVE  f.size \in Nat
BY ChannelAssumption DEF Frame

LEMMA UnitsFinite ==
  ASSUME NEW frames \in Seq(Frame)
  PROVE  IsFiniteSet(Units(frames))
<1> DEFINE D == 1 .. Len(frames)
           units == [i \in D |-> UnitsOf(i, frames[i].size)]
           T == {UnitsOf(i, frames[i].size) : i \in D}
<1>1. Len(frames) \in Nat /\ \A i \in D : frames[i].size \in Nat
  BY LenProperties, ElementOfSeq, SizeIsNat
<1>2. IsFiniteSet(D)
  BY <1>1, FS_Interval
<1>3. units \in Surjection(D, T)
  BY DEF Surjection
<1>4. \A t \in T : IsFiniteSet(t)
  BY <1>1, UnitsOfFinite
<1>5. IsFiniteSet(T)
  <2> HIDE DEF D, units, T
  <2>1. QED BY <1>2, <1>3, FS_Surjection
<1>6. IsFiniteSet(UNION T)
  <2> HIDE DEF T
  <2>1. QED BY <1>4, <1>5, FS_UNION
<1>7. QED
  BY <1>6 DEF Units, UnitsOf

(* The bytes of a sequence are a number, 0 for none, and one more frame    *)
(* adds its own.                                                           *)
LEMMA BytesType ==
  ASSUME NEW frames \in Seq(Frame)
  PROVE  Bytes(frames) \in Nat
BY UnitsFinite, FS_CardinalityType DEF Bytes

LEMMA BytesEmpty == Bytes(<<>>) = 0
<1>1. Units(<<>>) = {}
  BY DEF Units
<1>2. QED
  BY <1>1, FS_EmptySet DEF Bytes

LEMMA BytesAppend ==
  ASSUME NEW frames \in Seq(Frame), NEW f \in Frame
  PROVE  Bytes(Append(frames, f)) = Bytes(frames) + f.size
<1> DEFINE n == Len(frames) + 1
           more == Append(frames, f)
<1>1. /\ n \in Nat /\ more \in Seq(Frame) /\ Len(more) = n /\ more[n] = f
      /\ \A i \in 1 .. Len(frames) : more[i] = frames[i]
      /\ Len(frames) \in Nat /\ f.size \in Nat
  <2>1. Len(frames) \in Nat
    BY LenProperties
  <2>2. /\ more \in Seq(Frame) /\ Len(more) = n /\ more[n] = f
        /\ \A i \in 1 .. Len(frames) : more[i] = frames[i]
    BY AppendProperties
  <2>3. QED
    BY <2>1, <2>2, SizeIsNat
<1> HIDE DEF n, more
<1>2. 1 .. n = (1 .. Len(frames)) \cup {n}
  BY <1>1 DEF n
<1>3. Units(more) = Units(frames) \cup UnitsOf(n, f.size)
  <2>1. Units(more) = UNION {UnitsOf(i, more[i].size) : i \in 1 .. n}
    BY <1>1 DEF Units, UnitsOf
  <2>2. Units(frames) = UNION {UnitsOf(i, more[i].size) : i \in 1 .. Len(frames)}
    BY <1>1 DEF Units, UnitsOf
  <2>3. UnitsOf(n, f.size) = UnitsOf(n, more[n].size)
    BY <1>1
  <2>4. QED
    BY <1>2, <2>1, <2>2, <2>3, Zenon
<1>4. Units(frames) \cap UnitsOf(n, f.size) = {}
  BY <1>1 DEF n, Units, UnitsOf
<1>5. IsFiniteSet(Units(frames)) /\ IsFiniteSet(UnitsOf(n, f.size))
      /\ Cardinality(UnitsOf(n, f.size)) = f.size
  BY <1>1, UnitsFinite, UnitsOfFinite
<1>6. Cardinality(Units(frames) \cup UnitsOf(n, f.size)) =
        Cardinality(Units(frames)) + Cardinality(UnitsOf(n, f.size))
          - Cardinality(Units(frames) \cap UnitsOf(n, f.size))
  BY <1>5, FS_Union
<1>7. Cardinality({}) = 0 /\ Cardinality(Units(frames)) \in Nat
  BY <1>5, FS_EmptySet, FS_CardinalityType
<1>8. Bytes(more) = Bytes(frames) + f.size
  <2>1. Bytes(more) = Bytes(frames) + f.size - 0
    BY <1>3, <1>4, <1>5, <1>6, <1>7, Zenon DEF Bytes
  <2>2. Bytes(frames) \in Nat
    BY BytesType
  <2>3. QED
    BY <1>1, <2>1, <2>2
<1>9. QED
  BY <1>8 DEF more
-----------------------------------------------------------------------------
(* Frames in order, none newer than the n-th that was written.             *)

InOrder(frames, n) ==
  /\ Ascending(frames)
  /\ \A i \in 1 .. Len(frames) : frames[i].id <= n

LEMMA InOrderAppend ==
  ASSUME NEW frames \in Seq(Frame), NEW n \in Nat, InOrder(frames, n),
         NEW f \in Frame, f.id = n + 1
  PROVE  InOrder(Append(frames, f), n + 1)
<1> DEFINE more == Append(frames, f)
           k == Len(frames)
<1>1. k \in Nat /\ \A i \in 1 .. k : frames[i] \in Frame
  BY LenProperties, ElementOfSeq
<1>2. \A i \in 1 .. k : frames[i].id \in Nat
  BY <1>1, ChannelAssumption DEF Frame
<1>3. /\ Len(more) = k + 1 /\ more[k + 1] = f
      /\ \A i \in 1 .. k : more[i] = frames[i]
  BY AppendProperties
<1> HIDE DEF more, k
<1>4. Ascending(more)
  <2> SUFFICES ASSUME NEW i \in 1 .. k + 1, NEW j \in 1 .. k + 1, i < j
               PROVE  more[i].id < more[j].id
    BY <1>1, <1>3 DEF Ascending
  <2>1. i \in 1 .. k /\ more[i] = frames[i] /\ frames[i].id <= n
    BY <1>1, <1>3 DEF InOrder, k
  <2>2. CASE j = k + 1
    BY <1>2, <1>3, <2>1, <2>2
  <2>3. CASE j # k + 1
    BY <1>1, <1>3, <2>1, <2>3 DEF InOrder, Ascending, k
  <2>4. QED BY <2>2, <2>3
<1>5. \A i \in 1 .. k + 1 : more[i].id <= n + 1
  <2> TAKE i \in 1 .. k + 1
  <2>1. CASE i = k + 1
    BY <1>3, <2>1
  <2>2. CASE i # k + 1
    BY <1>1, <1>2, <1>3, <2>2 DEF InOrder, k
  <2>3. QED BY <2>1, <2>2
<1>6. QED BY <1>3, <1>4, <1>5 DEF InOrder, more, k

LEMMA InOrderLater ==
  ASSUME NEW frames \in Seq(Frame), NEW n \in Nat, InOrder(frames, n)
  PROVE  InOrder(frames, n + 1)
<1>1. \A i \in 1 .. Len(frames) : frames[i] \in Frame
  BY ElementOfSeq
<1>2. \A i \in 1 .. Len(frames) : frames[i].id \in Nat
  BY <1>1, ChannelAssumption DEF Frame
<1>3. QED BY <1>2 DEF InOrder

(* The beginning of what is in order is in order. *)
LEMMA InOrderPrefix ==
  ASSUME NEW s \in Seq(Frame), NEW t \in Seq(Frame), NEW n \in Nat, InOrder(s \o t, n)
  PROVE  InOrder(s, n)
<1>1. Len(s) \in Nat /\ Len(t) \in Nat
  BY LenProperties
<1>2. /\ Len(s \o t) = Len(s) + Len(t)
      /\ \A i \in 1 .. Len(s) + Len(t) : (s \o t)[i] = IF i <= Len(s) THEN s[i] ELSE t[i - Len(s)]
  BY ConcatProperties
<1>3. \A i \in 1 .. Len(s) : i \in 1 .. Len(s \o t) /\ (s \o t)[i] = s[i]
  BY <1>1, <1>2
<1>4. QED BY <1>3 DEF InOrder, Ascending

LEMMA ConcatAppend ==
  ASSUME NEW s \in Seq(Frame), NEW t \in Seq(Frame), NEW f \in Frame
  PROVE  s \o Append(t, f) = Append(s \o t, f)
<1>1. Append(t, f) = t \o <<f>> /\ <<f>> \in Seq(Frame)
  BY AppendIsConcat
<1>2. s \o t \in Seq(Frame)
  BY ConcatProperties
<1>3. Append(s \o t, f) = (s \o t) \o <<f>>
  BY <1>2, AppendIsConcat
<1>4. QED BY <1>1, <1>3, ConcatAssociative
-----------------------------------------------------------------------------
(* The contents of buffer and streams.  The byte count is exact for as long*)
(* as the channel is in the map; what a reader has had, and would get of   *)
(* the buffer, is in order; a reader has had nothing before it attaches;   *)
(* and while it fits and no reader has gone away by itself, all that was   *)
(* written is in the buffer of a channel nobody has read yet, or has gone  *)
(* to the first reader, which is open until the writer has closed.         *)

AttachedReaders == {r \in Readers : reader[r] \in {"open", "closing", "closed"}}

CountIsExact == registered => pendingBytes = Bytes(pending)

StreamsInOrder == \A r \in Readers : InOrder(received[r] \o pending, Len(written))

KnownAreAttached == \A r \in readWss : reader[r] \in {"open", "closing", "leaving"}

NothingBefore ==
  \A r \in Readers : reader[r] \in {"none", "denied"} => received[r] = <<>>

Undisturbed ==
  /\ \A r \in Readers : reader[r] \notin {"leaving", "left"}
  /\ Bytes(written) <= MaxPendingBytes

WaitsWhole == AttachedReaders = {} /\ registered => pending = written

ReadWhole ==
  AttachedReaders # {} =>
    \E r \in AttachedReaders : received[r] = written /\ (~writerClosed => reader[r] = "open")

StreamInv ==
  /\ ChannelTypeOK
  /\ ReleaseInv
  /\ KnownAreAttached
  /\ NothingBefore
  /\ CountIsExact
  /\ StreamsInOrder
  /\ Undisturbed => WaitsWhole /\ ReadWhole

LEMMA StreamInitHolds == ChannelInit => StreamInv
<1> SUFFICES ASSUME ChannelInit PROVE StreamInv
  OBVIOUS
<1>1. ChannelTypeOK
  BY EmptySeq DEF ChannelInit, ChannelTypeOK
<1>2. CountIsExact
  BY BytesEmpty DEF ChannelInit, CountIsExact
<1>3. StreamsInOrder
  <2>1. <<>> \o <<>> = <<>> /\ Len(<<>>) = 0
    BY ConcatEmptySeq, EmptySeq
  <2>2. InOrder(<<>>, 0)
    BY <2>1 DEF InOrder, Ascending
  <2>3. QED
    BY <2>1, <2>2 DEF ChannelInit, StreamsInOrder
<1>4. KnownAreAttached /\ NothingBefore /\ WaitsWhole /\ ReadWhole
  BY DEF ChannelInit, KnownAreAttached, NothingBefore, WaitsWhole, ReadWhole, AttachedReaders
<1>5. QED
  BY <1>1, <1>2, <1>3, <1>4, ChannelInitHolds DEF StreamInv

(* The types of the sequences, wherever they are used. *)
LEMMA StreamTypes ==
  ASSUME StreamInv
  PROVE  /\ pending \in Seq(Frame) /\ written \in Seq(Frame)
         /\ \A r \in Readers : received[r] \in Seq(Frame)
         /\ Len(written) \in Nat /\ Bytes(pending) \in Nat /\ Bytes(written) \in Nat
<1>1. /\ pending \in Seq(Frame) /\ written \in Seq(Frame)
      /\ \A r \in Readers : received[r] \in Seq(Frame)
  BY DEF StreamInv, ChannelTypeOK
<1>2. QED
  BY <1>1, LenProperties, BytesType

(* A frame goes to every open reader, or behind the others into the buffer,*)
(* or nowhere; it is newer than all before.                                *)
LEMMA WriterSendsInStream ==
  ASSUME StreamInv, NEW size \in Sizes, NEW data \in Data, WriterSends(size, data),
         ReleaseInv'
  PROVE  StreamInv'
<1> DEFINE n == Len(written)
           f == [id |-> n + 1, size |-> size, data |-> data]
<1>1. /\ writer = "open" /\ n < MaxFrames /\ written' = Append(written, f)
      /\ Broadcast(f) \/ BufferFrame(f) \/ Overflow(f)
      /\ UNCHANGED <<registered, writer, writerClosed, reader, readWss, abandonTimer>>
  BY DEF WriterSends
<1>2. /\ pending \in Seq(Frame) /\ written \in Seq(Frame) /\ n \in Nat
      /\ \A r \in Readers : received[r] \in Seq(Frame)
      /\ Bytes(pending) \in Nat /\ Bytes(written) \in Nat
  BY StreamTypes
<1>3. f \in Frame /\ f.id = n + 1 /\ f.size = size /\ size \in Nat
  BY <1>1, <1>2, ChannelAssumption DEF Frame
<1>4. registered /\ ~writerClosed
  BY <1>1 DEF StreamInv, ReleaseInv, WriterIsFollowed
<1>5. pending # <<>> => readWss = {}
  BY DEF StreamInv, ReleaseInv, BufferWaitsForReader
<1> HIDE DEF f, n
<1>6. /\ Append(written, f) \in Seq(Frame) /\ Append(pending, f) \in Seq(Frame)
      /\ \A r \in Readers : Append(received[r], f) \in Seq(Frame)
      /\ Len(Append(written, f)) = n + 1
      /\ Bytes(Append(written, f)) = Bytes(written) + size
      /\ Bytes(Append(pending, f)) = Bytes(pending) + size
  BY <1>2, <1>3, AppendProperties, BytesAppend DEF n
<1>7. Len(written') = n + 1 /\ Bytes(written') = Bytes(written) + size
  BY <1>1, <1>6
<1>8. ChannelTypeOK' /\ CountIsExact'
  <2>1. CASE Broadcast(f)
    <3>1. received' \in [Readers -> Seq(Frame)]
      BY <1>2, <1>6, <2>1 DEF Broadcast
    <3>2. QED
      BY <1>1, <1>6, <2>1, <3>1 DEF Broadcast, StreamInv, ChannelTypeOK, CountIsExact
  <2>2. CASE BufferFrame(f)
    <3>1. pendingBytes' = pendingBytes + size
      BY <1>3, <2>2 DEF BufferFrame
    <3>2. pendingBytes = Bytes(pending)
      BY <1>4 DEF StreamInv, CountIsExact
    <3>3. QED
      BY <1>1, <1>3, <1>6, <2>2, <3>1, <3>2
      DEF BufferFrame, StreamInv, ChannelTypeOK, CountIsExact
  <2>3. CASE Overflow(f)
    BY <1>1, <1>6, <2>3 DEF Overflow, StreamInv, ChannelTypeOK, CountIsExact
  <2>4. QED
    BY <1>1, <2>1, <2>2, <2>3
<1>9. StreamsInOrder'
  <2> SUFFICES ASSUME NEW r \in Readers
               PROVE  InOrder(received'[r] \o pending', n + 1)
    BY <1>7 DEF StreamsInOrder
  <2>1. InOrder(received[r] \o pending, n) /\ received[r] \in Seq(Frame)
    BY <1>2 DEF StreamInv, StreamsInOrder, n
  <2>2. received[r] \o pending \in Seq(Frame)
    BY <1>2, <2>1, ConcatProperties
  <2>3. InOrder(received[r] \o pending, n + 1)
    BY <1>2, <2>1, <2>2, InOrderLater
  <2>4. CASE received'[r] = received[r] /\ pending' = pending
    BY <2>3, <2>4
  <2>5. CASE pending = <<>> /\ pending' = <<>> /\ received'[r] = Append(received[r], f)
    <3>1. received[r] \o <<>> = received[r] /\ Append(received[r], f) \o <<>> = Append(received[r], f)
      BY <1>6, <2>1, ConcatEmptySeq
    <3>2. InOrder(Append(received[r], f), n + 1)
      BY <1>2, <1>3, <2>1, <2>5, <3>1, InOrderAppend
    <3>3. QED
      BY <2>5, <3>1, <3>2
  <2>6. CASE received'[r] = received[r] /\ pending' = Append(pending, f)
    <3>1. received[r] \o Append(pending, f) = Append(received[r] \o pending, f)
      BY <1>2, <1>3, <2>1, ConcatAppend
    <3>2. InOrder(Append(received[r] \o pending, f), n + 1)
      BY <1>2, <1>3, <2>1, <2>2, InOrderAppend
    <3>3. QED
      BY <2>6, <3>1, <3>2
  <2>7. QED
    BY <1>1, <1>5, <2>4, <2>5, <2>6 DEF Broadcast, BufferFrame, Overflow
<1>10. ASSUME Undisturbed' PROVE WaitsWhole' /\ ReadWhole'
  <2>1. Undisturbed /\ Bytes(written) + size <= MaxPendingBytes
    BY <1>1, <1>2, <1>3, <1>7, <1>10, ChannelAssumption DEF Undisturbed
  <2>2. WaitsWhole /\ ReadWhole
    BY <2>1 DEF StreamInv
  <2>3. AttachedReaders' = AttachedReaders
    BY <1>1 DEF AttachedReaders
  <2>4. WaitsWhole'
    <3> SUFFICES ASSUME AttachedReaders = {} PROVE pending' = written'
      BY <2>3 DEF WaitsWhole
    <3>1. pending = written /\ pendingBytes = Bytes(written)
      BY <1>4, <2>2 DEF WaitsWhole, StreamInv, CountIsExact
    <3>2. readWss = {}
      <4>1. readWss \subseteq Readers
        BY DEF StreamInv, ChannelTypeOK
      <4>2. \A r \in readWss : reader[r] \in {"open", "closing"}
        BY <2>1, <4>1 DEF StreamInv, KnownAreAttached, Undisturbed
      <4>3. QED
        BY <4>1, <4>2 DEF AttachedReaders
    <3>3. BufferFrame(f)
      BY <1>1, <1>2, <1>3, <2>1, <3>1, <3>2, ChannelAssumption DEF Broadcast, Overflow
    <3>4. QED
      BY <1>1, <3>1, <3>3 DEF BufferFrame
  <2>5. ReadWhole'
    <3> SUFFICES ASSUME AttachedReaders # {}
                 PROVE  \E r \in AttachedReaders : received'[r] = written' /\ reader'[r] = "open"
      BY <2>3 DEF ReadWhole
    <3>1. PICK r \in AttachedReaders : received[r] = written /\ reader[r] = "open"
      BY <1>4, <2>2 DEF ReadWhole
    <3>2. r \in readWss /\ r \in Readers
      BY <3>1 DEF StreamInv, ReleaseInv, AttachedAreKnown, AttachedReaders
    <3>3. Broadcast(f)
      BY <1>1, <3>2 DEF BufferFrame, Overflow
    <3>4. received'[r] = Append(written, f)
      BY <3>1, <3>2, <3>3 DEF Broadcast
    <3>5. QED
      BY <1>1, <3>1, <3>4
  <2>6. QED BY <2>4, <2>5
<1>11. KnownAreAttached'
  BY <1>1 DEF StreamInv, KnownAreAttached
<1>12. NothingBefore'
  BY <1>1 DEF StreamInv, NothingBefore, Broadcast, BufferFrame, Overflow
<1>13. QED
  BY <1>8, <1>9, <1>10, <1>11, <1>12 DEF StreamInv

(* Under Undisturbed readWss and the attached readers are empty together. *)
LEMMA NobodyKnown ==
  ASSUME StreamInv, Undisturbed, AttachedReaders = {}
  PROVE  readWss = {}
<1>1. readWss \subseteq Readers
  BY DEF StreamInv, ChannelTypeOK
<1>2. \A r \in readWss : reader[r] \in {"open", "closing"}
  BY <1>1 DEF StreamInv, KnownAreAttached, Undisturbed
<1>3. QED
  BY <1>1, <1>2 DEF AttachedReaders

(* disposeChannel empties the buffer: what the readers had stays in order, *)
(* and a buffer with frames has no reader, so that its channel goes.       *)
LEMMA DisposeInStream ==
  ASSUME StreamInv, NEW gone, NEW left \in SUBSET readWss, Dispose(left, gone),
         pending # <<>> => gone,
         UNCHANGED <<pendingBytes, written, received>>
  PROVE  StreamsInOrder' /\ CountIsExact' /\ pending' \in Seq(Frame)
<1>1. pending' = <<>> /\ registered' = (registered /\ ~ (left = {} /\ gone))
  BY DEF Dispose
<1>2. StreamsInOrder'
  <2> SUFFICES ASSUME NEW r \in Readers
               PROVE  InOrder(received[r] \o <<>>, Len(written))
    BY <1>1 DEF StreamsInOrder
  <2>1. InOrder(received[r] \o pending, Len(written))
    BY DEF StreamInv, StreamsInOrder
  <2>2. received[r] \in Seq(Frame) /\ pending \in Seq(Frame) /\ Len(written) \in Nat
    BY StreamTypes
  <2>3. InOrder(received[r], Len(written))
    BY <2>1, <2>2, InOrderPrefix
  <2>4. QED
    BY <2>2, <2>3, ConcatEmptySeq
<1>3. CountIsExact'
  <2>1. CASE pending = <<>>
    BY <1>1, <2>1 DEF StreamInv, CountIsExact
  <2>2. CASE pending # <<>>
    <3>1. left = {}
      BY <2>2 DEF StreamInv, ReleaseInv, BufferWaitsForReader
    <3>2. QED
      BY <1>1, <2>2, <3>1 DEF CountIsExact
  <2>3. QED
    BY <2>1, <2>2
<1>4. QED
  BY <1>1, <1>2, <1>3, EmptySeq

LEMMA WriterClosesInStream ==
  ASSUME StreamInv, WriterCloses, ReleaseInv'
  PROVE  StreamInv'
<1>1. writer' = "closed" /\ writerClosed' /\ UNCHANGED <<readWss, pendingBytes, written, received>>
  BY DEF WriterCloses
<1>2. CASE pending = <<>>
  <2>1. reader' = CloseSockets(readWss) /\ Dispose(readWss, TRUE)
    BY <1>2 DEF WriterCloses
  <2>2. \A r \in Readers :
          /\ reader'[r] = IF r \in readWss /\ reader[r] = "open" THEN "closing"
                                                                 ELSE reader[r]
    BY <2>1 DEF CloseSockets
  <2>3. ChannelTypeOK'
    <3>1. reader' \in [Readers -> {"none", "open", "closing", "leaving", "closed",
                                   "left", "denied"}]
      BY DEF ReleaseInv, Shape
    <3>2. pending' \in Seq(Frame)
      BY <1>1, <2>1, DisposeInStream
    <3>3. QED
      BY <1>1, <2>1, <3>1, <3>2 DEF Dispose, StreamInv, ChannelTypeOK
  <2>4. StreamsInOrder' /\ CountIsExact'
    BY <1>1, <2>1, DisposeInStream
  <2>5. KnownAreAttached' /\ NothingBefore' /\ AttachedReaders' = AttachedReaders
    <3>1. readWss \subseteq Readers
      BY DEF StreamInv, ChannelTypeOK
    <3>2. QED
      BY <1>1, <2>2, <3>1 DEF StreamInv, KnownAreAttached, NothingBefore, AttachedReaders
  <2>6. ASSUME Undisturbed' PROVE WaitsWhole' /\ ReadWhole'
    <3>1. Undisturbed
      BY <1>1, <2>2, <2>6 DEF Undisturbed
    <3>2. AttachedReaders = {} => ~registered'
      BY <2>1, <3>1, NobodyKnown DEF Dispose
    <3>3. QED
      BY <1>1, <2>5, <3>1, <3>2 DEF StreamInv, WaitsWhole, ReadWhole
  <2>7. QED
    BY <2>3, <2>4, <2>5, <2>6 DEF StreamInv
<1>3. CASE pending # <<>>
  <2>1. abandonTimer' = TRUE /\ UNCHANGED <<reader, registered, pending>>
    BY <1>3 DEF WriterCloses
  <2>2. QED
    BY <1>1, <2>1
    DEF StreamInv, ChannelTypeOK, KnownAreAttached, NothingBefore, CountIsExact,
        StreamsInOrder, Undisturbed, WaitsWhole, ReadWhole, AttachedReaders
<1>4. QED
  BY <1>2, <1>3

LEMMA AbandonInStream ==
  ASSUME StreamInv, AbandonTimerFires, ReleaseInv'
  PROVE  StreamInv'
<1>1. /\ writerClosed /\ Dispose(readWss, writerClosed)
      /\ UNCHANGED <<writer, writerClosed, reader, readWss, pendingBytes, written, received>>
  BY DEF AbandonTimerFires, StreamInv, ReleaseInv, BufferWaitsForReader
<1>2. StreamsInOrder' /\ CountIsExact' /\ pending' \in Seq(Frame)
  BY <1>1, DisposeInStream
<1>3. ChannelTypeOK' /\ KnownAreAttached' /\ NothingBefore'
  BY <1>1, <1>2 DEF Dispose, StreamInv, ChannelTypeOK, KnownAreAttached, NothingBefore
<1>4. ASSUME Undisturbed' PROVE WaitsWhole' /\ ReadWhole'
  <2>1. Undisturbed /\ AttachedReaders' = AttachedReaders
    BY <1>1, <1>4 DEF Undisturbed, AttachedReaders
  <2>2. AttachedReaders = {} => ~registered'
    BY <1>1, <2>1, NobodyKnown DEF Dispose
  <2>3. QED
    BY <1>1, <2>1, <2>2 DEF StreamInv, WaitsWhole, ReadWhole
<1>5. QED
  BY <1>2, <1>3, <1>4 DEF StreamInv

(* The first reader finds the whole stream in the buffer; a later one does *)
(* not change what the first has had.                                      *)
LEMMA ReaderAttachesInStream ==
  ASSUME StreamInv, NEW r \in Readers, ReaderAttaches(r), ReleaseInv'
  PROVE  StreamInv'
<1>1. /\ reader[r] = "none" /\ registered
      /\ readWss' = readWss \cup {r}
      /\ reader' = [reader EXCEPT ![r] = IF writerClosed THEN "closing" ELSE "open"]
      /\ received' = [received EXCEPT ![r] = received[r] \o pending]
      /\ pendingBytes' = (IF pending = <<>> THEN pendingBytes ELSE 0)
      /\ pending' = <<>>
      /\ UNCHANGED <<registered, writer, writerClosed, abandonTimer, written>>
  BY DEF ReaderAttaches
<1>2. /\ pending \in Seq(Frame) /\ written \in Seq(Frame) /\ Len(written) \in Nat
      /\ \A q \in Readers : received[q] \in Seq(Frame)
  BY StreamTypes
<1>3. received \in [Readers -> Seq(Frame)]
      /\ reader \in [Readers -> {"none", "open", "closing", "leaving", "closed",
                                 "left", "denied"}]
  BY DEF StreamInv, ChannelTypeOK
<1>4. received[r] = <<>>
  BY <1>1 DEF StreamInv, NothingBefore
<1>5. /\ received[r] \o pending = pending /\ <<>> \in Seq(Frame)
      /\ \A q \in Readers : received[q] \o <<>> = received[q]
      /\ pending \o <<>> = pending
  BY <1>2, <1>4, ConcatEmptySeq, EmptySeq
<1>6. /\ received'[r] = pending
      /\ \A q \in Readers \ {r} : received'[q] = received[q]
      /\ reader'[r] = IF writerClosed THEN "closing" ELSE "open"
      /\ \A q \in Readers \ {r} : reader'[q] = reader[q]
  BY <1>1, <1>3, <1>5
<1>7. ChannelTypeOK'
  <2>1. received' \in [Readers -> Seq(Frame)]
    BY <1>1, <1>2, <1>3, <1>5
  <2>2. QED
    BY <1>1, <1>5, <2>1 DEF StreamInv, ChannelTypeOK
<1>8. KnownAreAttached' /\ NothingBefore'
  <2>1. readWss \subseteq Readers
    BY DEF StreamInv, ChannelTypeOK
  <2>2. QED
    BY <1>1, <1>6, <2>1 DEF StreamInv, KnownAreAttached, NothingBefore
<1>9. CountIsExact'
  BY <1>1, BytesEmpty DEF StreamInv, CountIsExact
<1>10. StreamsInOrder'
  <2> SUFFICES ASSUME NEW q \in Readers
               PROVE  InOrder(received'[q], Len(written))
    <3>1. \A q \in Readers : received'[q] \in Seq(Frame)
      BY <1>7 DEF ChannelTypeOK
    <3>2. \A q \in Readers : received'[q] \o <<>> = received'[q]
      BY <3>1, ConcatEmptySeq
    <3>3. QED
      BY <1>1, <1>2, <1>5, <1>6 DEF StreamsInOrder
  <2>1. InOrder(received[q] \o pending, Len(written))
    BY DEF StreamInv, StreamsInOrder
  <2>2. CASE q = r
    BY <1>5, <1>6, <2>1, <2>2
  <2>3. CASE q # r
    BY <1>2, <1>6, <2>1, <2>3, InOrderPrefix
  <2>4. QED
    BY <2>2, <2>3
<1>11. ASSUME Undisturbed' PROVE WaitsWhole' /\ ReadWhole'
  <2>1. Undisturbed
    BY <1>1, <1>6, <1>11 DEF Undisturbed
  <2>2. WaitsWhole /\ ReadWhole
    BY <2>1 DEF StreamInv
  <2>3. AttachedReaders' = AttachedReaders \cup {r} /\ r \notin AttachedReaders
    BY <1>1, <1>6 DEF AttachedReaders
  <2>4. \E q \in AttachedReaders' :
           received'[q] = written /\ (~writerClosed => reader'[q] = "open")
    <3>1. CASE AttachedReaders = {}
      BY <1>1, <1>6, <2>2, <2>3, <3>1 DEF WaitsWhole
    <3>2. CASE AttachedReaders # {}
      <4>1. PICK q \in AttachedReaders :
                   received[q] = written /\ (~writerClosed => reader[q] = "open")
        BY <2>2, <3>2 DEF ReadWhole
      <4>2. q \in Readers \ {r}
        BY <2>3 DEF AttachedReaders
      <4>3. QED
        BY <1>6, <2>3, <4>1, <4>2
    <3>3. QED
      BY <3>1, <3>2
  <2>5. QED
    BY <1>1, <2>3, <2>4 DEF WaitsWhole, ReadWhole
<1>12. QED
  BY <1>7, <1>8, <1>9, <1>10, <1>11 DEF StreamInv

(* A reader that the engine closed keeps counting; one that went away by   *)
(* itself ends the promise.                                                *)
LEMMA ReaderGoneInStream ==
  ASSUME StreamInv, NEW r \in Readers, ReaderGone(r), ReleaseInv'
  PROVE  StreamInv'
<1>1. /\ reader[r] \in {"closing", "leaving"}
      /\ reader' = [reader EXCEPT ![r] = IF reader[r] = "closing" THEN "closed" ELSE "left"]
      /\ readWss' = readWss \ {r}
      /\ IF writerClosed /\ readWss' = {}
         THEN Dispose({}, TRUE)
         ELSE UNCHANGED <<registered, pending, abandonTimer>>
      /\ UNCHANGED <<writer, writerClosed, pendingBytes, written, received>>
  BY DEF ReaderGone
<1>2. reader \in [Readers -> {"none", "open", "closing", "leaving", "closed",
                              "left", "denied"}] /\ readWss \subseteq Readers
  BY DEF StreamInv, ChannelTypeOK
<1>3. /\ reader'[r] = IF reader[r] = "closing" THEN "closed" ELSE "left"
      /\ \A q \in Readers \ {r} : reader'[q] = reader[q]
  BY <1>1, <1>2
<1>4. StreamsInOrder' /\ CountIsExact' /\ pending' \in Seq(Frame)
  <2>1. CASE writerClosed /\ readWss' = {}
    BY <1>1, <2>1, DisposeInStream
  <2>2. CASE ~ (writerClosed /\ readWss' = {})
    BY <1>1, <2>2, StreamTypes DEF StreamInv, StreamsInOrder, CountIsExact
  <2>3. QED
    BY <2>1, <2>2
<1>5. ChannelTypeOK'
  <2>1. registered' \in BOOLEAN /\ abandonTimer' \in BOOLEAN
    BY <1>1 DEF Dispose, StreamInv, ChannelTypeOK
  <2>2. QED
    BY <1>1, <1>2, <1>4, <2>1 DEF StreamInv, ChannelTypeOK
<1>6. KnownAreAttached' /\ NothingBefore'
  BY <1>1, <1>2, <1>3 DEF StreamInv, KnownAreAttached, NothingBefore
<1>7. ASSUME Undisturbed' PROVE WaitsWhole' /\ ReadWhole'
  <2>1. reader[r] = "closing" /\ reader'[r] = "closed"
    BY <1>1, <1>3, <1>7 DEF Undisturbed
  <2>2. Undisturbed
    BY <1>1, <1>3, <1>7, <2>1 DEF Undisturbed
  <2>3. AttachedReaders' = AttachedReaders /\ r \in AttachedReaders
    BY <1>3, <2>1 DEF AttachedReaders
  <2>4. PICK q \in AttachedReaders :
               received[q] = written /\ (~writerClosed => reader[q] = "open")
    BY <2>2, <2>3 DEF StreamInv, ReadWhole
  <2>5. ~writerClosed => reader'[q] = "open"
    BY <1>3, <2>1, <2>4 DEF AttachedReaders
  <2>6. QED
    BY <1>1, <2>3, <2>4, <2>5 DEF WaitsWhole, ReadWhole
<1>8. QED
  BY <1>4, <1>5, <1>6, <1>7 DEF StreamInv

(* A reader that is refused, or that starts to leave. *)
LEMMA ReaderTurnsInStream ==
  ASSUME StreamInv, NEW r \in Readers, ReaderDenied(r) \/ ReaderLeaves(r), ReleaseInv'
  PROVE  StreamInv'
<1>1. /\ UNCHANGED <<registered, writer, writerClosed, readWss, pending,
                     pendingBytes, abandonTimer, written, received>>
      /\ \/ reader[r] = "none" /\ reader' = [reader EXCEPT ![r] = "denied"]
         \/ reader[r] = "open" /\ reader' = [reader EXCEPT ![r] = "leaving"]
  BY DEF ReaderDenied, ReaderLeaves
<1>2. reader \in [Readers -> {"none", "open", "closing", "leaving", "closed",
                              "left", "denied"}] /\ readWss \subseteq Readers
  BY DEF StreamInv, ChannelTypeOK
<1>3. /\ \/ reader[r] = "none" /\ reader'[r] = "denied"
         \/ reader[r] = "open" /\ reader'[r] = "leaving"
      /\ \A q \in Readers \ {r} : reader'[q] = reader[q]
  BY <1>1, <1>2
<1>4. ChannelTypeOK' /\ StreamsInOrder' /\ CountIsExact'
  BY <1>1, <1>2 DEF StreamInv, ChannelTypeOK, StreamsInOrder, CountIsExact
<1>5. KnownAreAttached' /\ NothingBefore'
  BY <1>1, <1>2, <1>3 DEF StreamInv, KnownAreAttached, NothingBefore
<1>6. ASSUME Undisturbed' PROVE WaitsWhole' /\ ReadWhole'
  <2>1. reader[r] = "none" /\ reader'[r] = "denied" /\ Undisturbed
    BY <1>1, <1>3, <1>6 DEF Undisturbed
  <2>2. AttachedReaders' = AttachedReaders /\ r \notin AttachedReaders
    BY <1>3, <2>1 DEF AttachedReaders
  <2>3. \A q \in AttachedReaders : reader'[q] = reader[q]
    BY <1>3, <2>2 DEF AttachedReaders
  <2>4. QED
    BY <1>1, <2>1, <2>2, <2>3 DEF StreamInv, WaitsWhole, ReadWhole
<1>7. QED
  BY <1>4, <1>5, <1>6 DEF StreamInv

LEMMA StreamNextKeeps == StreamInv /\ [ChannelNext]_channelVars => StreamInv'
<1> SUFFICES ASSUME StreamInv, [ChannelNext]_channelVars
             PROVE  StreamInv'
  OBVIOUS
<1>1. ReleaseInv'
  BY ChannelNextKeeps DEF StreamInv
<1>2. CASE WriterConnects \/ UNCHANGED channelVars
  BY <1>1, <1>2
  DEF WriterConnects, channelVars, StreamInv, ChannelTypeOK, KnownAreAttached,
      NothingBefore, CountIsExact, StreamsInOrder, Undisturbed, WaitsWhole,
      ReadWhole, AttachedReaders
<1>3. ASSUME NEW size \in Sizes, NEW data \in Data, WriterSends(size, data)
      PROVE  StreamInv'
  BY <1>1, <1>3, WriterSendsInStream
<1>4. CASE WriterCloses
  BY <1>1, <1>4, WriterClosesInStream
<1>5. CASE AbandonTimerFires
  BY <1>1, <1>5, AbandonInStream
<1>6. ASSUME NEW r \in Readers, ReaderDenied(r) \/ ReaderLeaves(r)
      PROVE  StreamInv'
  BY <1>1, <1>6, ReaderTurnsInStream
<1>7. ASSUME NEW r \in Readers, ReaderAttaches(r)
      PROVE  StreamInv'
  BY <1>1, <1>7, ReaderAttachesInStream
<1>8. ASSUME NEW r \in Readers, ReaderGone(r)
      PROVE  StreamInv'
  BY <1>1, <1>8, ReaderGoneInStream
<1>9. QED
  BY <1>2, <1>3, <1>4, <1>5, <1>6, <1>7, <1>8 DEF ChannelNext

LEMMA StreamAlways == ChannelSpec => []StreamInv
BY StreamInitHolds, StreamNextKeeps, PTL DEF ChannelSpec

(* The buffer's bookkeeping: it is bounded, counts its frames exactly while*)
(* the channel can be used, holds frames only while no reader is attached, *)
(* and no reader has a frame twice or out of order, nor will from it.      *)
THEOREM ChannelIsSound == ChannelSpec => []ChannelInv
<1>1. StreamInv => ChannelInv
  BY DEF StreamInv, ReleaseInv, BytesAreBounded, CountIsExact, StreamsInOrder, InOrder,
         ChannelInv, BufferIsBounded, OncePerReader
<1>2. QED
  BY <1>1, StreamAlways, PTL

(* A late reader loses nothing: while the stream fits the buffer and no    *)
(* reader has gone away by itself, some attached reader has had all of it. *)
THEOREM LateReadersLoseNothing == ChannelSpec => []WholeStreamIsRead
<1>1. StreamInv => WholeStreamIsRead
  BY DEF StreamInv, Undisturbed, ReadWhole, AttachedReaders, WholeStreamIsRead
<1>2. QED
  BY <1>1, StreamAlways, PTL
=============================================================================
