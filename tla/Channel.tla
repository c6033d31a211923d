------------------------------ MODULE Channel -------------------------------
(***************************************************************************)
(* A streaming channel of the III engine (createChannel, attachChannel-    *)
(* Writer, attachChannelReader and disposeChannel in engine.ts).  A worker *)
(* writes frames over one WebSocket; readers attach over others, usually   *)
(* late, so frames are buffered, up to a limit, while no reader is there.  *)
(*                                                                         *)
(* Frames are numbered in the order they are written, so that two equal    *)
(* ones can be told apart; a frame's size is in units of which the buffer  *)
(* holds MaxPendingBytes (8 MiB in the code).                              *)
(***************************************************************************)
EXTENDS Integers, Sequences, FiniteSets, SequencesExt

CONSTANTS
  Readers,           \* connections that present the reader key, once each
  MaxFrames,         \* bound: how many frames the writer writes
  Sizes,             \* frame sizes
  Data,              \* what a frame may carry
  MaxPendingBytes    \* MAX_PENDING_CHANNEL_BYTES

ASSUME ChannelAssumption ==
  /\ MaxFrames \in Nat /\ MaxPendingBytes \in Nat
  /\ Sizes \subseteq Nat \ {0}

Frame == [id : 1 .. MaxFrames, size : Sizes, data : Data]

VARIABLES
  registered,      \* the channel is in the map `channels'
  writer,          \* the writer's socket
  writerClosed,    \* ChannelState.writerClosed
  reader,          \* each reader's socket, as the engine sees it
  readWss,         \* ChannelState.readWss
  pending,         \* ChannelState.pending
  pendingBytes,    \* ChannelState.pendingBytes
  abandonTimer,    \* the timer is armed
  written,         \* history: every frame the writer has written
  received         \* history: what was sent to each reader

channelVars == <<registered, writer, writerClosed, reader, readWss, pending,
                 pendingBytes, abandonTimer, written, received>>

(* "denied": the upgrade was refused with 403.  "closing" and "leaving":   *)
(* readyState is no longer OPEN, because the engine or because the peer    *)
(* closed, and the `close' handler has not run yet; it makes them "closed" *)
(* and "left".                                                             *)
ChannelTypeOK ==
  /\ registered \in BOOLEAN
  /\ writer \in {"none", "open", "closed", "denied"}
  /\ writerClosed \in BOOLEAN
  /\ reader \in [Readers -> {"none", "open", "closing", "leaving", "closed",
                           "left", "denied"}]
  /\ readWss \in SUBSET Readers
  /\ pending \in Seq(Frame)
  /\ pendingBytes \in Nat
  /\ abandonTimer \in BOOLEAN
  /\ written \in Seq(Frame)
  /\ received \in [Readers -> Seq(Frame)]

(* createChannel; the model starts with the channel just created.          *)
ChannelInit ==
  /\ registered = TRUE
  /\ writer = "none"
  /\ writerClosed = FALSE
  /\ reader = [r \in Readers |-> "none"]
  /\ readWss = {}
  /\ pending = <<>>
  /\ pendingBytes = 0
  /\ abandonTimer = FALSE
  /\ written = <<>>
  /\ received = [r \in Readers |-> <<>>]

-----------------------------------------------------------------------------
(* disposeChannel, given the readers and writerClosed of the caller: the   *)
(* timer is cleared and the buffer emptied in any case; the channel leaves *)
(* the map only if no reader is attached and the writer has closed.        *)
Dispose(readersNow, closedNow) ==
  /\ abandonTimer' = FALSE
  /\ pending' = <<>>
  /\ registered' = (registered /\ ~ (readersNow = {} /\ closedNow))

CloseSockets(S) == [r \in Readers |->
  IF r \in S /\ reader[r] = "open" THEN "closing" ELSE reader[r]]

-----------------------------------------------------------------------------
(* The writer.                                                             *)

WriterConnects ==
  /\ writer = "none"
  /\ writer' = IF registered THEN "open" ELSE "denied"
  /\ UNCHANGED <<registered, writerClosed, reader, readWss, pending,
                 pendingBytes, abandonTimer, written, received>>

(* The frame goes to every reader whose socket is open, or to the buffer   *)
(* if there is no reader at all, or nowhere if it does not fit.            *)
MutBroadcast(f) ==
  /\ received' = [r \in Readers |->
       IF r \in readWss /\ reader[r] = "open" THEN Append(received[r], f)
                                              ELSE received[r]]
  /\ UNCHANGED <<pending, pendingBytes>>

Broadcast(f) ==
  /\ readWss # {}
  /\ received' = [r \in Readers |->
       IF r \in readWss /\ reader[r] = "open" THEN Append(received[r], f)
                                              ELSE received[r]]
  /\ UNCHANGED <<pending, pendingBytes>>

MutBufferFrame(f) ==
  /\ readWss = {}
  /\ pendingBytes <= MaxPendingBytes
  /\ pending' = Append(pending, f)
  /\ pendingBytes' = pendingBytes + f.size
  /\ UNCHANGED received

BufferFrame(f) ==
  /\ readWss = {}
  /\ pendingBytes + f.size <= MaxPendingBytes
  /\ pending' = Append(pending, f)
  /\ pendingBytes' = pendingBytes + f.size
  /\ UNCHANGED received

Overflow(f) ==
  /\ readWss = {}
  /\ pendingBytes + f.size > MaxPendingBytes
  /\ UNCHANGED <<pending, pendingBytes, received>>

WriterSends(size, data) ==
  /\ writer = "open"
  /\ Len(written) < MaxFrames          \* bound
  /\ LET f == [id |-> Len(written) + 1, size |-> size, data |-> data] IN
     /\ written' = Append(written, f)
     /\ Broadcast(f) \/ BufferFrame(f) \/ Overflow(f)
  /\ UNCHANGED <<registered, writer, writerClosed, reader, readWss, abandonTimer>>

(* The writer's `close' handler.                                           *)
MutWriterCloses ==
  /\ writer = "open"
  /\ writer' = "closed"
  /\ writerClosed' = TRUE
  /\ IF pending = <<>>
     THEN Dispose(readWss, TRUE)
     ELSE abandonTimer' = TRUE /\ UNCHANGED <<registered, pending>>
  /\ UNCHANGED <<readWss, pendingBytes, written, received, reader>>

WriterCloses ==
  /\ writer = "open"
  /\ writer' = "closed"
  /\ writerClosed' = TRUE
  /\ IF pending = <<>>
     THEN reader' = CloseSockets(readWss) /\ Dispose(readWss, TRUE)
     ELSE abandonTimer' = TRUE /\ UNCHANGED <<reader, registered, pending>>
  /\ UNCHANGED <<readWss, pendingBytes, written, received>>

AbandonTimerFires ==
  /\ abandonTimer
  /\ Dispose(readWss, writerClosed)
  /\ UNCHANGED <<writer, writerClosed, reader, readWss, pendingBytes, written,
                 received>>

-----------------------------------------------------------------------------
(* Readers.                                                                *)

ReaderDenied(r) ==
  /\ reader[r] = "none" /\ ~registered
  /\ reader' = [reader EXCEPT ![r] = "denied"]
  /\ UNCHANGED <<registered, writer, writerClosed, readWss, pending,
                 pendingBytes, abandonTimer, written, received>>

(* The first reader takes the whole buffer; a reader that finds the writer *)
(* gone is closed at once.                                                 *)
ReaderAttaches(r) ==
  /\ reader[r] = "none" /\ registered
  /\ readWss' = readWss \cup {r}
  /\ received' = [received EXCEPT ![r] = @ \o pending]
  /\ reader' = [reader EXCEPT ![r] = IF writerClosed THEN "closing" ELSE "open"]
  /\ pendingBytes' = IF pending = <<>> THEN pendingBytes ELSE 0
  /\ pending' = <<>>
  /\ UNCHANGED <<registered, writer, writerClosed, abandonTimer, written>>

ReaderLeaves(r) ==
  /\ reader[r] = "open"
  /\ reader' = [reader EXCEPT ![r] = "leaving"]
  /\ UNCHANGED <<registered, writer, writerClosed, readWss, pending,
                 pendingBytes, abandonTimer, written, received>>

(* The reader's `close' handler.                                           *)
MutReaderGone(r) ==
  /\ reader[r] \in {"closing", "leaving"}
  /\ reader' = [reader EXCEPT ![r] = IF @ = "closing" THEN "closed" ELSE "left"]
  /\ readWss' = readWss \ {r}
  /\ UNCHANGED <<registered, pending, abandonTimer, writer, writerClosed,
                 pendingBytes, written, received>>

ReaderGone(r) ==
  /\ reader[r] \in {"closing", "leaving"}
  /\ reader' = [reader EXCEPT ![r] = IF @ = "closing" THEN "closed" ELSE "left"]
  /\ readWss' = readWss \ {r}
  /\ IF writerClosed /\ readWss' = {}
     THEN Dispose({}, TRUE)
     ELSE UNCHANGED <<registered, pending, abandonTimer>>
  /\ UNCHANGED <<writer, writerClosed, pendingBytes, written, received>>

ChannelNext ==
  \/ WriterConnects
  \/ \E size \in Sizes, data \in Data : WriterSends(size, data)
  \/ WriterCloses
  \/ AbandonTimerFires
  \/ \E r \in Readers : \/ ReaderDenied(r)
                        \/ ReaderAttaches(r)
                        \/ ReaderLeaves(r)
                        \/ ReaderGone(r)

(* A started close ends, and the timer fires.                              *)
ChannelFairness ==
  /\ WF_channelVars(AbandonTimerFires)
  /\ \A r \in Readers : WF_channelVars(ReaderGone(r))

ChannelSpec == ChannelInit /\ [][ChannelNext]_channelVars
FairChannelSpec == ChannelSpec /\ ChannelFairness

-----------------------------------------------------------------------------
(* Properties.                                                             *)

(* A frame of size n at place i takes the units <<i, 1>> to <<i, n>>.      *)
Units(frames) == UNION {{i} \X (1 .. frames[i].size) : i \in 1 .. Len(frames)}

Bytes(frames) == Cardinality(Units(frames))

(***************************************************************************)
(* The buffer is bounded ("otherwise a never-read channel would grow the   *)
(* heap without limit"), its byte count is the sum of its frames as long   *)
(* as the channel can be used, and it only holds frames while no reader is *)
(* attached.  A frame in the buffer is newer than all any reader has had,  *)
(* and no reader has a frame twice or out of order.                        *)
(***************************************************************************)
BufferIsBounded ==
  /\ pendingBytes <= MaxPendingBytes
  /\ registered => pendingBytes = Bytes(pending)

BufferWaitsForReader ==
  /\ pending # <<>> => readWss = {} /\ registered
  /\ abandonTimer => writerClosed /\ registered

Ascending(frames) ==
  \A i, j \in 1 .. Len(frames) : i < j => frames[i].id < frames[j].id

OncePerReader ==
  \A r \in Readers : Ascending(received[r] \o pending)

ChannelInv ==
  /\ ChannelTypeOK
  /\ BufferIsBounded
  /\ BufferWaitsForReader
  /\ OncePerReader

(***************************************************************************)
(* A late reader loses nothing: as long as no reader has gone away by      *)
(* itself and all that was written fits the buffer, some attached reader   *)
(* has had the whole stream, whether it came before the writer, in the     *)
(* middle of the stream or after the writer closed.                        *)
(***************************************************************************)
WholeStreamIsRead ==
  LET attached == {r \in Readers : reader[r] \in {"open", "closing", "closed"}}
  IN  /\ attached # {}
      /\ \A r \in Readers : reader[r] \notin {"leaving", "left"}
      /\ Bytes(written) <= MaxPendingBytes
      => \E r \in attached : received[r] = written

(***************************************************************************)
(* No reader is left waiting on a stream that has ended: once the writer's *)
(* close has been handled, every reader's socket is closing or closed,     *)
(* also that of a reader which attaches afterwards.                        *)
(***************************************************************************)
NoReaderWaitsForNothing ==
  writerClosed => \A r \in Readers : reader[r] # "open"

(***************************************************************************)
(* "so abandoned channels can't leak": a channel whose writer has closed   *)
(* leaves the engine's map, whoever read it or nobody did.                 *)
(***************************************************************************)
ClosedChannelIsDropped == writerClosed ~> ~registered
=============================================================================
