----------------------------- MODULE HttpBridge -----------------------------
(***************************************************************************)
(* One HTTP request in flight (httpHandler in engine.ts, from the moment   *)
(* its body has been read): the engine creates a channel, opens a local    *)
(* socket to it as its reader, invokes the worker once that socket is open,*)
(* and turns the frames the worker writes into the HTTP response.          *)
(*                                                                         *)
(* The socket has two ends in one process, each with its own events: the   *)
(* server end is the channel's reader HttpReader, the client end is conn.  *)
(* The invocation is seen only as its promise; Engine says how it settles. *)
(***************************************************************************)
EXTENDS Channel

CONSTANT HttpReader

ASSUME HttpReaderAssumption == Readers = {HttpReader}

(* Text frames that set the status or the headers; all others are body.    *)
ASSUME DataAssumption == Data = {"set_status", "set_headers", "body"}

VARIABLES
  conn,              \* the client end: readerWs
  consumed,          \* how many of the frames sent to it have arrived
  invocation,        \* the promise of sendInvocation
  statusCode, responseHeaders,  \* from the control frames so far
  headersSet,        \* the handler's flag of that name
  head,              \* what writeHead sent
  body,              \* the frames given to res.write
  ended,             \* res.end was called
  crashed            \* an exception nobody catches ended the engine

responseVars == <<statusCode, responseHeaders, headersSet, head, body, ended, crashed>>

bridgeVars == <<channelVars, conn, consumed, invocation, responseVars>>

ResponseHead == [status : {"200", "set", "500"}, headers : {"default", "set"}]
NoHead == [status |-> "none", headers |-> "default"]
ErrorHead == [status |-> "500", headers |-> "default"]

BridgeTypeOK ==
  /\ ChannelTypeOK
  /\ conn \in {"connecting", "open", "closing", "failed", "closed", "broken"}
  /\ consumed \in 0 .. MaxFrames
  /\ invocation \in {"none", "sent", "undelivered", "resolved", "rejected"}
  /\ statusCode \in {"200", "set"}
  /\ responseHeaders \in {"default", "set"}
  /\ headersSet \in BOOLEAN
  /\ head \in ResponseHead \cup {NoHead}
  /\ body \in Seq(Frame)
  /\ ended \in BOOLEAN
  /\ crashed \in {"no", "head", "write"}

BridgeInit ==
  /\ ChannelInit
  /\ conn = "connecting"
  /\ consumed = 0
  /\ invocation = "none"
  /\ statusCode = "200" /\ responseHeaders = "default"
  /\ headersSet = FALSE
  /\ head = NoHead /\ body = <<>> /\ ended = FALSE
  /\ crashed = "no"

-----------------------------------------------------------------------------
(* The channel's own steps.  The worker learns the writer key from the     *)
(* invocation, and may write long after the engine has given up on it.     *)
WorkerWrites ==
  /\ invocation \notin {"none", "undelivered"}
  /\ \/ WriterConnects
     \/ \E size \in Sizes, data \in Data : WriterSends(size, data)
     \/ WriterCloses
  /\ UNCHANGED <<conn, consumed, invocation, responseVars>>

(* Only an open socket attaches, and it leaves when its other end does.    *)
ChannelSide ==
  /\ \/ conn = "connecting" /\ ReaderAttaches(HttpReader)
     \/ conn \in {"closing", "failed", "broken"} /\ ReaderLeaves(HttpReader)
     \/ ReaderGone(HttpReader)
     \/ AbandonTimerFires
  /\ UNCHANGED <<conn, consumed, invocation, responseVars>>

-----------------------------------------------------------------------------
(* The client end.                                                         *)

(* 'open': the worker is invoked, or its socket is no longer open.         *)
HttpReaderOpen ==
  /\ conn = "connecting"
  /\ reader[HttpReader] # "none"
  /\ conn' = "open"
  /\ invocation' \in {"sent", "undelivered"}
  /\ UNCHANGED <<channelVars, consumed, responseVars>>

MutInvocationResolves ==
  /\ invocation = "sent"
  /\ invocation' = "resolved"
  /\ ended' = TRUE
  /\ UNCHANGED <<channelVars, conn, consumed, statusCode, responseHeaders,
                 headersSet, head, body, crashed>>

(* The value of the promise is not used: the stream alone is the answer.   *)
InvocationResolves ==
  /\ invocation = "sent"
  /\ invocation' = "resolved"
  /\ UNCHANGED <<channelVars, conn, consumed, responseVars>>

(* writeHead throws if the head has been sent.                             *)
HeadThrows == ~headersSet /\ head # NoHead

(* An error, the timeout or no connection: 500 with an error body, unless  *)
(* the head is out, and in any case the response ends and the socket closes*)
(* while the worker may still be streaming.                                *)
InvocationRejects ==
  /\ invocation \in {"sent", "undelivered"}
  /\ invocation' = "rejected"
  /\ \/ /\ HeadThrows
        /\ crashed' = "head"
        /\ UNCHANGED <<head, ended, conn>>
     \/ /\ ~HeadThrows
        /\ head' = IF headersSet THEN head ELSE ErrorHead
        /\ ended' = TRUE
        /\ conn' = IF conn = "open" THEN "closing" ELSE conn
        /\ UNCHANGED crashed
  /\ UNCHANGED <<channelVars, consumed, statusCode, responseHeaders, headersSet,
                 body>>

MutSetStatus ==
  /\ statusCode' = IF responseHeaders = "set" THEN statusCode ELSE "set"
  /\ UNCHANGED <<responseHeaders, headersSet, head, body, ended, crashed>>

SetStatus ==
  /\ statusCode' = "set"
  /\ UNCHANGED <<responseHeaders, headersSet, head, body, ended, crashed>>

SetHeaders ==
  /\ responseHeaders' = "set"
  /\ UNCHANGED <<statusCode, headersSet, head, body, ended, crashed>>

MutSendHead ==
  /\ ~HeadThrows
  /\ headersSet' = TRUE
  /\ head' = [status |-> statusCode, headers |-> responseHeaders]

(* The head as the control frames have left it, once.                      *)
SendHead ==
  /\ ~HeadThrows
  /\ headersSet' = TRUE
  /\ head' = IF headersSet THEN head
             ELSE [status |-> statusCode, headers |-> responseHeaders]

HeadCrash ==
  /\ HeadThrows
  /\ crashed' = "head"
  /\ UNCHANGED <<statusCode, responseHeaders, headersSet, head, body, ended>>

(* A write after end is an `error' event of the response, which nobody     *)
(* handles, unless the response was flushed before: then it is lost.       *)
WriteBody(f) ==
  \/ HeadCrash
  \/ /\ SendHead
     /\ IF ended
        THEN body' = body /\ crashed' \in {"no", "write"}
        ELSE body' = Append(body, f) /\ UNCHANGED crashed
     /\ UNCHANGED <<statusCode, responseHeaders, ended>>

(* 'message'.                                                              *)
FrameArrives ==
  /\ conn \in {"open", "closing"}
  /\ consumed < Len(received[HttpReader])
  /\ consumed' = consumed + 1
  /\ LET f == received[HttpReader][consumed'] IN
       \/ f.data = "set_status" /\ SetStatus
       \/ f.data = "set_headers" /\ SetHeaders
       \/ f.data = "body" /\ WriteBody(f)
  /\ UNCHANGED <<channelVars, conn, invocation>>

(* 'close', after the last frame the other end sent; or after an error,    *)
(* which makes it "broken".                                                *)
MutConnClose ==
  /\ \/ /\ conn \in {"open", "closing"}
        /\ reader[HttpReader] \in {"closing", "leaving", "closed", "left"}
        /\ consumed = Len(received[HttpReader])
     \/ conn = "failed"
  /\ conn' = IF conn = "failed" THEN "broken" ELSE "closed"
  /\ IF headersSet
     THEN ended' = TRUE /\ UNCHANGED <<headersSet, head>>
     ELSE UNCHANGED <<headersSet, head, ended>>
  /\ UNCHANGED <<channelVars, consumed, invocation, statusCode, responseHeaders,
                 body, crashed>>

ConnClose ==
  /\ \/ /\ conn \in {"open", "closing"}
        /\ reader[HttpReader] \in {"closing", "leaving", "closed", "left"}
        /\ consumed = Len(received[HttpReader])
     \/ conn = "failed"
  /\ conn' = IF conn = "failed" THEN "broken" ELSE "closed"
  /\ \/ HeadCrash
     \/ /\ SendHead
        /\ ended' = TRUE
        /\ UNCHANGED <<statusCode, responseHeaders, body, crashed>>
  /\ UNCHANGED <<channelVars, consumed, invocation>>

(* 'error': headersSet stays FALSE when the 500 is sent; 'close' follows.  *)
ConnError ==
  /\ conn \in {"connecting", "open"}
  /\ conn' = "failed"
  /\ head' = IF headersSet THEN head ELSE ErrorHead
  /\ ended' = TRUE
  /\ UNCHANGED <<channelVars, consumed, invocation, statusCode, responseHeaders,
                 headersSet, body, crashed>>

BridgeNext ==
  /\ crashed = "no"
  /\ \/ WorkerWrites
     \/ ChannelSide
     \/ HttpReaderOpen
     \/ InvocationResolves
     \/ InvocationRejects
     \/ FrameArrives
     \/ ConnClose
     \/ ConnError

BridgeSpec == BridgeInit /\ [][BridgeNext]_bridgeVars

(***************************************************************************)
(* The engine's own event loop goes on: what has been sent arrives, a close*)
(* completes, the timer fires.  The worker owes nothing.                   *)
(***************************************************************************)
BridgeFairness ==
  /\ WF_bridgeVars(crashed = "no" /\ ChannelSide)
  /\ WF_bridgeVars(crashed = "no" /\ (HttpReaderOpen \/ FrameArrives \/ ConnClose))

FairBridgeSpec == BridgeSpec /\ BridgeFairness

-----------------------------------------------------------------------------
(* Properties.                                                             *)

IsBody(f) == f.data = "body"

(* What is sent for the first n frames: their body frames, in the order in *)
(* which they were written (frames are numbered in it).                    *)
BodyFrames(frames, n) == {f \in {frames[i] : i \in 1 .. n} : IsBody(f)}

IsBodyOf(sent, frames, n) ==
  /\ Ascending(sent)
  /\ Range(sent) = BodyFrames(frames, n)

(* The frames that come before the first body frame.                       *)
Preamble(frames) ==
  {i \in 1 .. Len(frames) : \A j \in 1 .. i : ~IsBody(frames[j])}

HeadOf(frames) ==
  LET says(data) == \E i \in Preamble(frames) : frames[i].data = data IN
  [status  |-> IF says("set_status") THEN "set" ELSE "200",
   headers |-> IF says("set_headers") THEN "set" ELSE "default"]

(***************************************************************************)
(* The response is a faithful beginning of the stream in every state: its  *)
(* body is that of the frames written up to some point, and once it has a  *)
(* body its head carries exactly the control frames that preceded the first*)
(* body frame.  Nothing can be missing, because the worker learns of the   *)
(* channel only after the engine has attached to it.                       *)
(***************************************************************************)
ResponseFollowsStream ==
  /\ \E n \in 0 .. Len(written) : IsBodyOf(body, written, n)
  /\ body # <<>> => head = HeadOf(written)

BridgeInv ==
  /\ BridgeTypeOK
  /\ ResponseFollowsStream

(***************************************************************************)
(* A worker that answers and closes its stream has all of it delivered: if *)
(* neither the invocation nor the engine's socket failed, then by the time *)
(* the socket closes head and body are exactly what was written.           *)
(***************************************************************************)
SuccessIsComplete ==
  /\ conn = "closed"
  /\ invocation # "rejected"
  /\ crashed = "no"
  => IsBodyOf(body, written, Len(written)) /\ head = HeadOf(written)

(***************************************************************************)
(* While the worker is still streaming over a healthy socket, only a failed*)
(* invocation ends the response: not its success, not the closing of the   *)
(* engine's own socket.  (A failure does: the timeout of the invocation    *)
(* cuts a stream that outlasts it, and appends an error to it.)            *)
(***************************************************************************)
OnlyFailureCutsStream ==
  ended /\ writer = "open" /\ conn \in {"open", "closing"}
    => invocation = "rejected"

(***************************************************************************)
(* README.md of the engine: "When the writer closes, the engine sends the  *)
(* HTTP response and closes".  It does so always, if it has not crashed.   *)
(***************************************************************************)
WriterCloseEndsResponse == writerClosed ~> (ended \/ crashed # "no")

(***************************************************************************)
(* The handler's comment: "Flush headers on the first chunk".  The flag    *)
(* headersSet is to guard the head, so that it is never sent twice, which  *)
(* would throw in an event handler and end the engine.                     *)
(***************************************************************************)
HeadIsSentOnce == crashed # "head"
=============================================================================
