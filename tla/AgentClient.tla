---------------------------- MODULE AgentClient -----------------------------
(***************************************************************************)
(* The Python SDK's client (workers/agents/sdk/python/aigency_sdk): one    *)
(* call of chat.completions.create, plain or streaming, or of              *)
(* get_quota_status, against a gateway that may answer anything. The       *)
(* request's own fields are left out: no branch reads them but stream.     *)
(***************************************************************************)
EXTENDS Naturals, Sequences

CONSTANTS
  max_retries,      \* the client's option of that name
  MaxLines,         \* bound on the lines of a streamed body
  Values            \* what a field of an answer may hold

ASSUME ClientAssumption == max_retries \in Nat /\ MaxLines \in Nat

VARIABLES
  call,             \* the method called: "none" until one is
  clientAt,         \* where it stands
  retries,          \* _request's variable of that name
  waited,           \* time slept so far, in tenths of a second
  answers,          \* what each attempt met, in order
  reply,            \* the lines of a streamed body
  line,             \* the lines _parse_sse_stream has consumed
  yielded,          \* the chunks it has yielded
  returned          \* what a plain call returned

clientVars == <<call, clientAt, retries, waited, answers, reply, line, yielded, returned>>

Calls == {"plain", "stream", "quota"}

(* What urlopen raises or returns: an HTTPError of a 5xx or another status, *)
(* a URLError, or a response.                                               *)
AttemptOutcome == {"5xx", "4xx", "unreachable", "200"}

(* A line of the body: a data line with JSON or with something else, the   *)
(* end marker, or any other line (a comment, an event name).               *)
Line == {"chunk", "malformed", "done", "other"}
Lines == UNION {[1 .. n -> Line] : n \in 0 .. MaxLines}

(* types.py: the fields a response may leave out and their defaults. A     *)
(* choice, its message and the usage are filled the same way one level     *)
(* down; one field stands for each level.                                  *)
ResponseField == {"id", "choices.message", "usage"}
Default == "default"
Absent == "None"
Dicts == UNION {[fs -> Values] : fs \in SUBSET ResponseField}

from_dict(data) ==
  [f \in ResponseField |->
     IF f \in DOMAIN data THEN data[f] ELSE IF f = "usage" THEN Absent ELSE Default]

Outcome == {"returned", "raised"}

ClientTypeOK ==
  /\ call \in Calls \cup {"none"}
  /\ clientAt \in {"idle", "request", "sleep", "read", "yield"} \cup Outcome
  /\ retries \in 0 .. max_retries
  /\ waited \in Nat
  /\ answers \in Seq(AttemptOutcome)
  /\ reply \in Lines
  /\ line \in 0 .. MaxLines
  /\ yielded \in Seq(Nat)
  /\ \E fs \in SUBSET ResponseField : returned \in [fs -> Values \cup {Default, Absent}]

ClientInit ==
  /\ call = "none" /\ clientAt = "idle"
  /\ retries = 0 /\ waited = 0 /\ answers = <<>>
  /\ reply = <<>> /\ line = 0 /\ yielded = <<>> /\ returned = <<>>

(* _create_chat_completion and get_quota_status call urlopen. *)
CallsClient(kind) ==
  /\ clientAt = "idle"
  /\ call' = kind
  /\ clientAt' = "request"
  /\ UNCHANGED <<retries, waited, answers, reply, line, yielded, returned>>

(* Without the test of the status: a URLError or a 4xx is retried too. *)
MutRetries(outcome) == outcome # "200" /\ call # "quota" /\ retries < max_retries

(* One retry more than there may be. *)
MutRetriesAgain(outcome) == outcome = "5xx" /\ call # "quota" /\ retries <= max_retries

(* The branch of _request that sleeps; get_quota_status has none. *)
Retries(outcome) == outcome = "5xx" /\ call # "quota" /\ retries < max_retries

(* One pass of _request's loop up to time.sleep, return or raise.          *)
_request(outcome) ==
  /\ clientAt = "request"
  /\ answers' = Append(answers, outcome)
  /\ IF Retries(outcome)
     THEN /\ retries' = retries + 1
          /\ waited' = waited + 2 ^ retries
          /\ clientAt' = "sleep"
     ELSE /\ clientAt' = IF outcome = "200" THEN "read" ELSE "raised"
          /\ UNCHANGED <<retries, waited>>
  /\ UNCHANGED <<call, reply, line, yielded, returned>>

get_quota_status == CallsClient("quota")

Wakes ==
  /\ clientAt = "sleep"
  /\ clientAt' = "request"
  /\ UNCHANGED <<call, retries, waited, answers, reply, line, yielded, returned>>

(* _handle_non_stream, get_quota_status: the body is read and parsed.      *)
_handle_non_stream(data) ==
  /\ clientAt = "read" /\ call # "stream"
  /\ returned' = IF call = "quota" THEN data ELSE from_dict(data)
  /\ clientAt' = "returned"
  /\ UNCHANGED <<call, retries, waited, answers, reply, line, yielded>>

(* resp.read() raises when the connection is lost under it; so do decode   *)
(* and json.loads on a body that is no UTF-8 or no JSON (of a stream, line *)
(* by line: see _parse_sse_stream).                                        *)
ReadRaises ==
  /\ clientAt = "read"
  /\ clientAt' = "raised"
  /\ UNCHANGED <<call, retries, waited, answers, reply, line, yielded, returned>>

(* _handle_stream: resp.read() takes the whole body before the generator   *)
(* is returned.                                                            *)
_handle_stream(lines) ==
  /\ clientAt = "read" /\ call = "stream"
  /\ reply' = lines
  /\ clientAt' = "yield"
  /\ UNCHANGED <<call, retries, waited, answers, line, yielded, returned>>

(* A parser that skips the lines it does not know instead of stopping. *)
Mut_parse_sse(text) == IF text \in {"chunk", "malformed"} THEN text ELSE "skip"

(* _parse_sse: None for the end marker and for every line that is not a    *)
(* data line.                                                              *)
_parse_sse(text) == IF text \in {"chunk", "malformed"} THEN text ELSE Absent

(* The consumer asks the generator for its next chunk. *)
_parse_sse_stream ==
  /\ clientAt = "yield"
  /\ line' = IF line < Len(reply) THEN line + 1 ELSE line
  /\ LET parsed == IF line < Len(reply) THEN _parse_sse(reply[line + 1]) ELSE Absent
     IN  /\ yielded' = IF parsed = "chunk" THEN Append(yielded, line + 1) ELSE yielded
         /\ clientAt' = CASE parsed = Absent -> "returned"
                          [] parsed = "malformed" -> "raised"
                          [] OTHER -> "yield"
  /\ UNCHANGED <<call, retries, waited, answers, reply, returned>>

ClientNext ==
  \/ \E kind \in {"plain", "stream"} : CallsClient(kind)
  \/ get_quota_status
  \/ \E outcome \in AttemptOutcome : _request(outcome)
  \/ Wakes
  \/ \E data \in Dicts : _handle_non_stream(data)
  \/ ReadRaises
  \/ \E lines \in Lines : _handle_stream(lines)
  \/ _parse_sse_stream

ClientSpec == ClientInit /\ [][ClientNext]_clientVars
-----------------------------------------------------------------------------
(* A completion is paid for again only when the gateway itself failed:     *)
(* every attempt but the last met a 5xx, there are at most max_retries + 1 *)
(* of them (one for the quota), the last 5xx is raised only when they are  *)
(* used up, and the waits double (client.py:126-143).                      *)
RetriesAreJustified ==
  LET n == Len(answers)
  IN  /\ n <= (IF call = "quota" THEN 1 ELSE max_retries + 1)
      /\ \A k \in 1 .. n - 1 : answers[k] = "5xx"
      /\ (clientAt \in Outcome /\ call # "quota" /\ answers[n] = "5xx") => n = max_retries + 1
      /\ clientAt \in {"read", "yield", "returned"} => answers[n] = "200"
      /\ waited = 2 ^ retries - 1

(* A stream yields its data lines in order, none twice, and ends at the    *)
(* first line that is not one: chunks after a comment or an event line are *)
(* lost without an error, so on a body of data lines only nothing is       *)
(* (client.py:45-67).                                                      *)
StreamIsPrefix ==
  (call = "stream" /\ clientAt \in {"yield"} \cup Outcome /\ reply # <<>>) =>
    /\ yielded = [k \in 1 .. Len(yielded) |-> k]
    /\ \A k \in 1 .. Len(yielded) : reply[k] = "chunk"
    /\ clientAt = "returned" =>
         Len(yielded) = Len(reply) \/ reply[Len(yielded) + 1] \in {"done", "other"}
=============================================================================
