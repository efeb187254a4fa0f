----------------------------- MODULE EventStream -----------------------------
(***************************************************************************)
(* From the request to parsed events: Stream of transport.go opens a       *)
(* stream of the host; hostStreamBody of host_http.go is read through a    *)
(* bufio.Reader by the SSEParser of sse.go, and closed by the owner's      *)
(* Cancel or by the deadline of the stream, whichever comes first, or by   *)
(* Stream itself if the upstream answered with an error.                   *)
(*                                                                         *)
(* The upstream sends events 1..NumEvents, the last of which ends the      *)
(* completion; each is a data line and a blank line.  The wire is a        *)
(* sequence of pieces, between any two of which the host may cut it: in    *)
(* the prefix "data:" of a line, right after it, in the JSON that follows, *)
(* before and after a newline.  Neither part of the JSON is JSON, and the  *)
(* second does not begin like a data line.                                 *)
(***************************************************************************)
EXTENDS Naturals, Sequences

CONSTANTS
  NumEvents,
  MaxPayload    \* bound: pieces in one payload of the host

ASSUME EventAssumption == NumEvents \in Nat \ {0} /\ MaxPayload \in Nat

VARIABLES
  sent,          \* how many pieces of the wire the host has passed on
  fetched,       \* pieces in hostStreamBody.reader and in the buffer of bufio
  hostDone,      \* hostStreamBody.done
  line,          \* pieces of the line ReadString is collecting
  data,          \* SSEParser.data
  pc,            \* the reading goroutine: "opening", "answered", "drain", "check", "line",
                 \* "closed?", "call", "stopped"
  opened,        \* what the host answered: "nothing" so far, a "stream" with an ID, the
                 \* "chunks" of the whole answer without one, or it "failed"
  readErr,       \* what ended the last ReadString: "none", "eof", "failed"
  ctx,           \* the stream's context: "live" or "done"
  closed,        \* hostStreamBody.closed
  once,          \* hostStreamBody.closeOnce: "free", "taken", "over"
  closer,        \* where the two that may close the body are in Close
  hostCloses,    \* history: calls of host.http.stream_close
  struck,        \* history: the events in or of which a failed read of the host's stream was
  events,        \* history: the events the parser returned
  result         \* what ended the reading: "reading", "unopened", "rejected", "terminal",
                 \* "invalid", "truncated", "context"

body == <<sent, fetched, hostDone>>
parser == <<line, data>>
stream == <<ctx, closed, once, closer, hostCloses>>
vars == <<body, parser, pc, opened, readErr, stream, struck, events, result>>

Closers == {"owner", "afterFunc"}

NL == <<0, "newline">>

\* Event i on the wire: the prefix and the JSON in two parts each, and the two newlines.
Frame(i) == << <<i, "da">>, <<i, "ta:">>, <<i, "head">>, <<i, "tail">>, NL, NL >>

Wire == [k \in 1..(6 * NumEvents) |-> Frame(((k - 1) \div 6) + 1)[((k - 1) % 6) + 1]]

\* Its JSON.
Whole(i) == << <<i, "head">>, <<i, "tail">> >>

Init ==
  /\ sent = 0 /\ fetched = <<>> /\ hostDone = FALSE
  /\ line = <<>> /\ data = <<>>
  /\ pc = "opening" /\ opened = "nothing" /\ readErr = "none"
  /\ ctx = "live" /\ closed = FALSE /\ hostCloses = 0
  /\ once = "free" /\ closer = [c \in Closers |-> "away"]
  /\ struck = {} /\ events = <<>> /\ result = "reading"

-----------------------------------------------------------------------------
(* Stream *)

Stops(why) ==
  /\ result' = why
  /\ pc' = "stopped"

\* The request cannot be made, or the host has no answer to it.
OpenFails ==
  /\ pc = "opening"
  /\ Stops("unopened")
  /\ opened' = "failed"
  /\ ctx' = "done"
  /\ UNCHANGED <<body, parser, readErr, closed, once, closer, hostCloses, struck,
                 events>>

\* The host is not told of the context: it answers also after the deadline.
RoundTrip(kind) ==
  /\ pc = "opening"
  /\ opened' = kind
  /\ pc' = "answered"
  /\ UNCHANGED <<body, parser, readErr, stream, struck, events, result>>

\* A status other than 200, or no event stream: the answer is read for what it says ...
Rejects ==
  /\ pc = "answered"
  /\ ctx' = "done"
  /\ result' = "rejected"
  /\ pc' = "drain"
  /\ UNCHANGED <<body, parser, opened, readErr, closed, once, closer, hostCloses,
                 struck, events>>

\* ... up to a limit, its end or an error, whatever the context, and then closed.
Drain ==
  /\ pc = "drain"
  /\ hostDone' \in BOOLEAN
  /\ pc' = "stopped"
  /\ closer' = [closer EXCEPT !["owner"] = "waiting"]
  /\ UNCHANGED <<sent, fetched, parser, opened, readErr, ctx, closed, once, hostCloses,
                 struck, events, result>>

\* From here on the context's end closes the body.
Accepts ==
  /\ pc = "answered"
  /\ pc' = "check"
  /\ UNCHANGED <<body, parser, opened, readErr, stream, struck, events, result>>

Accepted == pc \notin {"opening", "answered"} /\ result \notin {"unopened", "rejected"}

-----------------------------------------------------------------------------
(* ParseContext *)

CheckContext ==
  /\ pc = "check"
  /\ IF ctx = "done" THEN Stops("context") ELSE pc' = "line" /\ UNCHANGED result
  /\ UNCHANGED <<opened, body, parser, readErr, stream, struck, events>>

\* ReadString takes what is buffered up to the next newline, and asks for more without one.
TakePiece ==
  /\ pc = "line" /\ readErr = "none"
  /\ fetched # <<>> /\ Head(fetched) # NL
  /\ line' = Append(line, Head(fetched))
  /\ fetched' = Tail(fetched)
  /\ UNCHANGED <<opened, sent, hostDone, data, pc, readErr, stream, struck, events,
                 result>>

NeedsMore ==
  /\ pc = "line" /\ readErr = "none"
  /\ fetched = <<>>
  /\ pc' = "closed?"
  /\ UNCHANGED <<opened, body, parser, readErr, stream, struck, events, result>>

\* A slip: what was dispatched is not forgotten.
Dispatch_noReset(d) ==
  /\ data' = d
  /\ IF \E i \in 1..NumEvents : d = Whole(i)
     THEN LET i == CHOOSE i \in 1..NumEvents : d = Whole(i)
          IN  /\ events' = Append(events, i)
              /\ IF i = NumEvents THEN Stops("terminal") ELSE pc' = "check" /\ UNCHANGED result
     ELSE Stops("invalid") /\ UNCHANGED events

\* dispatch: a whole event is passed on; anything else is no JSON.
Dispatch(d) ==
  /\ data' = <<>>
  /\ IF \E i \in 1..NumEvents : d = Whole(i)
     THEN LET i == CHOOSE i \in 1..NumEvents : d = Whole(i)
          IN  /\ events' = Append(events, i)
              /\ IF i = NumEvents THEN Stops("terminal") ELSE pc' = "check" /\ UNCHANGED result
     ELSE Stops("invalid") /\ UNCHANGED events

\* eofFallback, when no terminal event was dispatched.
Truncated ==
  /\ Stops("truncated")
  /\ UNCHANGED <<data, events>>

GoOn(d) ==
  /\ data' = d
  /\ pc' = "check"
  /\ UNCHANGED <<events, result>>

\* Only a line that begins with the whole prefix adds what follows to data; any other is
\* ignored, and so is the rest of one that was cut.  (The newline between two such lines is
\* left out: no JSON is made of the JSON of two, and dispatch trims the newlines around one.)
DataOf(l) ==
  IF Len(l) > 1 /\ l[1][2] = "da" THEN data \o SubSeq(l, 3, Len(l)) ELSE data

\* The line, complete or not, that ReadString returned; a failure that is not io.EOF is not
\* looked at.
HandleLine ==
  LET complete == readErr = "none"
  IN  /\ pc = "line"
      /\ complete => fetched # <<>> /\ Head(fetched) = NL
      /\ IF line = <<>>
         THEN IF data # <<>> THEN Dispatch(data)
              ELSE IF readErr = "eof" THEN Truncated
              ELSE GoOn(data)
         ELSE IF readErr # "eof" THEN GoOn(DataOf(line))
              ELSE IF DataOf(line) # <<>> THEN Dispatch(DataOf(line))
              ELSE Truncated
      /\ fetched' = (IF complete THEN Tail(fetched) ELSE fetched)
      /\ line' = <<>>
      /\ readErr' = "none"
      /\ UNCHANGED <<opened, sent, hostDone, stream, struck>>

-----------------------------------------------------------------------------
(* hostStreamBody.Read *)

ReadEOF ==
  /\ pc = "closed?"
  /\ closed
  /\ readErr' = "eof"
  /\ pc' = "line"
  /\ UNCHANGED <<opened, body, parser, stream, struck, events, result>>

ReadOn ==
  /\ pc = "closed?"
  /\ ~closed
  /\ pc' = "call"
  /\ UNCHANGED <<opened, body, parser, readErr, stream, struck, events, result>>

\* The host says there is no more.
ReadDone ==
  /\ pc = "call"
  /\ hostDone
  /\ readErr' = "eof"
  /\ pc' = "line"
  /\ UNCHANGED <<opened, body, parser, stream, struck, events, result>>

\* A slip: an empty payload is taken for the end.
HostAnswers_emptyIsEnd(n) ==
  /\ pc = "call"
  /\ ~hostDone
  /\ sent + n <= Len(Wire)
  /\ fetched' = SubSeq(Wire, sent + 1, sent + n)
  /\ sent' = sent + n
  /\ hostDone' \in BOOLEAN
  /\ readErr' = (IF n = 0 THEN "eof" ELSE readErr)
  /\ pc' = "line"
  /\ UNCHANGED <<opened, parser, stream, struck, events, result>>

\* A payload of n pieces, or an empty one: then the host is asked again.
HostAnswers(n) ==
  /\ pc = "call"
  /\ ~hostDone
  /\ sent + n <= Len(Wire)
  /\ fetched' = SubSeq(Wire, sent + 1, sent + n)
  /\ sent' = sent + n
  /\ hostDone' \in BOOLEAN
  /\ pc' = (IF n = 0 THEN "call" ELSE "line")
  /\ UNCHANGED <<opened, parser, readErr, stream, struck, events, result>>

\* The call fails, its answer cannot be decoded, or it reports an error of the host's stream:
\* a payload of n pieces that came with it is dropped.  The host may go on after that.
HostFails(n) ==
  /\ pc = "call"
  /\ ~hostDone
  /\ sent + n <= Len(Wire)
  /\ sent' = sent + n
  /\ struck' = struck \union {i \in 1..NumEvents : 6 * (i - 1) < sent + n /\ sent < 6 * i}
  /\ readErr' = "failed"
  /\ pc' = "line"
  /\ UNCHANGED <<opened, fetched, hostDone, parser, stream, events, result>>

-----------------------------------------------------------------------------
(* The context and Cancel *)

\* The timeout of the stream, or the context of the request.
Expires ==
  /\ ctx = "live"
  /\ ctx' = "done"
  /\ UNCHANGED <<opened, body, parser, pc, readErr, closed, once, closer, hostCloses,
                 struck, events, result>>

\* The owner has stopped reading and calls Cancel, which cancels the context first.
Cancels ==
  /\ pc = "stopped" /\ Accepted
  /\ closer["owner"] = "away"
  /\ ctx' = "done"
  /\ closer' = [closer EXCEPT !["owner"] = "waiting"]
  /\ UNCHANGED <<opened, body, parser, pc, readErr, closed, once, hostCloses, struck,
                 events, result>>

AfterFunc ==
  /\ ctx = "done" /\ Accepted
  /\ closer["afterFunc"] = "away"
  /\ closer' = [closer EXCEPT !["afterFunc"] = "waiting"]
  /\ UNCHANGED <<opened, body, parser, pc, readErr, ctx, closed, once, hostCloses,
                 struck, events, result>>

\* hostStreamBody.Close under its sync.Once: the first caller sets the flag ...
CloseFirst(c) ==
  /\ closer[c] = "waiting"
  /\ once = "free"
  /\ once' = "taken"
  /\ closed' = TRUE
  /\ closer' = [closer EXCEPT ![c] = "closing"]
  /\ UNCHANGED <<opened, body, parser, pc, readErr, ctx, hostCloses, struck, events,
                 result>>

\* A slip: a stream the host has ended is not closed.
CloseHost_unlessDone(c) ==
  /\ closer[c] = "closing"
  /\ hostCloses' = (IF opened = "stream" /\ ~hostDone THEN hostCloses + 1 ELSE hostCloses)
  /\ once' = "over"
  /\ closer' = [closer EXCEPT ![c] = "returned"]
  /\ UNCHANGED <<opened, body, parser, pc, readErr, ctx, closed, struck, events,
                 result>>

\* ... and closes the host's stream, if there is one;
CloseHost(c) ==
  /\ closer[c] = "closing"
  /\ hostCloses' = (IF opened = "stream" THEN hostCloses + 1 ELSE hostCloses)
  /\ once' = "over"
  /\ closer' = [closer EXCEPT ![c] = "returned"]
  /\ UNCHANGED <<opened, body, parser, pc, readErr, ctx, closed, struck, events,
                 result>>

\* A slip: it returns at once.
CloseAgain_atOnce(c) ==
  /\ closer[c] = "waiting"
  /\ once # "free"
  /\ closer' = [closer EXCEPT ![c] = "returned"]
  /\ UNCHANGED <<opened, body, parser, pc, readErr, ctx, closed, once, hostCloses,
                 struck, events, result>>

\* a second one waits for it.
CloseAgain(c) ==
  /\ closer[c] = "waiting"
  /\ once = "over"
  /\ closer' = [closer EXCEPT ![c] = "returned"]
  /\ UNCHANGED <<opened, body, parser, pc, readErr, ctx, closed, once, hostCloses,
                 struck, events, result>>

Closing == \E c \in Closers : CloseFirst(c) \/ CloseHost(c) \/ CloseAgain(c)

Over ==
  /\ \/ result = "unopened"
     \/ result = "rejected" /\ closer["owner"] = "returned"
     \/ \A c \in Closers : closer[c] = "returned"
  /\ UNCHANGED vars

Opening ==
  \/ OpenFails \/ RoundTrip("stream") \/ RoundTrip("chunks")
  \/ Rejects \/ Drain \/ Accepts

Reader ==
  \/ CheckContext \/ TakePiece \/ NeedsMore \/ HandleLine
  \/ ReadEOF \/ ReadOn \/ ReadDone
  \/ \E n \in 0..MaxPayload : HostAnswers(n) \/ HostFails(n)

Next == Opening \/ Reader \/ Expires \/ Cancels \/ AfterFunc \/ Closing \/ Over

\* The host answers with a payload, the end or an error in the end: after an empty payload
\* Read asks again without looking at the context or at closed.
HostSpeaks ==
  \E n \in 0..MaxPayload : HostFails(n) \/ (HostAnswers(n) /\ (n > 0 \/ hostDone'))

\* The host answers a request, and what it says of a refusal has an end.  The stream has a
\* deadline; reader, AfterFunc and closers run in goroutines of their own.
Fairness ==
  /\ WF_vars(Opening)
  /\ WF_vars(Reader)
  /\ SF_vars(HostSpeaks)
  /\ WF_vars(Expires)
  /\ WF_vars(Cancels)
  /\ WF_vars(AfterFunc)
  /\ WF_vars(Closing)

Spec == Init /\ [][Next]_vars /\ Fairness

-----------------------------------------------------------------------------
(* What the handle above relies on. *)

\* The pieces an upstream sends.
Pieces == ((1..NumEvents) \X {"da", "ta:", "head", "tail"}) \union {NL}

\* The fields keep their types.
TypeOK ==
  /\ sent \in 0..(6 * NumEvents) /\ hostCloses \in Nat
  /\ fetched \in Seq(Pieces) /\ line \in Seq(Pieces) /\ data \in Seq(Pieces)
  /\ hostDone \in BOOLEAN /\ closed \in BOOLEAN /\ struck \subseteq 1..NumEvents
  /\ pc \in {"opening", "answered", "drain", "check", "line", "closed?", "call", "stopped"}
  /\ opened \in {"nothing", "stream", "chunks", "failed"}
  /\ readErr \in {"none", "eof", "failed"}
  /\ ctx \in {"live", "done"}
  /\ once \in {"free", "taken", "over"}
  /\ closer \in [Closers -> {"away", "waiting", "closing", "returned"}]
  /\ events \in Seq(1..NumEvents)
  /\ result \in {"reading", "unopened", "rejected", "terminal", "invalid", "truncated",
                 "context"}

\* Wherever the host cuts the stream into payloads, breaks it off or fails, and whenever the
\* deadline passes, the events that come out are the upstream's, in order and none twice, and
\* what is missing among them was struck by a failed read: a failure costs no event but
\* those it cut through or whose bytes it took along.
OnlyStruckAreMissed ==
  \A n \in 1..Len(events) :
    /\ n > 1 => events[n - 1] < events[n]
    /\ \A k \in 1..(events[n] - 1) : (\E m \in 1..n : events[m] = k) \/ k \in struck

\* Only a stream that was broken off, by the host or by its deadline, or of which an event was
\* struck ends without its terminal event: the way the payloads are cut is never the cause,
\* nor is a failure between two events.
HealthyStreamCompletes ==
  struck = {} /\ ctx = "live" /\ (hostDone => sent = Len(Wire)) =>
    result \in {"reading", "terminal"}

\* The host's stream is closed once, and before the owner's Cancel returns or Stream returns
\* the upstream's refusal, also if the deadline closes it at the same time: the next stream is
\* opened after that (queue_wait.go).
CancelMeansClosed ==
  /\ hostCloses <= 1
  /\ \A c \in Closers : closer[c] = "returned" =>
        hostCloses = (IF opened = "stream" THEN 1 ELSE 0)

\* A reader that gets no answer it can use ends with the deadline, and every stream that the
\* host opened is closed, read or refused.
EveryStreamCloses ==
  /\ (ctx = "done") ~> (pc = "stopped")
  /\ (opened = "stream") ~> (hostCloses = 1)
=============================================================================
