----------------------------- MODULE ChatStream -----------------------------
(***************************************************************************)
(* From parsed upstream events to chat chunks: cosyHandle and bearerHandle *)
(* of adapters.go under textToolFallbackHandle of text_tool_fallback.go,   *)
(* which turns tool calls the upstream wrote as text                       *)
(* (Tool calls: [...]) into tool_calls chunks.                             *)
(*                                                                         *)
(* Text is a sequence of the pieces the fallback tells apart: "Tool" and   *)
(* " calls:", which make the prefix, "[" and "...]", which make a complete *)
(* array, and "other", which fits neither.  An event brings some of them.  *)
(***************************************************************************)
EXTENDS Naturals, Sequences, SequencesExt, Aggregate

CONSTANTS
  Deltas,     \* texts an event may bring
  Indices,    \* indices the upstream may give its tool calls
  MaxBuf,     \* maxToolFallbackBuf, in pieces
  MaxEvents   \* bound: upstream events read

Pieces == {"Tool", " calls:", "[", "...]", "other"}

ASSUME DeltasAssumption ==
  /\ Deltas \subseteq Seq(Pieces) \ {<<>>}
  /\ Indices \subseteq Nat
  /\ MaxBuf \in Nat /\ MaxEvents \in Nat

VARIABLES
  terminal,  \* handleState.terminal: the finish chunk was made
  doneRead,  \* handleState.done: the [DONE] marker was made
  state,     \* textToolFallbackHandle: "idle", "buffering", "emitted"
  buf,       \* textToolFallbackHandle.buf
  pending,   \* textToolFallbackHandle.pending
  savedErr,  \* textToolFallbackHandle.savedErr # nil
  done,      \* textToolFallbackHandle.done
  events,    \* the counter of the bound
  received,  \* history: the text the upstream sent
  out,       \* history: the chunks ReadChunk returned
  result     \* how the reading ended: "reading", "eof", "error"

fallback == <<state, buf, pending, savedErr, done>>
vars == <<terminal, doneRead, fallback, events, received, out, result>>

Text(s) == [kind |-> "text", text |-> s]
Finish(reason) == [kind |-> "finish", reason |-> reason]
Chunk(k) == [kind |-> k]

\* A part of the tool call with an index; its arguments are told apart by a number.
Call(k, index, part) == [kind |-> k, index |-> index, part |-> part]

Init ==
  /\ terminal = FALSE /\ doneRead = FALSE
  /\ state = "idle" /\ buf = <<>> /\ pending = <<>>
  /\ savedErr = FALSE /\ done = FALSE
  /\ events = 0
  /\ received = <<>> /\ out = <<>> /\ result = "reading"

-----------------------------------------------------------------------------
(* text_tool_fallback_parse.go *)

Prefix == <<"Tool", " calls:">>

isToolCallsPrefix(b) == IsPrefix(b, Prefix)

bufferMatchesPrefix(b) ==
  /\ IsPrefix(Prefix, b)
  /\ Len(b) > Len(Prefix) => b[Len(Prefix) + 1] = "["

\* One complete array of calls, after the prefix or without it.
tryParseToolCalls(b) ==
  LET rest == IF IsPrefix(Prefix, b) THEN SubSeq(b, Len(Prefix) + 1, Len(b)) ELSE b
  IN  rest = <<"[", "...]">>

-----------------------------------------------------------------------------
(* What one ReadChunk does first *)

Returns(c) == out' = Append(out, c)

\* The chunks cs are to be returned one by one; the first one is, now.
Hands(cs) ==
  /\ Returns(Head(cs))
  /\ pending' = Tail(cs)

ReadPending ==
  /\ pending # <<>>
  /\ Hands(pending)
  /\ UNCHANGED <<terminal, doneRead, state, buf, savedErr, done, events, received, result>>

ReadSavedErr ==
  /\ pending = <<>>
  /\ savedErr
  /\ savedErr' = FALSE
  /\ result' = "error"
  /\ UNCHANGED <<terminal, doneRead, state, buf, pending, done, events, received, out>>

ReadEOF ==
  /\ pending = <<>> /\ ~savedErr /\ done
  /\ result' = "eof"
  /\ UNCHANGED <<terminal, doneRead, fallback, events, received, out>>

\* Otherwise it turns to the handle below.
Inner == pending = <<>> /\ ~savedErr /\ ~done

\* The handle below reads on while it has made no finish chunk.
NextEvent ==
  /\ Inner
  /\ ~terminal
  /\ events < MaxEvents
  /\ events' = events + 1

FlushFirst == state = "buffering" /\ buf # <<>>

-----------------------------------------------------------------------------
(* What becomes of the chunk of the handle below *)

\* Text once calls were made of earlier text, or came as events, is dropped.
TextAfterCalls(s) ==
  /\ NextEvent
  /\ state = "emitted"
  /\ received' = received \o s
  /\ UNCHANGED <<terminal, doneRead, fallback, out, result>>

FlushText(b) ==
  /\ Hands(<<Text(b)>>)
  /\ buf' = <<>>
  /\ state' = "idle"

\* buildToolCallChunks: one chunk per call of the array, handed out one after the other;
\* here one chunk stands for them all.
EmitCalls ==
  /\ Hands(<<Call("calls", 0, 0)>>)
  /\ buf' = <<>>
  /\ state' = "emitted"

KeepBuffering(b, s) ==
  /\ buf' = b
  /\ state' = s
  /\ UNCHANGED <<pending, out>>

TextWhileBuffering(s) ==
  LET b == buf \o s
  IN  /\ NextEvent
      /\ state = "buffering"
      /\ received' = received \o s
      /\ \/ Len(b) > MaxBuf /\ FlushText(b)
         \/ Len(b) <= MaxBuf /\ tryParseToolCalls(b) /\ EmitCalls
         \/ /\ Len(b) <= MaxBuf /\ ~tryParseToolCalls(b)
            /\ IF bufferMatchesPrefix(b) THEN KeepBuffering(b, state) ELSE FlushText(b)
      /\ UNCHANGED <<terminal, doneRead, savedErr, done, result>>

TextWhileIdle(s) ==
  LET b == buf \o s
  IN  /\ NextEvent
      /\ state = "idle"
      /\ received' = received \o s
      /\ \/ tryParseToolCalls(b) /\ EmitCalls
         \/ bufferMatchesPrefix(b) /\ ~tryParseToolCalls(b) /\ KeepBuffering(b, "buffering")
         \/ /\ ~tryParseToolCalls(b) /\ ~bufferMatchesPrefix(b)
            /\ IF isToolCallsPrefix(b) THEN KeepBuffering(b, state) ELSE FlushText(b)
      /\ UNCHANGED <<terminal, doneRead, savedErr, done, result>>

\* A slip: a call that came as an event is not remembered.
NativeCall_forgotten(i) ==
  /\ NextEvent
  /\ Returns(Call("native", i, events'))
  /\ UNCHANGED <<terminal, doneRead, fallback, received, result>>

NativeCall(i) ==
  /\ NextEvent
  /\ buf' = (IF state = "buffering" THEN <<>> ELSE buf)
  /\ state' = "emitted"
  /\ Returns(Call("native", i, events'))
  /\ UNCHANGED <<terminal, doneRead, pending, savedErr, done, received, result>>

\* Usage and reasoning pass the buffered text by.
PassThrough(k) ==
  /\ NextEvent
  /\ Returns(Chunk(k))
  /\ UNCHANGED <<terminal, doneRead, fallback, received, result>>

\* A slip: the text held back follows the finish chunk.
Terminal_textLast ==
  /\ NextEvent
  /\ terminal' = TRUE
  /\ IF FlushFirst
     THEN Hands(<<Finish("stop"), Text(buf)>>) /\ buf' = <<>> /\ state' = "idle"
     ELSE /\ Returns(Finish(IF state = "emitted" THEN "tool_calls" ELSE "stop"))
          /\ UNCHANGED <<buf, pending, state>>
  /\ UNCHANGED <<doneRead, savedErr, done, received, result>>

\* Any event with a finish reason, and [DONE] without one: the adapter reports "stop".
Terminal ==
  /\ NextEvent
  /\ terminal' = TRUE
  /\ IF FlushFirst
     THEN /\ Hands(<<Text(buf), Finish("stop")>>)
          /\ buf' = <<>>
          /\ state' = "idle"
     ELSE /\ Returns(Finish(IF state = "emitted" THEN "tool_calls" ELSE "stop"))
          /\ UNCHANGED <<buf, pending, state>>
  /\ UNCHANGED <<doneRead, savedErr, done, received, result>>

\* nextTerminal: the marker follows the finish chunk.
Done ==
  /\ Inner
  /\ terminal /\ ~doneRead
  /\ doneRead' = TRUE
  /\ done' = TRUE
  /\ IF FlushFirst
     THEN /\ Hands(<<Text(buf), Chunk("done")>>)
          /\ buf' = <<>>
          /\ state' = "idle"
     ELSE /\ Returns(Chunk("done"))
          /\ UNCHANGED <<buf, pending, state>>
  /\ UNCHANGED <<terminal, savedErr, events, received, result>>

\* A slip: the error goes out before the text held back.
InnerError_first ==
  /\ Inner
  /\ ~terminal
  /\ result' = "error"
  /\ UNCHANGED <<terminal, doneRead, fallback, events, received, out>>

\* An error event, a stream that ends without a terminal event, a deadline, a cancellation.
InnerError ==
  /\ Inner
  /\ ~terminal
  /\ IF FlushFirst
     THEN /\ FlushText(buf)
          /\ savedErr' = TRUE
          /\ UNCHANGED result
     ELSE /\ result' = "error"
          /\ UNCHANGED <<out, pending, buf, state, savedErr>>
  /\ UNCHANGED <<terminal, doneRead, done, events, received>>

ReadChunk ==
  \/ ReadPending \/ ReadSavedErr \/ ReadEOF
  \/ \E s \in Deltas : TextAfterCalls(s) \/ TextWhileBuffering(s) \/ TextWhileIdle(s)
  \/ \E i \in Indices : NativeCall(i)
  \/ \E k \in {"usage", "reasoning"} : PassThrough(k)
  \/ Terminal \/ Done \/ InnerError

\* The reader stops at the first error, io.EOF included.
Next ==
  \/ result = "reading" /\ ReadChunk
  \/ result # "reading" /\ UNCHANGED vars

Spec == Init /\ [][Next]_vars

-----------------------------------------------------------------------------
(* What the client gets. *)

Kinds(cs) == {cs[i].kind : i \in DOMAIN cs}

\* The text in a sequence of chunks.
Said(cs) == FlattenSeq([i \in DOMAIN cs |-> IF cs[i].kind = "text" THEN cs[i].text ELSE <<>>])

\* Text held back is at most MaxBuf pieces long, or came, after a first piece of the prefix, in
\* one event: an idle fallback does not look at the length.
HeldBackBounded ==
  Len(buf) <= MaxBuf \/ \E b \in {<<>>, <<"Tool">>}, s \in Deltas : buf = b \o s

\* The fields keep their types.
TypeOK ==
  /\ {terminal, doneRead, savedErr, done} \subseteq BOOLEAN
  /\ state \in {"idle", "buffering", "emitted"}
  /\ buf \in Seq(Pieces)
  /\ received \in Seq(Pieces)
  /\ events \in 0..MaxEvents
  /\ Kinds(out) \union Kinds(pending) \subseteq
       {"text", "calls", "native", "usage", "reasoning", "finish", "done"}
  /\ result \in {"reading", "eof", "error"}

\* However the upstream cuts its text into events, the client gets it in order and once: until
\* tool calls are made, what was said and what is held back is what was received, and at the
\* end no more was kept back than the beginning of a prefix.
TextIntact ==
  LET said == Said(out) \o Said(pending)
  IN  /\ HeldBackBounded
      /\ IsPrefix(said, received)
      /\ state # "emitted" => said \o buf = received
      /\ result # "reading" /\ state # "emitted" => buf \in {<<>>, <<"Tool">>}

\* The finish reason tells the client whether there are calls to execute.
FinishMatchesCalls ==
  \A i \in DOMAIN out : out[i].kind = "finish" =>
    out[i].reason = (IF Kinds(out) \intersect {"calls", "native"} # {}
                     THEN "tool_calls" ELSE "stop")

\* Text is turned into calls at most once, never after calls came as events, and once there
\* are calls no text follows them.
CallsEndText ==
  \A i, j \in DOMAIN out : i < j =>
    /\ out[i].kind = "calls" => out[j].kind # "calls"
    /\ out[i].kind = "native" => out[j].kind # "calls"
    /\ out[i].kind \in {"calls", "native"} => out[j].kind # "text"

\* Calls are final: what the finish reason says and what may follow them.
CallsAreFinal == FinishMatchesCalls /\ CallsEndText

\* A completion ends with its finish chunk, [DONE] and io.EOF, in this order and with nothing
\* in between; a stream that ends in any other way ends with an error.
EndsOnce ==
  /\ \A i \in DOMAIN out : out[i].kind = "finish" =>
       SubSeq(out, i + 1, Len(out)) \in {<<>>, <<Chunk("done")>>}
  /\ "done" \in Kinds(out) => "finish" \in Kinds(out)
  /\ result = "eof" <=> result # "reading" /\ "done" \in Kinds(out)
  /\ result # "reading" => pending = <<>>

\* A request that is not streamed is answered with the aggregate of the same chunks.  There is
\* an answer exactly if the stream ended as agreed; it has the text of the upstream, except the
\* beginning of a prefix at its end; and calls that came as events, numbered from zero without
\* a gap, are all there, each with its own parts in order (a part's number grows with the event
\* that brought it), unless calls made of text, which begin at zero as well, came before them.
AggregateFaithful ==
  LET answer   == aggregateChat(out)
      natives  == {i \in DOMAIN out : out[i].kind = "native"}
      told     == {out[i].index : i \in natives}
      Parts(k) == {out[i].part : i \in {i \in natives : out[i].index = k}}
  IN  result # "reading" =>
        /\ answer.answered <=> result = "eof"
        /\ answer.answered =>
             /\ state # "emitted" => received \in {answer.content, Append(answer.content, "Tool")}
             /\ answer.finish = "stop" => answer.calls = <<>>
             /\ "calls" \notin Kinds(out) /\ told = 0..(Cardinality(told) - 1) =>
                  /\ Len(answer.calls) = Cardinality(told)
                  /\ \A k \in told :
                       LET parts == answer.calls[k + 1]
                       IN  /\ ToSet(parts) = Parts(k)
                           /\ \A a, b \in DOMAIN parts : a < b => parts[a] < parts[b]
=============================================================================
