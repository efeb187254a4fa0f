----------------------------- MODULE Aggregate -----------------------------
(***************************************************************************)
(* aggregateChat of executor_aggregate.go: one answer made of the chunks   *)
(* of a stream.  A chunk is one of ChatStream's; the arguments of a tool   *)
(* call are the sequence of the parts that its chunks brought.             *)
(***************************************************************************)
EXTENDS Naturals, SequencesExt

Nothing == [content |-> <<>>, finish |-> "", tools |-> <<>>, usage |-> FALSE, complete |-> FALSE]

\* A slip: a later part replaces the earlier ones.
AddPart_replaces(tools, index, part) ==
    [i \in DOMAIN tools \union {index} |-> IF i = index THEN <<part>> ELSE tools[i]]

\* The map of tool calls by index.
AddPart(tools, index, part) ==
    [i \in DOMAIN tools \union {index} |->
       IF i # index THEN tools[i]
       ELSE Append(IF i \in DOMAIN tools THEN tools[i] ELSE <<>>, part)]

applyAggregateChunk(a, c) ==
    CASE c.kind = "text"               -> [a EXCEPT !.content = @ \o c.text]
      [] c.kind = "finish"             -> [a EXCEPT !.finish = c.reason]
      [] c.kind = "usage"              -> [a EXCEPT !.usage = TRUE]
      [] c.kind \in {"native","calls"} -> [a EXCEPT !.tools = AddPart(@, c.index, c.part)]
      [] c.kind = "done"               -> [a EXCEPT !.complete = TRUE]
      [] OTHER                         -> a

\* As many indices are looked at as there are calls.
ToolCalls(tools) ==
    FlattenSeq([k \in 1..Cardinality(DOMAIN tools) |->
                  IF k - 1 \in DOMAIN tools THEN <<tools[k - 1]>> ELSE <<>>])

\* What a stream without [DONE] makes is thrown away.
aggregateChat(chunks) ==
    LET a == FoldLeft(applyAggregateChunk, Nothing, chunks)
    IN  [answered |-> a.complete, content |-> a.content, finish |-> a.finish,
         calls |-> ToolCalls(a.tools), estimated |-> ~a.usage]
============================================================================
