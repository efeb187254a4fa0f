-------------------------- MODULE ChatStreamProofs --------------------------
(***************************************************************************)
(* What the client gets of a chat stream, however many events it has, how- *)
(* ever the upstream cuts its text, and for any length of the buffer.      *)
(* The kinds of chunks and their order are one invariant; the text they    *)
(* carry is another, which rests on what FlattenSeq makes of a sequence    *)
(* that grows; and the answer to a request that is not streamed is a third,*)
(* which rests on FoldLeft (FoldLemmas).                                   *)
(*                                                                         *)
(* The same lemmas carry the models of an account (ModelCatalog), the last *)
(* part: whatever names and IDs a catalog has, what a refresh makes of it  *)
(* is one to one, and a listed model is the one that is called.            *)
(***************************************************************************)
EXTENDS ChatStream, ModelCatalog, FiniteSetTheorems, SequenceTheorems, WellFoundedInduction, TLAPS

-----------------------------------------------------------------------------
(* The invariant. *)

\* The chunks there are.
Chunks ==
  [kind : {"text"}, text : Seq(Pieces)]
    \union [kind : {"finish"}, reason : {"stop", "tool_calls"}]
    \union [kind : {"usage", "reasoning", "done"}]
    \union [kind : {"calls", "native"}, index : Nat, part : Nat]

CallKinds == {"calls", "native"}

\* Besides the types: only the finish chunk ever waits to be handed out, after text that was held
\* back; the text flushed before [DONE] and that before an error never leave more than that.
ChunksOK ==
  /\ out \in Seq(Chunks)
  /\ pending \in {<<>>, <<Finish("stop")>>}

\* Text is held back while it may begin the prefix, and no longer than the stream is read.
HoldInv ==
  /\ state # "buffering" => buf \in {<<>>, <<"Tool">>}
  /\ state = "buffering" => buf # <<>> /\ ~terminal /\ ~savedErr /\ result = "reading"
  /\ HeldBackBounded

\* Where the stream is and how it ended.
EndInv ==
  /\ done = doneRead
  /\ done => terminal
  /\ pending # <<>> => terminal /\ ~done /\ state = "idle" /\ result = "reading"
  /\ savedErr => ~terminal /\ result = "reading"
  /\ result = "eof" => done
  /\ result = "error" => ~terminal

\* The finish chunk is the last one but for the marker.
FinishInv ==
  LET last == IF done THEN Len(out) - 1 ELSE Len(out)
  IN  /\ \A i \in DOMAIN out : out[i].kind = "finish" => terminal /\ pending = <<>> /\ i = last
      /\ \A i \in DOMAIN out : out[i].kind = "done" => done /\ i = Len(out)
      /\ terminal /\ pending = <<>> => last \in DOMAIN out /\ out[last].kind = "finish"
      /\ done => out[Len(out)] = Chunk("done")

\* The fallback's state tells whether the client was given calls.
CallsInv ==
  /\ state = "emitted" <=> \E i \in DOMAIN out : out[i].kind \in CallKinds
  /\ \A i \in DOMAIN out : out[i].kind = "finish" =>
       out[i].reason = (IF state = "emitted" THEN "tool_calls" ELSE "stop")
  /\ CallsEndText

\* What was said and what is held back is what was received, until calls are made.
SaidInv ==
  /\ Said(out) \in Seq(Pieces)
  /\ IF state = "emitted" THEN \E rest \in Seq(Pieces) : received = Said(out) \o rest
                          ELSE received = Said(out) \o buf

Inv == TypeOK /\ ChunksOK /\ HoldInv /\ EndInv /\ FinishInv /\ CallsInv /\ SaidInv

IsCall(c) == c.kind \in CallKinds

\* The chunks of the call k, and those of them with the part p.
CallChunks(k) == {c \in Chunks : IsCall(c) /\ c.index = k}
PartChunks(k, p) == {c \in Chunks : IsCall(c) /\ c.index = k /\ c.part = p}

\* Some chunk of cs is in D.
Has(cs, D) == \E i \in DOMAIN cs : cs[i] \in D

\* The parts are in order and are those that the chunks cs brought for the call k.
PartsOf(cs, k, parts) ==
  /\ parts \in Seq(Nat)
  /\ \A a, b \in DOMAIN parts : a < b => parts[a] < parts[b]
  /\ \A p \in Nat : (\E j \in DOMAIN parts : parts[j] = p) <=> Has(cs, PartChunks(k, p))

\* f has the calls of the chunks cs, and their parts.
CallMap(cs, f) ==
  /\ \A k : k \in DOMAIN f <=> Has(cs, CallChunks(k))
  /\ \A k \in DOMAIN f : PartsOf(cs, k, f[k])

\* The fields of an aggregate.
Shaped(a) == a = [content |-> a.content, finish |-> a.finish, tools |-> a.tools,
                  usage |-> a.usage, complete |-> a.complete]

\* a is an aggregate of the chunks cs.
AggregateOf(cs, a) ==
  /\ Shaped(a)
  /\ a.content = Said(cs)
  /\ a.complete <=> Has(cs, {Chunk("done")})
  /\ a.finish # "" => Has(cs, {Finish(a.finish)})
  /\ CallMap(cs, a.tools)

Aggregating == INSTANCE FoldLemmas WITH Step <- applyAggregateChunk, Start <- Nothing, Good <- AggregateOf

\* The aggregate is that of the chunks, and no call's part is newer than the last event.
AggregateInv ==
  /\ AggregateOf(out, Aggregating!Folded(out))
  /\ \A i \in DOMAIN out : IsCall(out[i]) => out[i].part <= events

-----------------------------------------------------------------------------
(* FlattenSeq of a sequence that grows. *)

\* g is the function that FlattenSeq defines, over the first n members of e.
Flat(e, n, g) == g = [i \in 1..n |-> IF i = 1 THEN e[i] ELSE g[i - 1] \o e[i]]

\* There is one for each n ...
LEMMA FlatExists ==
  ASSUME NEW e, NEW n \in Nat
  PROVE  \E g : Flat(e, n, g)
<1> DEFINE T == {k \in Nat : \E g : Flat(e, k, g)}
<1>1. 0 \in T
  <2>1. Flat(e, 0, <<>>)
    BY DEF Flat
  <2> QED
    BY <2>1
<1>2. ASSUME NEW k \in T PROVE k + 1 \in T
  <2>1. PICK g : Flat(e, k, g)
    OBVIOUS
  <2> DEFINE h == [i \in 1..(k + 1) |->
                     IF i \in 1..k THEN g[i]
                     ELSE IF i = 1 THEN e[i] ELSE g[i - 1] \o e[i]]
  <2>2. Flat(e, k + 1, h)
    <3>1. ASSUME NEW i \in 1..(k + 1)
          PROVE  h[i] = IF i = 1 THEN e[i] ELSE h[i - 1] \o e[i]
      <4>1. CASE i \in 1..k
        <5>1. h[i] = IF i = 1 THEN e[i] ELSE g[i - 1] \o e[i]
          BY <2>1, <4>1 DEF Flat
        <5>2. i # 1 => h[i - 1] = g[i - 1]
          BY <4>1
        <5> QED
          BY <5>1, <5>2
      <4>2. CASE i \notin 1..k
        <5>1. i # 1 => h[i - 1] = g[i - 1]
          BY <4>2
        <5> QED
          BY <4>2, <5>1
      <4> QED
        BY <4>1, <4>2
    <3>2. h = [i \in 1..(k + 1) |-> h[i]]
      OBVIOUS
    <3> HIDE DEF h
    <3> QED
      BY <3>1, <3>2 DEF Flat
  <2> QED
    BY <2>2
<1>3. T = Nat
  <2> HIDE DEF T
  <2>1. T \subseteq Nat
    BY DEF T
  <2> QED
    BY <1>1, <1>2, <2>1, Aggregating!Induct
<1> QED
  BY <1>3

\* ... and no other, whatever follows in the sequence.
LEMMA FlatAgree ==
  ASSUME NEW d, NEW e, NEW m \in Nat, NEW n \in Nat, NEW g, NEW h, m <= n,
         \A i \in 1..m : d[i] = e[i], Flat(d, m, g), Flat(e, n, h)
  PROVE  \A i \in 1..m : g[i] = h[i]
<1> DEFINE T == {k \in Nat : k \in 1..m => g[k] = h[k]}
<1>1. 0 \in T
  OBVIOUS
<1>2. ASSUME NEW k \in T PROVE k + 1 \in T
  <2>1. CASE k + 1 \in 1..m
    <3>1. g[k + 1] = IF k + 1 = 1 THEN d[k + 1] ELSE g[(k + 1) - 1] \o d[k + 1]
      BY <2>1 DEF Flat
    <3>2. h[k + 1] = IF k + 1 = 1 THEN e[k + 1] ELSE h[(k + 1) - 1] \o e[k + 1]
      <4>1. k + 1 \in 1..n
        BY <2>1
      <4> QED
        BY <4>1 DEF Flat
    <3>3. (k + 1) - 1 = k /\ (k + 1 # 1 => g[k] = h[k])
      BY <2>1
    <3> QED
      BY <2>1, <3>1, <3>2, <3>3
  <2> QED
    BY <2>1
<1>3. T = Nat
  <2> HIDE DEF T
  <2>1. T \subseteq Nat
    BY DEF T
  <2> QED
    BY <1>1, <1>2, <2>1, Aggregating!Induct
<1> QED
  BY <1>3

\* What FlattenSeq makes of a sequence without members ...
LEMMA FlattenEmpty == FlattenSeq(<<>>) = <<>>
  BY DEF FlattenSeq

\* ... of one that has some ...
LEMMA FlattenAt ==
  ASSUME NEW S, NEW ss \in Seq(S), ss # <<>>
  PROVE  \E g : Flat(ss, Len(ss), g) /\ FlattenSeq(ss) = g[Len(ss)]
<1>1. Len(ss) \in Nat /\ Len(ss) # 0
  OBVIOUS
<1>2. FlattenSeq(ss) = (CHOOSE f : Flat(ss, Len(ss), f))[Len(ss)]
  BY <1>1 DEF FlattenSeq, Flat
<1>3. \E f : Flat(ss, Len(ss), f)
  BY <1>1, FlatExists
<1>4. Flat(ss, Len(ss), CHOOSE f : Flat(ss, Len(ss), f))
  BY <1>3, Zenon
<1> QED
  BY <1>2, <1>4, Zenon

\* ... and of one that gets another member.
LEMMA FlattenAppend ==
  ASSUME NEW S, NEW ss \in Seq(S), NEW s \in S
  PROVE  FlattenSeq(Append(ss, s)) = (IF ss = <<>> THEN s ELSE FlattenSeq(ss) \o s)
<1>1. PICK tt : tt = Append(ss, s)
  OBVIOUS
<1>2. PICK k \in Nat : k = Len(ss)
  OBVIOUS
<1>3. /\ tt \in Seq(S) /\ tt # <<>> /\ Len(tt) = k + 1
      /\ tt[k + 1] = s /\ \A i \in 1..k : ss[i] = tt[i]
  BY <1>1, <1>2
<1>4. PICK after : Flat(tt, k + 1, after) /\ FlattenSeq(tt) = after[k + 1]
  BY <1>3, FlattenAt
<1>5. after[k + 1] = IF k + 1 = 1 THEN s ELSE after[k] \o s
  <2>1. k + 1 \in 1..(k + 1) /\ (k + 1) - 1 = k
    BY <1>2
  <2> QED
    BY <1>3, <1>4, <2>1 DEF Flat
<1>6. CASE ss = <<>>
  BY <1>1, <1>2, <1>4, <1>5, <1>6
<1>7. CASE ss # <<>>
  <2>1. PICK before : Flat(ss, k, before) /\ FlattenSeq(ss) = before[k]
    BY <1>2, <1>7, FlattenAt
  <2>2. k + 1 \in Nat /\ k <= k + 1 /\ k \in 1..k /\ k + 1 # 1
    BY <1>2, <1>7
  <2>3. \A i \in 1..k : before[i] = after[i]
    <3>1. PICK N \in Nat : N = k + 1
      BY <2>2
    <3>2. k <= N /\ (\A i \in 1..k : ss[i] = tt[i]) /\ Flat(ss, k, before) /\ Flat(tt, N, after)
      BY <1>2, <1>3, <1>4, <2>1, <2>2, <3>1
    <3> QED
      BY ONLY k \in Nat, <3>2, <3>1, FlatAgree
  <2> QED
    BY <1>1, <1>4, <1>5, <1>7, <2>1, <2>2, <2>3
<1> QED
  BY <1>6, <1>7

-----------------------------------------------------------------------------
(* What the steps do to the chunks. *)

\* One chunk, or one and another that waits.
LEMMA HandsOne ==
  ASSUME NEW c, Hands(<<c>>)
  PROVE  out' = Append(out, c) /\ pending' = <<>>
  BY DEF Hands, Returns

\* A chunk that goes out while another one waits.
LEMMA HandsTwo ==
  ASSUME NEW c, NEW d, Hands(<<c, d>>)
  PROVE  out' = Append(out, c) /\ pending' = <<d>>
  BY DEF Hands, Returns

\* The three things a text may do to a fallback that has emitted no calls.
Keeps(s) ==
  /\ buf' = buf \o s
  /\ state' \in {"idle", "buffering"}
  /\ state' = "idle" => buf' = <<"Tool">>
  /\ UNCHANGED <<pending, out>>

Flushes(b) ==
  /\ out' = Append(out, Text(b))
  /\ pending' = <<>> /\ buf' = <<>> /\ state' = "idle"

Emits ==
  /\ out' = Append(out, Call("calls", 0, 0))
  /\ pending' = <<>> /\ buf' = <<>> /\ state' = "emitted"

\* A beginning of the prefix that an idle fallback keeps without buffering is its first piece.
LEMMA PrefixBegun ==
  ASSUME NEW b \in Seq(Pieces), b # <<>>, isToolCallsPrefix(b), ~bufferMatchesPrefix(b)
  PROVE  b = <<"Tool">>
<1>1. PICK n \in Nat : n = Len(b)
  OBVIOUS
<1>2. Prefix \in Seq(Pieces) /\ Len(Prefix) = 2 /\ Prefix[1] = "Tool"
  <2>1. "Tool" \in Pieces /\ " calls:" \in Pieces
    BY DEF Pieces
  <2>2. Prefix \in Seq(Pieces)
    <3>1. \A a, c \in Pieces : <<a, c>> \in Seq(Pieces)
      OBVIOUS
    <3> QED
      BY <2>1, <3>1, Zenon DEF Prefix
  <2>3. Len(Prefix) = 2
    BY DEF Prefix
  <2>4. Prefix[1] = "Tool"
    BY DEF Prefix
  <2> QED
    BY <2>2, <2>3, <2>4
<1>3. n # 0 /\ n <= 2 /\ SubSeq(b, 1, n) = SubSeq(Prefix, 1, n)
  BY <1>1, <1>2 DEF isToolCallsPrefix, IsPrefix
<1>4. CASE n = 2
  <2>1. SubSeq(Prefix, 1, 2) = SubSeq(b, 1, 2)
    BY <1>3, <1>4
  <2>2. IsPrefix(Prefix, b)
    BY <1>1, <1>2, <1>4, <2>1 DEF IsPrefix
  <2>3. ~ (Len(b) > Len(Prefix))
    BY <1>1, <1>2, <1>4
  <2> QED
    BY <2>2, <2>3 DEF bufferMatchesPrefix
<1>5. CASE n = 1
  <2>1. SubSeq(b, 1, 1) = SubSeq(Prefix, 1, 1)
    BY <1>3, <1>5
  <2>2. SubSeq(b, 1, 1)[1] = b[1] /\ SubSeq(Prefix, 1, 1)[1] = Prefix[1]
    BY <1>1, <1>2, <1>5
  <2>3. b[1] = "Tool"
    BY <1>2, <2>1, <2>2
  <2>4. "Tool" \in Pieces
    BY DEF Pieces
  <2>5. <<"Tool">> \in Seq(Pieces) /\ Len(<<"Tool">>) = 1 /\ <<"Tool">>[1] = "Tool"
    BY <2>4
  <2>6. \A i \in 1..Len(b) : b[i] = <<"Tool">>[i]
    BY <1>1, <1>5, <2>3, <2>5
  <2> QED
    BY <1>1, <1>5, <2>5, <2>6, SeqEqual
<1>6. n = 1 \/ n = 2
  BY <1>3
<1> QED
  BY <1>4, <1>5, <1>6

\* A text while no calls are made.
LEMMA TextEffect ==
  ASSUME TypeOK, HoldInv, NEW s \in Deltas, TextWhileBuffering(s) \/ TextWhileIdle(s)
  PROVE  /\ pending = <<>> /\ ~savedErr /\ ~done /\ ~terminal /\ state # "emitted"
         /\ received' = received \o s /\ events' = events + 1 /\ events < MaxEvents
         /\ UNCHANGED <<terminal, doneRead, savedErr, done, result>>
         /\ Keeps(s) \/ Flushes(buf \o s) \/ Emits
<1>1. /\ pending = <<>> /\ ~savedErr /\ ~done /\ ~terminal /\ state # "emitted"
      /\ received' = received \o s /\ events' = events + 1 /\ events < MaxEvents
      /\ UNCHANGED <<terminal, doneRead, savedErr, done, result>>
  BY DEF TextWhileBuffering, TextWhileIdle, NextEvent, Inner
<1>2. s \in Seq(Pieces) /\ s # <<>> /\ buf \in Seq(Pieces)
  BY DeltasAssumption DEF TypeOK
<1>3. buf \o s \in Seq(Pieces) /\ buf \o s # <<>>
  BY <1>2
<1>4. ASSUME FlushText(buf \o s) PROVE Flushes(buf \o s)
  BY <1>4, HandsOne DEF FlushText, Flushes
<1>5. ASSUME EmitCalls PROVE Emits
  BY <1>5, HandsOne DEF EmitCalls, Emits
<1>6. CASE TextWhileBuffering(s)
  <2>1. ASSUME KeepBuffering(buf \o s, state), state = "buffering" PROVE Keeps(s)
    BY <2>1 DEF KeepBuffering, Keeps
  <2> QED
    BY <1>1, <1>4, <1>5, <1>6, <2>1 DEF TextWhileBuffering
<1>7. CASE TextWhileIdle(s)
  <2>1. ASSUME KeepBuffering(buf \o s, "buffering") PROVE Keeps(s)
    BY <2>1 DEF KeepBuffering, Keeps
  <2>2. ASSUME KeepBuffering(buf \o s, state), state = "idle",
               isToolCallsPrefix(buf \o s), ~bufferMatchesPrefix(buf \o s)
        PROVE  Keeps(s)
    <3>1. buf \o s = <<"Tool">>
      BY <1>3, <2>2, PrefixBegun
    <3> QED
      BY <2>2, <3>1 DEF KeepBuffering, Keeps
  <2> QED
    BY <1>1, <1>4, <1>5, <1>7, <2>1, <2>2 DEF TextWhileIdle
<1> QED
  BY <1>1, <1>6, <1>7

\* The finish chunk, with text flushed before it or without.
Finishes ==
  \/ state = "buffering" /\ out' = Append(out, Text(buf)) /\ pending' = <<Finish("stop")>>
     /\ buf' = <<>> /\ state' = "idle"
  \/ state # "buffering" /\ UNCHANGED <<buf, pending, state>>
     /\ out' = Append(out, Finish(IF state = "emitted" THEN "tool_calls" ELSE "stop"))

\* The event that ends the completion.
LEMMA TerminalEffect ==
  ASSUME HoldInv, Terminal
  PROVE  /\ pending = <<>> /\ ~savedErr /\ ~done /\ ~terminal /\ terminal'
         /\ events' = events + 1 /\ events < MaxEvents
         /\ UNCHANGED <<doneRead, savedErr, done, received, result>>
         /\ Finishes
<1>1. /\ pending = <<>> /\ ~savedErr /\ ~done /\ ~terminal /\ terminal'
      /\ events' = events + 1 /\ events < MaxEvents
      /\ UNCHANGED <<doneRead, savedErr, done, received, result>>
  BY DEF Terminal, NextEvent, Inner
<1>2. FlushFirst <=> state = "buffering"
  BY DEF FlushFirst, HoldInv
<1>3. CASE state = "buffering"
  <2>1. Hands(<<Text(buf), Finish("stop")>>) /\ buf' = <<>> /\ state' = "idle"
    BY <1>2, <1>3 DEF Terminal
  <2> QED
    BY <1>1, <1>3, <2>1, HandsTwo DEF Finishes
<1>4. CASE state # "buffering"
  BY <1>1, <1>2, <1>4 DEF Terminal, Returns, Finishes
<1> QED
  BY <1>3, <1>4

\* The marker: by then nothing is held back.
LEMMA DoneEffect ==
  ASSUME HoldInv, Done
  PROVE  /\ pending = <<>> /\ ~savedErr /\ ~done /\ terminal /\ done' /\ doneRead'
         /\ out' = Append(out, Chunk("done"))
         /\ UNCHANGED <<terminal, savedErr, events, received, result, buf, pending, state>>
  BY DEF Done, Inner, HoldInv, FlushFirst, Returns

\* An error, which waits for the text before it.
LEMMA ErrorEffect ==
  ASSUME HoldInv, InnerError
  PROVE  /\ pending = <<>> /\ ~savedErr /\ ~done /\ ~terminal
         /\ UNCHANGED <<terminal, doneRead, done, events, received>>
         /\ \/ Flushes(buf) /\ savedErr' /\ UNCHANGED result /\ state = "buffering"
            \/ state # "buffering" /\ result' = "error" /\ UNCHANGED <<out, pending, buf, state, savedErr>>
<1>1. /\ pending = <<>> /\ ~savedErr /\ ~done /\ ~terminal
      /\ UNCHANGED <<terminal, doneRead, done, events, received>>
  BY DEF InnerError, Inner
<1>2. FlushFirst <=> state = "buffering"
  BY DEF FlushFirst, HoldInv
<1>3. CASE state = "buffering"
  <2>1. FlushText(buf) /\ savedErr' /\ UNCHANGED result
    BY <1>2, <1>3 DEF InnerError
  <2>2. Flushes(buf)
    BY <2>1, HandsOne DEF FlushText, Flushes
  <2> QED
    BY <1>1, <1>3, <2>1, <2>2
<1>4. CASE state # "buffering"
  BY <1>1, <1>2, <1>4 DEF InnerError
<1> QED
  BY <1>3, <1>4

\* A call that comes as an event.
LEMMA NativeEffect ==
  ASSUME TypeOK, HoldInv, NEW i \in Indices, NativeCall(i)
  PROVE  /\ pending = <<>> /\ ~savedErr /\ ~done /\ ~terminal
         /\ UNCHANGED <<terminal, doneRead, pending, savedErr, done, received, result>>
         /\ events' = events + 1 /\ events < MaxEvents
         /\ state' = "emitted" /\ buf' \in {<<>>, <<"Tool">>}
         /\ out' = Append(out, Call("native", i, events'))
  BY DEF NativeCall, NextEvent, Inner, HoldInv, Returns

\* What waits is handed out.
LEMMA PendingEffect ==
  ASSUME ChunksOK, EndInv, ReadPending
  PROVE  /\ out' = Append(out, Finish("stop")) /\ pending' = <<>> /\ pending = <<Finish("stop")>>
         /\ terminal /\ ~done /\ state = "idle"
         /\ UNCHANGED <<terminal, doneRead, state, buf, savedErr, done, events, received, result>>
<1>1. pending = <<Finish("stop")>>
  BY DEF ReadPending, ChunksOK
<1>2. Hands(<<Finish("stop")>>)
  BY <1>1 DEF ReadPending
<1> QED
  BY <1>1, <1>2, HandsOne DEF ReadPending, EndInv

-----------------------------------------------------------------------------
(* What another chunk does to the parts of the invariant. *)

\* The chunks the steps make, and their kinds.
LEMMA ChunkKinds ==
  /\ \A b \in Seq(Pieces) : Text(b) \in Chunks /\ Text(b).kind = "text" /\ Text(b).text = b
  /\ \A r \in {"stop", "tool_calls"} :
       Finish(r) \in Chunks /\ Finish(r).kind = "finish" /\ Finish(r).reason = r
  /\ \A k \in {"usage", "reasoning", "done"} : Chunk(k) \in Chunks /\ Chunk(k).kind = k
  /\ \A k \in CallKinds, i, p \in Nat : Call(k, i, p) \in Chunks /\ Call(k, i, p).kind = k
  BY DEF Text, Finish, Chunk, Call, Chunks, CallKinds

\* The members of a sequence of chunks that got another one.
LEMMA Appended ==
  ASSUME out \in Seq(Chunks), NEW c \in Chunks, out' = Append(out, c)
  PROVE  /\ out' \in Seq(Chunks) /\ Len(out) \in Nat /\ Len(out') = Len(out) + 1
         /\ DOMAIN out = 1..Len(out) /\ DOMAIN out' = 1..(Len(out) + 1)
         /\ \A i \in 1..Len(out) : out'[i] = out[i]
         /\ out'[Len(out) + 1] = c
         /\ \A i \in DOMAIN out' : i \in DOMAIN out \/ i = Len(out) + 1
  OBVIOUS

\* While the stream has not ended, or its finish chunk waits, other chunks disturb no order.
LEMMA PlainChunk ==
  ASSUME out \in Seq(Chunks), NEW c \in Chunks, out' = Append(out, c),
         c.kind \notin {"finish", "done"}, FinishInv, ~terminal, ~done,
         ~done', terminal' => pending' # <<>>
  PROVE  FinishInv'
<1>1. \A i \in DOMAIN out : out[i].kind \notin {"finish", "done"}
  BY DEF FinishInv
<1>2. \A i \in DOMAIN out' : out'[i].kind \notin {"finish", "done"}
  BY <1>1, Appended
<1> QED
  BY <1>2 DEF FinishInv

\* The finish chunk itself.
LEMMA FinishChunk ==
  ASSUME out \in Seq(Chunks), NEW c \in Chunks, out' = Append(out, c), c.kind = "finish",
         FinishInv, ~done, terminal => pending # <<>>, ~done', terminal', pending' = <<>>
  PROVE  FinishInv'
<1>1. \A i \in DOMAIN out : out[i].kind \notin {"finish", "done"}
  BY DEF FinishInv
<1>2. \A i \in DOMAIN out' : out'[i].kind \in {"finish", "done"} => i = Len(out')
  BY <1>1, Appended
<1>3. Len(out') \in DOMAIN out' /\ out'[Len(out')].kind = "finish"
  BY Appended
<1>4. \A i \in DOMAIN out' : out'[i].kind # "done"
  BY <1>2, <1>3
<1> QED
  BY <1>2, <1>3, <1>4 DEF FinishInv

\* What the fallback's state has to do with a chunk that is handed out.
LEMMA CallsChunk ==
  ASSUME out \in Seq(Chunks), NEW c \in Chunks, out' = Append(out, c), CallsInv,
         c.kind \in {"text", "calls"} => state # "emitted",
         state' = "emitted" <=> state = "emitted" \/ c.kind \in CallKinds,
         c.kind = "finish" => c.reason = (IF state' = "emitted" THEN "tool_calls" ELSE "stop"),
         c.kind \in CallKinds => \A i \in DOMAIN out : out[i].kind # "finish"
  PROVE  CallsInv'
<1>1. state' = "emitted" <=> \E i \in DOMAIN out' : out'[i].kind \in CallKinds
  <2>1. state = "emitted" => \E i \in DOMAIN out' : out'[i].kind \in CallKinds
    <3>1. ASSUME NEW i \in DOMAIN out, out[i].kind \in CallKinds
          PROVE  i \in DOMAIN out' /\ out'[i].kind \in CallKinds
      BY <3>1, Appended
    <3> QED
      BY <3>1 DEF CallsInv
  <2>2. c.kind \in CallKinds => \E i \in DOMAIN out' : out'[i].kind \in CallKinds
    <3>1. Len(out) + 1 \in DOMAIN out' /\ out'[Len(out) + 1] = c
      BY Appended
    <3> QED
      BY <3>1
  <2>3. ASSUME NEW i \in DOMAIN out', out'[i].kind \in CallKinds
        PROVE  state = "emitted" \/ c.kind \in CallKinds
    BY <2>3, Appended DEF CallsInv
  <2> QED
    BY <2>1, <2>2, <2>3
<1>2. ASSUME NEW i \in DOMAIN out', out'[i].kind = "finish"
      PROVE  out'[i].reason = (IF state' = "emitted" THEN "tool_calls" ELSE "stop")
  <2>1. CASE i \in DOMAIN out
    <3>1. out'[i] = out[i]
      BY <2>1, Appended
    <3>2. c.kind \notin CallKinds
      BY <1>2, <2>1, <3>1
    <3> QED
      BY <1>2, <2>1, <3>1, <3>2 DEF CallsInv
  <2>2. CASE i = Len(out) + 1
    BY <1>2, <2>2, Appended
  <2> QED
    BY <2>1, <2>2, Appended
<1>3. ASSUME NEW i \in DOMAIN out', NEW j \in DOMAIN out', i < j
      PROVE  /\ out'[i].kind = "calls" => out'[j].kind # "calls"
             /\ out'[i].kind = "native" => out'[j].kind # "calls"
             /\ out'[i].kind \in {"calls", "native"} => out'[j].kind # "text"
  <2>1. i \in DOMAIN out /\ out'[i] = out[i]
    BY <1>3, Appended
  <2>2. CASE j \in DOMAIN out
    <3>1. out'[j] = out[j]
      BY <2>2, Appended
    <3> QED
      BY <1>3, <2>1, <2>2, <3>1 DEF CallsInv, CallsEndText
  <2>3. CASE j = Len(out) + 1
    <3>1. out'[j] = c
      BY <2>3, Appended
    <3>2. out[i].kind \in CallKinds => state = "emitted"
      BY <2>1 DEF CallsInv
    <3> QED
      BY <2>1, <3>1, <3>2 DEF CallKinds
  <2> QED
    BY <2>2, <2>3, Appended
<1> QED
  BY <1>1, <1>2, <1>3 DEF CallsInv, CallsEndText

\* The text of the chunks so far.
TextOf(c) == IF c.kind = "text" THEN c.text ELSE <<>>

\* No chunk, no text.
LEMMA SaidEmpty == Said(<<>>) = <<>>
<1>1. [i \in DOMAIN <<>> |-> IF <<>>[i].kind = "text" THEN <<>>[i].text ELSE <<>>] = <<>>
  OBVIOUS
<1> QED
  BY <1>1, FlattenEmpty DEF Said

\* A chunk adds its own text to what was said.
LEMMA SaidAppend ==
  ASSUME NEW cs \in Seq(Chunks), NEW c \in Chunks, Said(cs) \in Seq(Pieces)
  PROVE  Said(Append(cs, c)) = Said(cs) \o TextOf(c)
<1> DEFINE texts == [i \in DOMAIN cs |-> TextOf(cs[i])]
           more  == [i \in DOMAIN Append(cs, c) |-> TextOf(Append(cs, c)[i])]
<1>1. \A d \in Chunks : TextOf(d) \in Seq(Pieces)
  BY DEF TextOf, Chunks
<1>2. texts \in Seq(Seq(Pieces))
  <2>1. DOMAIN cs = 1..Len(cs) /\ Len(cs) \in Nat /\ \A i \in DOMAIN cs : cs[i] \in Chunks
    OBVIOUS
  <2>2. \A i \in 1..Len(cs) : TextOf(cs[i]) \in Seq(Pieces)
    BY <1>1, <2>1
  <2>3. texts = [i \in 1..Len(cs) |-> TextOf(cs[i])]
    BY <2>1
  <2> QED
    BY <2>1, <2>2, <2>3
<1>3. more = Append(texts, TextOf(c))
  OBVIOUS
<1>4. Said(cs) = FlattenSeq(texts) /\ Said(Append(cs, c)) = FlattenSeq(more)
  BY DEF Said, TextOf
<1>5. FlattenSeq(Append(texts, TextOf(c))) =
        (IF texts = <<>> THEN TextOf(c) ELSE FlattenSeq(texts) \o TextOf(c))
  <2> HIDE DEF texts
  <2> QED
    BY <1>1, <1>2, FlattenAppend
<1>6. texts = <<>> => Said(cs) \o TextOf(c) = TextOf(c)
  <2>1. texts = <<>> => Said(cs) = <<>>
    BY <1>4, FlattenEmpty
  <2> QED
    BY <1>1, <2>1
<1> QED
  BY <1>3, <1>4, <1>5, <1>6

-----------------------------------------------------------------------------
(* The steps. *)

\* A fresh handle has said and kept nothing.
LEMMA InitInv == Init => Inv
<1> SUFFICES ASSUME Init PROVE Inv
  OBVIOUS
<1> USE DEF Init
<1>1. TypeOK
  <2>1. Kinds(out) = {} /\ Kinds(pending) = {}
    BY DEF Kinds
  <2>2. buf \in Seq(Pieces) /\ received \in Seq(Pieces) /\ events \in 0..MaxEvents
    BY DeltasAssumption
  <2> QED
    BY <2>1, <2>2 DEF TypeOK
<1>2. ChunksOK /\ EndInv
  <2>1. <<>> \in Seq(Chunks)
    OBVIOUS
  <2>2. EndInv
    BY DEF EndInv
  <2> QED
    BY <2>1, <2>2 DEF ChunksOK
<1>3. HoldInv
  BY DeltasAssumption DEF HoldInv, HeldBackBounded
<1>4. FinishInv /\ CallsInv
  <2>1. DOMAIN out = {}
    OBVIOUS
  <2> QED
    BY <2>1 DEF FinishInv, CallsInv, CallsEndText
<1>5. SaidInv
  <2>1. Said(out) = <<>> /\ <<>> \in Seq(Pieces) /\ <<>> \o <<>> = <<>>
    BY SaidEmpty
  <2> QED
    BY <2>1 DEF SaidInv
<1> QED
  BY <1>1, <1>2, <1>3, <1>4, <1>5 DEF Inv

\* The kinds of chunks.
LEMMA KindsTyped ==
  ASSUME NEW cs \in Seq(Chunks)
  PROVE  Kinds(cs) \subseteq {"text", "calls", "native", "usage", "reasoning", "finish", "done"}
<1>1. \A i \in DOMAIN cs : cs[i] \in Chunks
  OBVIOUS
<1>2. \A c \in Chunks : c.kind \in {"text", "calls", "native", "usage", "reasoning", "finish", "done"}
  BY DEF Chunks
<1> QED
  BY <1>1, <1>2 DEF Kinds

\* What may wait is a sequence of chunks.
LEMMA PendingTyped ==
  ASSUME NEW cs \in {<<>>, <<Finish("stop")>>}
  PROVE  cs \in Seq(Chunks)
<1>1. Finish("stop") \in Chunks
  BY ChunkKinds
<1>2. <<>> \in Seq(Chunks) /\ <<Finish("stop")>> \in Seq(Chunks)
  BY <1>1
<1> QED
  BY <1>2

\* An idle fallback's text, with what came before it, is in order even when it is long.
LEMMA KeptIsBounded ==
  ASSUME TypeOK, HoldInv, NEW s \in Deltas,
         buf' = buf \o s, state = "idle" \/ Len(buf') <= MaxBuf
  PROVE  HeldBackBounded'
<1>1. CASE state = "idle"
  <2>1. buf \in {<<>>, <<"Tool">>}
    BY <1>1 DEF HoldInv
  <2>2. \E b \in {<<>>, <<"Tool">>}, t \in Deltas : buf' = b \o t
    BY <2>1
  <2> QED
    BY <2>2 DEF HeldBackBounded
<1>2. CASE Len(buf') <= MaxBuf
  BY <1>2 DEF HeldBackBounded
<1> QED
  BY <1>1, <1>2

\* A text while no calls are made.
LEMMA StepText ==
  ASSUME Inv, result = "reading", NEW s \in Deltas, TextWhileBuffering(s) \/ TextWhileIdle(s)
  PROVE  Inv'
<1> USE DEF Inv
<1>1. /\ pending = <<>> /\ ~savedErr /\ ~done /\ ~terminal /\ state # "emitted"
      /\ received' = received \o s /\ events' = events + 1 /\ events < MaxEvents
      /\ UNCHANGED <<terminal, doneRead, savedErr, done, result>>
      /\ Keeps(s) \/ Flushes(buf \o s) \/ Emits
  BY TextEffect
<1>2. s \in Seq(Pieces) /\ buf \in Seq(Pieces) /\ buf \o s \in Seq(Pieces) /\ buf \o s # <<>>
  BY DeltasAssumption DEF TypeOK
<1>3. Said(out) \in Seq(Pieces) /\ received = Said(out) \o buf /\ received' = Said(out) \o (buf \o s)
  <2>1. Said(out) \in Seq(Pieces) /\ received = Said(out) \o buf
    BY <1>1 DEF SaidInv
  <2>2. (Said(out) \o buf) \o s = Said(out) \o (buf \o s)
    BY <1>2, <2>1, ConcatAssociative
  <2> QED
    BY <1>1, <2>1, <2>2
<1>4. pending' = <<>> /\ EndInv'
  BY <1>1 DEF Keeps, Flushes, Emits, EndInv
<1>5. ASSUME ChunksOK', buf' \in Seq(Pieces), state' \in {"idle", "buffering", "emitted"}
      PROVE  TypeOK'
  <2>1. received' \in Seq(Pieces) /\ events' \in 0..MaxEvents
    BY <1>1, <1>2, DeltasAssumption DEF TypeOK
  <2>2. (Kinds(out) \union Kinds(pending) \subseteq
           {"text", "calls", "native", "usage", "reasoning", "finish", "done"})'
    BY <1>5, KindsTyped, PendingTyped DEF ChunksOK
  <2>3. ({terminal, doneRead, savedErr, done} \subseteq BOOLEAN)' /\ (result \in {"reading", "eof", "error"})'
    BY <1>1 DEF TypeOK
  <2> QED
    BY <1>5, <2>1, <2>2, <2>3 DEF TypeOK
<1>6. CASE Keeps(s)
  <2>1. ChunksOK' /\ FinishInv' /\ CallsInv'
    BY <1>1, <1>6 DEF Keeps, ChunksOK, FinishInv, CallsInv, CallsEndText
  <2>2. state = "idle" \/ Len(buf') <= MaxBuf
    BY <1>6 DEF Keeps, TextWhileBuffering, TextWhileIdle, FlushText, EmitCalls
  <2>3. HoldInv'
    <3>1. HeldBackBounded'
      BY <1>6, <2>2, KeptIsBounded DEF Keeps
    <3> QED
      BY <1>1, <1>2, <1>6, <3>1 DEF Keeps, HoldInv
  <2>4. SaidInv'
    BY <1>1, <1>3, <1>6 DEF Keeps, SaidInv
  <2>5. TypeOK'
    BY <1>2, <1>5, <1>6, <2>1 DEF Keeps
  <2> QED
    BY <1>4, <2>1, <2>3, <2>4, <2>5
<1>7. CASE Flushes(buf \o s)
  <2> DEFINE c == Text(buf \o s)
  <2>1. c \in Chunks /\ c.kind = "text" /\ c.text = buf \o s
    BY <1>2, ChunkKinds
  <2>2. out' = Append(out, c) /\ buf' = <<>> /\ state' = "idle"
    BY <1>7 DEF Flushes
  <2> HIDE DEF c
  <2>3. ChunksOK'
    BY <1>4, <2>1, <2>2 DEF ChunksOK
  <2>4. FinishInv'
    BY <1>1, <1>4, <2>1, <2>2, PlainChunk DEF ChunksOK
  <2>5. CallsInv'
    BY <1>1, <2>1, <2>2, CallsChunk DEF ChunksOK, CallKinds
  <2>6. HoldInv' /\ TypeOK'
    <3>1. HoldInv'
      BY <2>2, DeltasAssumption DEF HoldInv, HeldBackBounded
    <3> QED
      BY <1>5, <2>2, <2>3, <3>1
  <2>7. SaidInv'
    <3>1. Said(out') = Said(out) \o (buf \o s)
      BY <1>3, <2>1, <2>2, SaidAppend DEF TextOf, ChunksOK
    <3>2. received' = Said(out') \o <<>> /\ Said(out') \in Seq(Pieces)
      BY <1>2, <1>3, <3>1
    <3> QED
      BY <2>2, <3>2 DEF SaidInv
  <2> QED
    BY <1>4, <2>3, <2>4, <2>5, <2>6, <2>7
<1>8. CASE Emits
  <2> DEFINE c == Call("calls", 0, 0)
  <2>1. c \in Chunks /\ c.kind = "calls"
    BY ChunkKinds DEF CallKinds
  <2>2. out' = Append(out, c) /\ buf' = <<>> /\ state' = "emitted"
    BY <1>8 DEF Emits
  <2> HIDE DEF c
  <2>3. ChunksOK'
    BY <1>4, <2>1, <2>2 DEF ChunksOK
  <2>4. FinishInv'
    BY <1>1, <1>4, <2>1, <2>2, PlainChunk DEF ChunksOK
  <2>5. CallsInv'
    <3>1. \A i \in DOMAIN out : out[i].kind # "finish"
      BY <1>1 DEF FinishInv
    <3> QED
      BY <1>1, <2>1, <2>2, <3>1, CallsChunk DEF ChunksOK, CallKinds
  <2>6. HoldInv' /\ TypeOK'
    <3>1. HoldInv'
      BY <2>2, DeltasAssumption DEF HoldInv, HeldBackBounded
    <3> QED
      BY <1>5, <2>2, <2>3, <3>1
  <2>7. SaidInv'
    <3>1. Said(out') = Said(out)
      <4>1. Said(out') = Said(out) \o <<>>
        BY <1>3, <2>1, <2>2, SaidAppend DEF TextOf, ChunksOK
      <4> QED
        BY <1>3, <4>1
    <3>2. \E rest \in Seq(Pieces) : received' = Said(out') \o rest
      BY <1>2, <1>3, <3>1
    <3> QED
      BY <1>3, <2>2, <3>1, <3>2 DEF SaidInv
  <2> QED
    BY <1>4, <2>3, <2>4, <2>5, <2>6, <2>7
<1> QED
  BY <1>1, <1>6, <1>7, <1>8

\* What every step that is no text leaves typed.
LEMMA StepTyped ==
  ASSUME TypeOK, ChunksOK', buf' \in Seq(Pieces), received' \in Seq(Pieces), events' \in 0..MaxEvents,
         terminal' \in BOOLEAN, doneRead' \in BOOLEAN, savedErr' \in BOOLEAN, done' \in BOOLEAN,
         state' \in {"idle", "buffering", "emitted"}, result' \in {"reading", "eof", "error"}
  PROVE  TypeOK'
<1>1. (Kinds(out) \union Kinds(pending) \subseteq
         {"text", "calls", "native", "usage", "reasoning", "finish", "done"})'
  BY KindsTyped, PendingTyped DEF ChunksOK
<1>2. ({terminal, doneRead, savedErr, done} \subseteq BOOLEAN)'
  OBVIOUS
<1> QED
  BY <1>1, <1>2 DEF TypeOK

\* A chunk without text says nothing.
LEMMA SaysNothing ==
  ASSUME ChunksOK, SaidInv, NEW c \in Chunks, c.kind # "text", out' = Append(out, c)
  PROVE  Said(out') = Said(out)
<1>1. Said(out') = Said(out) \o <<>>
  BY SaidAppend DEF TextOf, ChunksOK, SaidInv
<1> QED
  BY <1>1 DEF SaidInv

\* The text held back is said.
LEMMA SaysBuffer ==
  ASSUME ChunksOK, SaidInv, buf \in Seq(Pieces), state # "emitted",
         out' = Append(out, Text(buf)), buf' = <<>>, state' # "emitted", UNCHANGED received
  PROVE  SaidInv'
<1>1. Text(buf) \in Chunks /\ Text(buf).kind = "text" /\ Text(buf).text = buf
  BY ChunkKinds
<1>2. Said(out) \in Seq(Pieces) /\ received = Said(out) \o buf
  BY DEF SaidInv
<1>3. Said(out') = Said(out) \o buf
  BY <1>1, <1>2, SaidAppend DEF TextOf, ChunksOK
<1>4. Said(out') \in Seq(Pieces) /\ Said(out') \o <<>> = Said(out')
  BY <1>2, <1>3
<1> QED
  BY <1>2, <1>3, <1>4 DEF SaidInv

\* What waits is handed out.
LEMMA StepPending == Inv /\ result = "reading" /\ ReadPending => Inv'
<1> SUFFICES ASSUME Inv, result = "reading", ReadPending PROVE Inv'
  OBVIOUS
<1> USE DEF Inv
<1> DEFINE c == Finish("stop")
<1>1. /\ out' = Append(out, c) /\ pending' = <<>> /\ pending = <<c>>
      /\ terminal /\ ~done /\ state = "idle"
      /\ UNCHANGED <<terminal, doneRead, state, buf, savedErr, done, events, received, result>>
  BY PendingEffect
<1>2. c \in Chunks /\ c.kind = "finish" /\ c.reason = "stop"
  BY ChunkKinds
<1>3. pending # <<>>
  BY <1>1
<1> HIDE DEF c
<1>4. ChunksOK'
  BY <1>1, <1>2 DEF ChunksOK
<1>5. TypeOK' /\ HoldInv' /\ EndInv'
  <2>1. TypeOK'
    BY <1>1, <1>4, StepTyped DEF TypeOK
  <2>2. HoldInv' /\ EndInv'
    BY <1>1, <1>3 DEF HoldInv, HeldBackBounded, EndInv
  <2> QED
    BY <2>1, <2>2
<1>6. FinishInv'
  BY <1>1, <1>2, <1>3, FinishChunk DEF ChunksOK
<1>7. CallsInv'
  BY <1>1, <1>2, CallsChunk DEF ChunksOK, CallKinds
<1>8. SaidInv'
  <2>1. Said(out') = Said(out)
    BY <1>1, <1>2, SaysNothing
  <2> QED
    BY <1>1, <2>1 DEF SaidInv
<1> QED
  BY <1>4, <1>5, <1>6, <1>7, <1>8

\* The reading ends, or text is dropped.
LEMMA StepNoChunk ==
  ASSUME Inv, result = "reading",
         ReadSavedErr \/ ReadEOF \/ \E s \in Deltas : TextAfterCalls(s)
  PROVE  Inv'
<1> USE DEF Inv
<1>1. ASSUME UNCHANGED <<out, pending, state, terminal, done, doneRead, buf>>
      PROVE  ChunksOK' /\ FinishInv' /\ CallsInv'
  BY <1>1 DEF ChunksOK, FinishInv, CallsInv, CallsEndText
<1>2. CASE ReadSavedErr
  <2>1. /\ pending = <<>> /\ savedErr /\ savedErr' = FALSE /\ result' = "error" /\ ~terminal
        /\ UNCHANGED <<terminal, doneRead, state, buf, pending, done, events, received, out>>
    BY <1>2 DEF ReadSavedErr, EndInv
  <2>2. state # "buffering"
    BY <2>1 DEF HoldInv
  <2>3. HoldInv' /\ EndInv' /\ SaidInv'
    BY <2>1, <2>2 DEF HoldInv, HeldBackBounded, EndInv, SaidInv
  <2>4. TypeOK'
    BY <1>1, <2>1, StepTyped DEF TypeOK
  <2> QED
    BY <1>1, <2>1, <2>3, <2>4
<1>3. CASE ReadEOF
  <2>1. /\ pending = <<>> /\ ~savedErr /\ done /\ result' = "eof"
        /\ UNCHANGED <<terminal, doneRead, state, buf, pending, savedErr, done, events, received, out>>
    BY <1>3 DEF ReadEOF, fallback
  <2>2. terminal /\ state # "buffering"
    BY <2>1 DEF HoldInv, EndInv
  <2>3. HoldInv' /\ EndInv' /\ SaidInv'
    BY <2>1, <2>2 DEF HoldInv, HeldBackBounded, EndInv, SaidInv
  <2>4. TypeOK'
    BY <1>1, <2>1, StepTyped DEF TypeOK
  <2> QED
    BY <1>1, <2>1, <2>3, <2>4
<1>4. ASSUME NEW s \in Deltas, TextAfterCalls(s) PROVE Inv'
  <2>1. /\ state = "emitted" /\ received' = received \o s
        /\ events' = events + 1 /\ events < MaxEvents
        /\ UNCHANGED <<terminal, doneRead, state, buf, pending, savedErr, done, out, result>>
    BY <1>4 DEF TextAfterCalls, NextEvent, fallback
  <2>2. s \in Seq(Pieces)
    BY DeltasAssumption
  <2>3. TypeOK'
    <3>1. received' \in Seq(Pieces) /\ events' \in 0..MaxEvents
      BY <2>1, <2>2, DeltasAssumption DEF TypeOK
    <3>2. TypeOK /\ ChunksOK'
      BY <1>1, <2>1
    <3>3. /\ buf \in Seq(Pieces) /\ state \in {"idle", "buffering", "emitted"}
          /\ {terminal, doneRead, savedErr, done} \subseteq BOOLEAN
          /\ result \in {"reading", "eof", "error"}
      BY <3>2 DEF TypeOK
    <3> HIDE DEF Inv
    <3>4. /\ buf' \in Seq(Pieces) /\ state' \in {"idle", "buffering", "emitted"}
          /\ result' \in {"reading", "eof", "error"}
      BY <2>1, <3>3
    <3>5. /\ terminal \in BOOLEAN /\ doneRead \in BOOLEAN /\ savedErr \in BOOLEAN /\ done \in BOOLEAN
          /\ terminal' = terminal /\ doneRead' = doneRead /\ savedErr' = savedErr /\ done' = done
      BY <2>1, <3>3
    <3>6. /\ terminal' \in BOOLEAN /\ doneRead' \in BOOLEAN /\ savedErr' \in BOOLEAN /\ done' \in BOOLEAN
      BY ONLY <3>5
    <3> QED
      BY <3>1, <3>2, <3>4, <3>6, StepTyped
  <2>4. HoldInv' /\ EndInv'
    BY <2>1 DEF HoldInv, HeldBackBounded, EndInv
  <2>5. SaidInv'
    <3>1. PICK rest \in Seq(Pieces) : received = Said(out) \o rest
      BY <2>1 DEF SaidInv
    <3>2. Said(out) \in Seq(Pieces)
      BY DEF SaidInv
    <3>3. received' = Said(out) \o (rest \o s) /\ rest \o s \in Seq(Pieces)
      <4>1. (Said(out) \o rest) \o s = Said(out) \o (rest \o s) /\ rest \o s \in Seq(Pieces)
        BY ONLY <2>2, <3>2, rest \in Seq(Pieces), ConcatAssociative
      <4> QED
        BY ONLY <2>1, <3>1, <4>1
    <3> QED
      BY <2>1, <3>2, <3>3 DEF SaidInv
  <2> QED
    BY <1>1, <2>1, <2>3, <2>4, <2>5
<1> QED
  BY <1>2, <1>3, <1>4

\* A call that comes as an event: what is held back is dropped.
LEMMA StepNative ==
  ASSUME Inv, result = "reading", NEW i \in Indices, NativeCall(i)
  PROVE  Inv'
<1> USE DEF Inv
<1> DEFINE c == Call("native", i, events')
<1>1. /\ pending = <<>> /\ ~savedErr /\ ~done /\ ~terminal
      /\ UNCHANGED <<terminal, doneRead, pending, savedErr, done, received, result>>
      /\ events' = events + 1 /\ events < MaxEvents
      /\ state' = "emitted" /\ buf' \in {<<>>, <<"Tool">>}
      /\ out' = Append(out, c)
  BY NativeEffect
<1>2. events' \in 0..MaxEvents /\ events' \in Nat
  BY <1>1, DeltasAssumption DEF TypeOK
<1>3. c \in Chunks /\ c.kind = "native"
  BY <1>2, DeltasAssumption, ChunkKinds DEF CallKinds
<1> HIDE DEF c
<1>4. ChunksOK' /\ EndInv'
  BY <1>1, <1>3 DEF ChunksOK, EndInv
<1>5. buf' = <<>> \/ buf' = buf
  BY DEF NativeCall
<1>6. HoldInv'
  BY <1>1, <1>5, DeltasAssumption DEF HoldInv, HeldBackBounded
<1>7. TypeOK'
  <2>1. buf \in Seq(Pieces) /\ <<>> \in Seq(Pieces)
    BY DEF TypeOK
  <2> QED
    BY <1>1, <1>2, <1>4, <1>5, <2>1, StepTyped DEF TypeOK
<1>8. FinishInv'
  BY <1>1, <1>3, PlainChunk DEF ChunksOK
<1>9. CallsInv'
  <2>1. \A k \in DOMAIN out : out[k].kind # "finish"
    BY <1>1 DEF FinishInv
  <2> QED
    BY <1>1, <1>3, <2>1, CallsChunk DEF ChunksOK, CallKinds
<1>10. SaidInv'
  <2>1. Said(out') = Said(out)
    BY <1>1, <1>3, SaysNothing
  <2>2. \E rest \in Seq(Pieces) : received = Said(out) \o rest
    <3>1. buf \in Seq(Pieces)
      BY DEF TypeOK
    <3> QED
      BY <3>1 DEF SaidInv
  <2> QED
    BY <1>1, <2>1, <2>2 DEF SaidInv
<1> QED
  BY <1>4, <1>6, <1>7, <1>8, <1>9, <1>10

\* Usage and reasoning.
LEMMA StepPass ==
  ASSUME Inv, result = "reading", NEW k \in {"usage", "reasoning"}, PassThrough(k)
  PROVE  Inv'
<1> USE DEF Inv
<1> DEFINE c == Chunk(k)
<1>1. /\ pending = <<>> /\ ~savedErr /\ ~done /\ ~terminal
      /\ UNCHANGED <<terminal, doneRead, state, buf, pending, savedErr, done, received, result>>
      /\ events' = events + 1 /\ events < MaxEvents
      /\ out' = Append(out, c)
  BY DEF PassThrough, NextEvent, Inner, fallback, Returns
<1>2. c \in Chunks /\ c.kind = k
  BY ChunkKinds
<1> HIDE DEF c
<1>3. ChunksOK' /\ EndInv' /\ HoldInv'
  BY <1>1, <1>2 DEF ChunksOK, EndInv, HoldInv, HeldBackBounded
<1>4. TypeOK'
  <2>1. events' \in 0..MaxEvents
    BY <1>1, DeltasAssumption DEF TypeOK
  <2> QED
    BY <1>1, <1>3, <2>1, StepTyped DEF TypeOK
<1>5. FinishInv'
  BY <1>1, <1>2, PlainChunk DEF ChunksOK
<1>6. CallsInv'
  BY <1>1, <1>2, CallsChunk DEF ChunksOK, CallKinds
<1>7. SaidInv'
  <2>1. Said(out') = Said(out)
    BY <1>1, <1>2, SaysNothing
  <2> QED
    BY <1>1, <2>1 DEF SaidInv
<1> QED
  BY <1>3, <1>4, <1>5, <1>6, <1>7

\* The end of the completion.
LEMMA StepTerminal == Inv /\ result = "reading" /\ Terminal => Inv'
<1> SUFFICES ASSUME Inv, result = "reading", Terminal PROVE Inv'
  OBVIOUS
<1> USE DEF Inv
<1>1. /\ pending = <<>> /\ ~savedErr /\ ~done /\ ~terminal /\ terminal'
      /\ events' = events + 1 /\ events < MaxEvents
      /\ UNCHANGED <<doneRead, savedErr, done, received, result>>
      /\ Finishes
  BY TerminalEffect
<1>2. events' \in 0..MaxEvents /\ terminal' \in BOOLEAN /\ buf \in Seq(Pieces)
  <2>1. terminal' = TRUE
    BY DEF Terminal
  <2> QED
    BY <1>1, <2>1, DeltasAssumption DEF TypeOK
<1>3. CASE state = "buffering"
  <2> DEFINE c == Text(buf)
  <2>1. out' = Append(out, c) /\ pending' = <<Finish("stop")>> /\ buf' = <<>> /\ state' = "idle"
    BY <1>1, <1>3 DEF Finishes
  <2>2. c \in Chunks /\ c.kind = "text"
    BY <1>2, ChunkKinds
  <2>3. SaidInv'
    BY <1>1, <1>2, <1>3, <2>1, SaysBuffer
  <2>4. pending' # <<>>
    BY <2>1
  <2> HIDE DEF c
  <2>5. ChunksOK' /\ HoldInv' /\ EndInv'
    BY <1>1, <2>1, <2>2, DeltasAssumption DEF ChunksOK, HoldInv, HeldBackBounded, EndInv
  <2>6. TypeOK'
    BY <1>1, <1>2, <2>1, <2>5, StepTyped DEF TypeOK
  <2>7. FinishInv'
    BY <1>1, <2>1, <2>2, <2>4, PlainChunk DEF ChunksOK
  <2>8. CallsInv'
    BY <1>3, <2>1, <2>2, CallsChunk DEF ChunksOK, CallKinds
  <2> QED
    BY <2>3, <2>5, <2>6, <2>7, <2>8
<1>4. CASE state # "buffering"
  <2> DEFINE r == IF state = "emitted" THEN "tool_calls" ELSE "stop"
             c == Finish(r)
  <2>1. out' = Append(out, c) /\ UNCHANGED <<buf, pending, state>>
    BY <1>1, <1>4 DEF Finishes
  <2>2. c \in Chunks /\ c.kind = "finish" /\ c.reason = r
    BY ChunkKinds
  <2> HIDE DEF c
  <2>3. ChunksOK' /\ HoldInv' /\ EndInv'
    BY <1>1, <1>4, <2>1, <2>2 DEF ChunksOK, HoldInv, HeldBackBounded, EndInv
  <2>4. TypeOK'
    BY <1>1, <1>2, <2>1, <2>3, StepTyped DEF TypeOK
  <2>5. FinishInv'
    BY <1>1, <2>1, <2>2, FinishChunk DEF ChunksOK
  <2>6. CallsInv'
    BY <2>1, <2>2, CallsChunk DEF ChunksOK, CallKinds
  <2>7. SaidInv'
    <3>1. Said(out') = Said(out)
      BY <2>1, <2>2, SaysNothing
    <3> QED
      BY <1>1, <2>1, <3>1 DEF SaidInv
  <2> QED
    BY <2>3, <2>4, <2>5, <2>6, <2>7
<1> QED
  BY <1>3, <1>4

\* The marker.
LEMMA StepDone == Inv /\ result = "reading" /\ Done => Inv'
<1> SUFFICES ASSUME Inv, result = "reading", Done PROVE Inv'
  OBVIOUS
<1> USE DEF Inv
<1> DEFINE c == Chunk("done")
<1>1. /\ pending = <<>> /\ ~savedErr /\ ~done /\ terminal /\ done' /\ doneRead'
      /\ out' = Append(out, c)
      /\ UNCHANGED <<terminal, savedErr, events, received, result, buf, pending, state>>
  BY DoneEffect
<1>2. c \in Chunks /\ c.kind = "done"
  BY ChunkKinds
<1>3. done' = TRUE /\ doneRead' = TRUE
  BY DEF Done
<1>4. Len(out) \in DOMAIN out /\ out[Len(out)].kind = "finish"
  BY <1>1 DEF FinishInv
<1>5. FinishInv'
  <2>1. \A i \in DOMAIN out : (out[i].kind = "finish" => i = Len(out)) /\ out[i].kind # "done"
    BY <1>1 DEF FinishInv
  <2>2. /\ Len(out) \in Nat /\ Len(out') = Len(out) + 1 /\ DOMAIN out' = 1..(Len(out) + 1)
        /\ DOMAIN out = 1..Len(out)
        /\ \A i \in 1..Len(out) : out'[i] = out[i]
        /\ out'[Len(out) + 1] = c
        /\ \A i \in DOMAIN out' : i \in DOMAIN out \/ i = Len(out) + 1
    BY <1>1, <1>2, Appended DEF ChunksOK
  <2>3. \A i \in DOMAIN out' : out'[i].kind = "finish" => i = Len(out') - 1
    BY <1>2, <2>1, <2>2
  <2>4. \A i \in DOMAIN out' : out'[i].kind = "done" => i = Len(out')
    BY <2>1, <2>2
  <2>5. Len(out') - 1 \in DOMAIN out' /\ out'[Len(out') - 1].kind = "finish"
    BY <1>4, <2>2
  <2>6. out'[Len(out')] = c
    BY <2>2
  <2> QED
    BY <1>1, <2>3, <2>4, <2>5, <2>6 DEF FinishInv
<1> HIDE DEF c
<1>6. ChunksOK' /\ HoldInv' /\ EndInv'
  BY <1>1, <1>2, <1>3 DEF ChunksOK, HoldInv, HeldBackBounded, EndInv
<1>7. TypeOK'
  BY <1>1, <1>3, <1>6, StepTyped DEF TypeOK
<1>8. CallsInv'
  BY <1>1, <1>2, CallsChunk DEF ChunksOK, CallKinds
<1>9. SaidInv'
  <2>1. Said(out') = Said(out)
    BY <1>1, <1>2, SaysNothing
  <2> QED
    BY <1>1, <2>1 DEF SaidInv
<1> QED
  BY <1>5, <1>6, <1>7, <1>8, <1>9

\* An error.
LEMMA StepError == Inv /\ result = "reading" /\ InnerError => Inv'
<1> SUFFICES ASSUME Inv, result = "reading", InnerError PROVE Inv'
  OBVIOUS
<1> USE DEF Inv
<1>1. /\ pending = <<>> /\ ~savedErr /\ ~done /\ ~terminal
      /\ UNCHANGED <<terminal, doneRead, done, events, received>>
      /\ \/ Flushes(buf) /\ savedErr' /\ UNCHANGED result /\ state = "buffering"
         \/ state # "buffering" /\ result' = "error" /\ UNCHANGED <<out, pending, buf, state, savedErr>>
  BY ErrorEffect
<1>2. CASE state # "buffering" /\ result' = "error" /\ UNCHANGED <<out, pending, buf, state, savedErr>>
  <2>1. ChunksOK' /\ FinishInv' /\ CallsInv' /\ HoldInv' /\ EndInv' /\ SaidInv'
    <3>1. ChunksOK' /\ FinishInv' /\ CallsInv'
      BY <1>1, <1>2 DEF ChunksOK, FinishInv, CallsInv, CallsEndText
    <3>2. HoldInv' /\ EndInv'
      BY <1>1, <1>2 DEF HoldInv, HeldBackBounded, EndInv
    <3>3. SaidInv'
      BY <1>1, <1>2 DEF SaidInv
    <3> QED
      BY <3>1, <3>2, <3>3
  <2>2. TypeOK'
    BY <1>1, <1>2, <2>1, StepTyped DEF TypeOK
  <2> QED
    BY <2>1, <2>2
<1>3. CASE Flushes(buf) /\ savedErr' /\ UNCHANGED result /\ state = "buffering"
  <2> DEFINE c == Text(buf)
  <2>1. out' = Append(out, c) /\ pending' = <<>> /\ buf' = <<>> /\ state' = "idle"
    BY <1>3 DEF Flushes
  <2>2. buf \in Seq(Pieces) /\ savedErr' \in BOOLEAN
    BY <1>3 DEF TypeOK, InnerError
  <2>3. c \in Chunks /\ c.kind = "text"
    BY <2>2, ChunkKinds
  <2>4. SaidInv'
    BY <1>1, <1>3, <2>1, <2>2, SaysBuffer
  <2> HIDE DEF c
  <2>5. ChunksOK' /\ HoldInv' /\ EndInv'
    BY <1>1, <1>3, <2>1, <2>3, DeltasAssumption DEF ChunksOK, HoldInv, HeldBackBounded, EndInv
  <2>6. TypeOK'
    BY <1>1, <1>3, <2>1, <2>2, <2>5, StepTyped DEF TypeOK
  <2>7. FinishInv'
    BY <1>1, <2>1, <2>3, PlainChunk DEF ChunksOK
  <2>8. CallsInv'
    BY <1>3, <2>1, <2>3, CallsChunk DEF ChunksOK, CallKinds
  <2> QED
    BY <2>4, <2>5, <2>6, <2>7, <2>8
<1> QED
  BY <1>1, <1>2, <1>3

\* Every step keeps the invariant.
LEMMA StepInv == Inv /\ [Next]_vars => Inv'
<1> SUFFICES ASSUME Inv, [Next]_vars PROVE Inv'
  OBVIOUS
<1>1. CASE UNCHANGED vars
  <2>1. TypeOK' /\ ChunksOK' /\ FinishInv' /\ CallsInv'
    BY <1>1 DEF vars, fallback, Inv, TypeOK, ChunksOK, FinishInv, CallsInv, CallsEndText
  <2>2. HoldInv' /\ EndInv' /\ SaidInv'
    BY <1>1 DEF vars, fallback, Inv, HoldInv, HeldBackBounded, EndInv, SaidInv
  <2> QED
    BY <2>1, <2>2 DEF Inv
<1>2. CASE result = "reading" /\ ReadChunk
  BY <1>2, StepPending, StepNoChunk, StepText, StepNative, StepPass, StepTerminal, StepDone, StepError
     DEF ReadChunk
<1> QED
  BY <1>1, <1>2 DEF Next

\* The invariant of the whole specification.
THEOREM Invariance == Spec => []Inv
<1> QED
  BY InitInv, StepInv, PTL DEF Spec

-----------------------------------------------------------------------------
(* What follows from it. *)

\* The variables keep their types.
THEOREM TypeCorrect == Spec => []TypeOK
<1>1. Inv => TypeOK
  BY DEF Inv
<1> QED
  BY <1>1, Invariance, PTL

\* A longer sequence has its beginning as a prefix.
LEMMA ConcatPrefix ==
  ASSUME NEW S, NEW s \in Seq(S), NEW t \in Seq(S)
  PROVE  IsPrefix(s, s \o t)
<1>1. Len(s) <= Len(s \o t)
  OBVIOUS
<1>2. SubSeq(s, 1, Len(s)) = SubSeq(s \o t, 1, Len(s))
  <2>1. CASE Len(s) = 0
    BY <2>1
  <2>2. CASE Len(s) # 0
    BY <2>2, SubSeqOfConcat1
  <2> QED
    BY <2>1, <2>2
<1> QED
  BY <1>1, <1>2 DEF IsPrefix

\* The text reaches the client in order and once, however it is cut into events
\* (textToolFallbackHandle.ReadChunk).
THEOREM TextArrives == Spec => []TextIntact
<1>1. Inv => TextIntact
  <2> SUFFICES ASSUME Inv PROVE TextIntact
    OBVIOUS
  <2> USE DEF Inv
  <2>1. Said(pending) = <<>>
    <3>1. Said(<<>>) = <<>>
      BY SaidEmpty
    <3>2. Said(<<Finish("stop")>>) = <<>>
      <4>1. <<Finish("stop")>> = Append(<<>>, Finish("stop"))
        OBVIOUS
      <4>2. Said(Append(<<>>, Finish("stop"))) = <<>> \o <<>>
        <5>1. Finish("stop") \in Chunks /\ Finish("stop").kind = "finish"
          BY ChunkKinds
        <5>2. <<>> \in Seq(Chunks) /\ <<>> \in Seq(Pieces)
          OBVIOUS
        <5> QED
          BY <3>1, <5>1, <5>2, SaidAppend DEF TextOf
      <4>3. <<>> \o <<>> = <<>>
        OBVIOUS
      <4> QED
        BY <4>1, <4>2, <4>3
    <3> QED
      BY <3>1, <3>2 DEF ChunksOK
  <2>2. Said(out) \in Seq(Pieces) /\ Said(out) \o Said(pending) = Said(out)
    BY <2>1 DEF SaidInv
  <2>3. IsPrefix(Said(out), received)
    <3>1. CASE state = "emitted"
      BY <2>2, <3>1, ConcatPrefix DEF SaidInv
    <3>2. CASE state # "emitted"
      <4>1. received = Said(out) \o buf /\ buf \in Seq(Pieces)
        BY <3>2 DEF SaidInv, TypeOK
      <4> QED
        BY <2>2, <4>1, ConcatPrefix
    <3> QED
      BY <3>1, <3>2
  <2>4. state # "emitted" => Said(out) \o buf = received
    BY DEF SaidInv
  <2>5. result # "reading" /\ state # "emitted" => buf \in {<<>>, <<"Tool">>}
    BY DEF HoldInv
  <2>6. HeldBackBounded
    BY DEF HoldInv
  <2> QED
    BY <2>2, <2>3, <2>4, <2>5, <2>6 DEF TextIntact
<1> QED
  BY <1>1, Invariance, PTL

\* The finish reason says whether calls were made, and no text follows calls.
THEOREM CallsStand == Spec => []CallsAreFinal
<1>1. Inv => CallsAreFinal
  <2> SUFFICES ASSUME Inv PROVE CallsAreFinal
    OBVIOUS
  <2>1. Kinds(out) \intersect {"calls", "native"} # {} <=> \E i \in DOMAIN out : out[i].kind \in CallKinds
    BY DEF Kinds, CallKinds
  <2>2. FinishMatchesCalls
    BY <2>1 DEF FinishMatchesCalls, Inv, CallsInv
  <2> QED
    BY <2>2 DEF CallsAreFinal, Inv, CallsInv
<1> QED
  BY <1>1, Invariance, PTL

\* A completion ends with its finish chunk, the marker and io.EOF, anything else with an error
\* (adapters.go, nextTerminal).
THEOREM EndsAsAgreed == Spec => []EndsOnce
<1>1. Inv => EndsOnce
  <2> SUFFICES ASSUME Inv PROVE EndsOnce
    OBVIOUS
  <2> USE DEF Inv
  <2>1. out \in Seq(Chunks) /\ Len(out) \in Nat /\ DOMAIN out = 1..Len(out)
    BY DEF ChunksOK
  <2>2. ASSUME NEW i \in DOMAIN out, out[i].kind = "finish"
        PROVE  SubSeq(out, i + 1, Len(out)) \in {<<>>, <<Chunk("done")>>}
    <3>1. CASE done
      <4>1. i = Len(out) - 1 /\ out[Len(out)] = Chunk("done")
        BY <2>2, <3>1 DEF FinishInv
      <4>2. i + 1 = Len(out) /\ Len(out) \in DOMAIN out
        BY <2>1, <4>1
      <4>3. SubSeq(out, Len(out), Len(out)) = <<out[Len(out)]>>
        <5>1. out[Len(out)] \in Chunks
          BY <2>1, <4>2
        <5>2. <<out[Len(out)]>> \in Seq(Chunks) /\ Len(<<out[Len(out)]>>) = 1
          BY <5>1
        <5>3. /\ SubSeq(out, Len(out), Len(out)) \in Seq(Chunks)
              /\ Len(SubSeq(out, Len(out), Len(out))) = 1
              /\ SubSeq(out, Len(out), Len(out))[1] = out[Len(out)]
          BY <2>1, <4>2
        <5>4. \A j \in 1..1 : SubSeq(out, Len(out), Len(out))[j] = <<out[Len(out)]>>[j]
          BY <5>3
        <5> QED
          BY <5>2, <5>3, <5>4, SeqEqual
      <4> QED
        BY <4>1, <4>2, <4>3
    <3>2. CASE ~done
      <4>1. i = Len(out)
        BY <2>2, <3>2 DEF FinishInv
      <4>2. SubSeq(out, Len(out) + 1, Len(out)) = <<>>
        BY <2>1
      <4> QED
        BY <4>1, <4>2
    <3> QED
      BY <3>1, <3>2
  <2>3. "done" \in Kinds(out) <=> done
    <3>1. done => Len(out) \in DOMAIN out /\ out[Len(out)].kind = "done"
      <4>1. done => Len(out) - 1 \in DOMAIN out /\ out[Len(out)] = Chunk("done")
        BY DEF FinishInv, EndInv
      <4> QED
        BY <2>1, <4>1, ChunkKinds
    <3>2. \A i \in DOMAIN out : out[i].kind = "done" => done
      BY DEF FinishInv
    <3> QED
      BY <3>1, <3>2 DEF Kinds
  <2>4. done => "finish" \in Kinds(out)
    BY DEF FinishInv, EndInv, Kinds
  <2>5. result = "eof" <=> result # "reading" /\ done
    BY DEF EndInv, TypeOK
  <2>6. result # "reading" => pending = <<>>
    BY DEF EndInv
  <2> QED
    BY <2>2, <2>3, <2>4, <2>5, <2>6 DEF EndsOnce
<1> QED
  BY <1>1, Invariance, PTL

-----------------------------------------------------------------------------
(* What the aggregate knows of the chunks. *)

\* The chunks of a sequence that got another one.
LEMMA Longer ==
  ASSUME NEW cs \in Seq(Chunks), NEW c \in Chunks
  PROVE  /\ Append(cs, c) \in Seq(Chunks) /\ Len(cs) \in Nat
         /\ DOMAIN cs = 1..Len(cs) /\ DOMAIN Append(cs, c) = 1..(Len(cs) + 1)
         /\ \A i \in 1..Len(cs) : Append(cs, c)[i] = cs[i]
         /\ Append(cs, c)[Len(cs) + 1] = c
  OBVIOUS

\* Whether there is a chunk of some sort: only the new one can be another.
LEMMA HasAppend ==
  ASSUME NEW cs \in Seq(Chunks), NEW c \in Chunks, NEW D
  PROVE  Has(Append(cs, c), D) <=> c \in D \/ Has(cs, D)
<1> DEFINE n == Len(cs)
           ds == Append(cs, c)
<1>1. /\ n \in Nat /\ DOMAIN cs = 1..n /\ DOMAIN ds = 1..(n + 1)
      /\ \A i \in 1..n : ds[i] = cs[i]
      /\ ds[n + 1] = c
  BY Longer
<1> HIDE DEF n, ds
<1>2. ASSUME NEW i \in DOMAIN ds, ds[i] \in D
      PROVE  c \in D \/ \E j \in DOMAIN cs : cs[j] \in D
  <2>1. CASE i = n + 1
    BY <1>1, <1>2, <2>1
  <2>2. CASE i \in 1..n
    BY <1>1, <1>2, <2>2
  <2> QED
    BY <1>1, <2>1, <2>2
<1>3. ASSUME NEW i \in DOMAIN cs, cs[i] \in D
      PROVE  \E j \in DOMAIN ds : ds[j] \in D
  <2>1. i \in DOMAIN ds /\ ds[i] = cs[i]
    BY <1>1
  <2> QED
    BY <1>3, <2>1
<1>4. c \in D => \E j \in DOMAIN ds : ds[j] \in D
  <2>1. n + 1 \in DOMAIN ds
    BY <1>1
  <2> QED
    BY <1>1, <2>1
<1>5. Has(ds, D) <=> c \in D \/ Has(cs, D)
  BY <1>2, <1>3, <1>4 DEF Has
<1> QED
  BY <1>5 DEF ds

\* The index of a call and its part are numbers.
LEMMA CallTyped ==
  ASSUME NEW c \in Chunks, IsCall(c)
  PROVE  c.index \in Nat /\ c.part \in Nat
  BY DEF Chunks, IsCall, CallKinds

\* Parts stay what they are while the chunks of their call do.
LEMMA SameParts ==
  ASSUME NEW cs, NEW ds, NEW k, NEW parts, PartsOf(cs, k, parts),
         \A p : Has(ds, PartChunks(k, p)) <=> Has(cs, PartChunks(k, p))
  PROVE  PartsOf(ds, k, parts)
  BY DEF PartsOf

\* A chunk that is no call leaves the calls alone.
LEMMA NoCall ==
  ASSUME NEW cs \in Seq(Chunks), NEW f, CallMap(cs, f), NEW c \in Chunks, ~IsCall(c)
  PROVE  CallMap(Append(cs, c), f)
<1> DEFINE ds == Append(cs, c)
<1>1. ASSUME NEW k PROVE Has(ds, CallChunks(k)) <=> Has(cs, CallChunks(k))
  <2>1. c \notin CallChunks(k)
    BY DEF CallChunks
  <2> QED
    BY <2>1, HasAppend
<1>2. ASSUME NEW k, NEW p PROVE Has(ds, PartChunks(k, p)) <=> Has(cs, PartChunks(k, p))
  <2>1. c \notin PartChunks(k, p)
    BY DEF PartChunks
  <2> QED
    BY <2>1, HasAppend
<1> HIDE DEF ds
<1>3. \A k \in DOMAIN f : PartsOf(ds, k, f[k])
  <2>1. TAKE k \in DOMAIN f
  <2>2. PartsOf(cs, k, f[k])
    BY DEF CallMap
  <2> QED
    BY <1>2, <2>2, SameParts
<1>4. CallMap(ds, f)
  BY <1>1, <1>3 DEF CallMap
<1> QED
  BY <1>4 DEF ds

\* The parts of a call that gets another, later, one.
LEMMA PartsAppend ==
  ASSUME NEW cs \in Seq(Chunks), NEW c \in Chunks, IsCall(c),
         \A i \in DOMAIN cs : IsCall(cs[i]) => cs[i].part < c.part,
         NEW old, PartsOf(cs, c.index, old)
  PROVE  PartsOf(Append(cs, c), c.index, Append(old, c.part))
<1> DEFINE x == c.index
           q == c.part
           new == Append(old, q)
           ds == Append(cs, c)
<1>1. q \in Nat
  BY CallTyped
<1>2. /\ old \in Seq(Nat)
      /\ \A a, b \in DOMAIN old : a < b => old[a] < old[b]
      /\ \A p \in Nat : (\E j \in DOMAIN old : old[j] = p) <=> Has(cs, PartChunks(x, p))
  BY DEF PartsOf
<1>3. /\ new \in Seq(Nat) /\ Len(old) \in Nat
      /\ DOMAIN old = 1..Len(old) /\ DOMAIN new = 1..(Len(old) + 1)
      /\ \A j \in 1..Len(old) : new[j] = old[j]
      /\ new[Len(old) + 1] = q
  BY <1>1, <1>2
<1> HIDE DEF new
<1>4. \A j \in DOMAIN old : old[j] < q
  <2>1. TAKE j \in DOMAIN old
  <2>2. PICK p \in Nat : p = old[j]
    BY <1>2
  <2>3. PICK i \in DOMAIN cs : cs[i] \in PartChunks(x, p)
    BY <1>2, <2>2 DEF Has
  <2> QED
    BY <2>2, <2>3 DEF PartChunks
<1>5. \A a, b \in DOMAIN new : a < b => new[a] < new[b]
  <2>1. TAKE a, b \in DOMAIN new
  <2>2. HAVE a < b
  <2>3. a \in DOMAIN old /\ new[a] = old[a]
    BY <1>3, <2>2
  <2>4. CASE b = Len(old) + 1
    BY <1>4, <1>3, <2>3, <2>4
  <2>5. CASE b \in DOMAIN old
    BY <1>2, <1>3, <2>2, <2>3, <2>5
  <2> QED
    BY <1>3, <2>4, <2>5
<1>6. ASSUME NEW p \in Nat
      PROVE  (\E j \in DOMAIN new : new[j] = p) <=> Has(ds, PartChunks(x, p))
  <2>1. (\E j \in DOMAIN new : new[j] = p) <=> (p = q \/ \E j \in DOMAIN old : old[j] = p)
    <3>1. ASSUME NEW j \in DOMAIN new, new[j] = p
          PROVE  p = q \/ \E l \in DOMAIN old : old[l] = p
      <4>1. CASE j = Len(old) + 1
        BY <1>3, <3>1, <4>1
      <4>2. CASE j \in DOMAIN old
        BY <1>3, <3>1, <4>2
      <4> QED
        BY <1>3, <4>1, <4>2
    <3>2. ASSUME NEW l \in DOMAIN old, old[l] = p
          PROVE  \E j \in DOMAIN new : new[j] = p
      <4>1. l \in DOMAIN new /\ new[l] = old[l]
        BY <1>3
      <4> QED
        BY <3>2, <4>1
    <3>3. p = q => \E j \in DOMAIN new : new[j] = p
      <4>1. Len(old) + 1 \in DOMAIN new
        BY <1>3
      <4> QED
        BY <1>3, <4>1
    <3> QED
      BY <3>1, <3>2, <3>3
  <2>2. Has(ds, PartChunks(x, p)) <=> c \in PartChunks(x, p) \/ Has(cs, PartChunks(x, p))
    BY HasAppend
  <2>3. c \in PartChunks(x, p) <=> p = q
    BY DEF PartChunks
  <2> HIDE DEF ds, q, x
  <2> QED
    BY <1>2, <2>1, <2>2, <2>3
<1>7. PartsOf(ds, x, new)
  <2> HIDE DEF ds, x
  <2> QED
    BY <1>3, <1>5, <1>6 DEF PartsOf
<1> QED
  BY <1>7 DEF new

\* A call's part is added at the end of its parts, in order if it is the latest.
LEMMA PartAdded ==
  ASSUME NEW cs \in Seq(Chunks), NEW f, CallMap(cs, f), NEW c \in Chunks, IsCall(c),
         \A i \in DOMAIN cs : IsCall(cs[i]) => cs[i].part < c.part
  PROVE  CallMap(Append(cs, c), AddPart(f, c.index, c.part))
<1> DEFINE x == c.index
           q == c.part
           old == IF x \in DOMAIN f THEN f[x] ELSE <<>>
           g == AddPart(f, x, q)
           ds == Append(cs, c)
<1>1. /\ DOMAIN g = DOMAIN f \union {x}
      /\ g[x] = Append(old, q) /\ \A k \in DOMAIN f : k # x => g[k] = f[k]
  BY DEF AddPart
<1>2. PartsOf(cs, x, old)
  <2>1. CASE x \in DOMAIN f
    BY <2>1 DEF CallMap
  <2>2. CASE x \notin DOMAIN f
    <3>1. ~Has(cs, CallChunks(x))
      BY <2>2 DEF CallMap
    <3>2. \A p : PartChunks(x, p) \subseteq CallChunks(x)
      BY DEF PartChunks, CallChunks
    <3>3. \A p : ~Has(cs, PartChunks(x, p))
      BY <3>1, <3>2 DEF Has
    <3>4. old = <<>> /\ DOMAIN old = {} /\ old \in Seq(Nat)
      BY <2>2
    <3> HIDE DEF old
    <3> QED
      BY <3>3, <3>4 DEF PartsOf
  <2> QED
    BY <2>1, <2>2
<1>3. PartsOf(ds, x, Append(old, q))
  <2> HIDE DEF old
  <2> QED
    BY <1>2, PartsAppend
<1>4. ASSUME NEW k
      PROVE  k \in DOMAIN g <=> Has(ds, CallChunks(k))
  <2>1. Has(ds, CallChunks(k)) <=> c \in CallChunks(k) \/ Has(cs, CallChunks(k))
    BY HasAppend
  <2>2. c \in CallChunks(k) <=> k = x
    BY DEF CallChunks
  <2>3. k \in DOMAIN f <=> Has(cs, CallChunks(k))
    BY DEF CallMap
  <2> HIDE DEF g, ds
  <2> QED
    BY <1>1, <2>1, <2>2, <2>3
<1>5. ASSUME NEW k \in DOMAIN g
      PROVE  PartsOf(ds, k, g[k])
  <2>1. CASE k = x
    BY <1>1, <1>3, <2>1
  <2>2. CASE k # x
    <3>1. k \in DOMAIN f /\ g[k] = f[k]
      BY <1>1, <2>2
    <3>2. ASSUME NEW p PROVE Has(ds, PartChunks(k, p)) <=> Has(cs, PartChunks(k, p))
      <4>1. c \notin PartChunks(k, p)
        BY <2>2 DEF PartChunks
      <4> QED
        BY <4>1, HasAppend
    <3>3. PartsOf(cs, k, f[k])
      BY <3>1 DEF CallMap
    <3> HIDE DEF g, ds
    <3> QED
      BY <3>1, <3>2, <3>3, SameParts
  <2> QED
    BY <2>1, <2>2
<1>6. CallMap(ds, g)
  <2> HIDE DEF g, ds
  <2> QED
    BY <1>4, <1>5 DEF CallMap
<1> QED
  BY <1>6

-----------------------------------------------------------------------------
(* The aggregate of the chunks so far. *)

\* A chunk changes one field.
LEMMA AggregateFields ==
  ASSUME NEW a, Shaped(a), NEW b, NEW c \in Chunks, b = applyAggregateChunk(a, c)
  PROVE  /\ b.content  = (IF c.kind = "text" THEN a.content \o c.text ELSE a.content)
         /\ b.finish   = (IF c.kind = "finish" THEN c.reason ELSE a.finish)
         /\ b.tools    = (IF IsCall(c) THEN AddPart(a.tools, c.index, c.part) ELSE a.tools)
         /\ b.usage    = (IF c.kind = "usage" THEN TRUE ELSE a.usage)
         /\ b.complete = (IF c.kind = "done" THEN TRUE ELSE a.complete)
         /\ Shaped(b)
<1>1. c.kind \in {"text", "finish", "usage", "reasoning", "done", "calls", "native"}
  BY DEF Chunks
<1>2. CASE c.kind = "text"
  BY <1>2 DEF applyAggregateChunk, Shaped, IsCall, CallKinds
<1>3. CASE c.kind = "finish"
  BY <1>3 DEF applyAggregateChunk, Shaped, IsCall, CallKinds
<1>4. CASE c.kind = "usage"
  BY <1>4 DEF applyAggregateChunk, Shaped, IsCall, CallKinds
<1>5. CASE c.kind = "reasoning"
  BY <1>5 DEF applyAggregateChunk, Shaped, IsCall, CallKinds
<1>6. CASE c.kind = "done"
  BY <1>6 DEF applyAggregateChunk, Shaped, IsCall, CallKinds
<1>7. CASE c.kind \in {"calls", "native"}
  BY <1>7 DEF applyAggregateChunk, Shaped, IsCall, CallKinds
<1> QED
  BY <1>1, <1>2, <1>3, <1>4, <1>5, <1>6, <1>7

LEMMA AggregateFolds ==
  ASSUME NEW cs
  PROVE  Aggregating!Folded(cs) = FoldLeft(applyAggregateChunk, Nothing, cs)
  BY DEF Aggregating!Folded, Aggregating!FoldLeft, Aggregating!MapThenFoldSet, Aggregating!Max,
         FoldLeft, MapThenFoldSet, Max

\* Of no chunks it is the empty one ...
LEMMA AggregateOfNone == AggregateOf(<<>>, Aggregating!Folded(<<>>))
<1>1. Aggregating!Folded(<<>>) = Nothing
  BY Aggregating!FoldedEmpty
<1>2. Said(<<>>) = <<>>
  BY SaidEmpty
<1>3. \A D : ~Has(<<>>, D)
  BY DEF Has
<1>4. CallMap(<<>>, <<>>)
  BY <1>3 DEF CallMap
<1>5. AggregateOf(<<>>, Nothing)
  BY <1>2, <1>3, <1>4 DEF AggregateOf, Shaped, Nothing
<1> QED
  BY <1>1, <1>5

\* ... and it keeps up with the chunks, when the parts of the calls come in order.
LEMMA AggregateOfAppend ==
  ASSUME NEW cs \in Seq(Chunks), Said(cs) \in Seq(Pieces), AggregateOf(cs, Aggregating!Folded(cs)),
         NEW c \in Chunks,
         IsCall(c) => \A i \in DOMAIN cs : IsCall(cs[i]) => cs[i].part < c.part
  PROVE  AggregateOf(Append(cs, c), Aggregating!Folded(Append(cs, c)))
<1>1. PICK a : a = Aggregating!Folded(cs)
  OBVIOUS
<1>2. PICK b : b = Aggregating!Folded(Append(cs, c))
  OBVIOUS
<1>3. PICK ds : ds = Append(cs, c)
  OBVIOUS
<1>4. Shaped(a)
  BY <1>1 DEF AggregateOf
<1>5. b = applyAggregateChunk(a, c)
  BY <1>1, <1>2, Aggregating!FoldedAppend
<1>6. /\ b.content  = (IF c.kind = "text" THEN a.content \o c.text ELSE a.content)
      /\ b.finish   = (IF c.kind = "finish" THEN c.reason ELSE a.finish)
      /\ b.tools    = (IF IsCall(c) THEN AddPart(a.tools, c.index, c.part) ELSE a.tools)
      /\ b.usage    = (IF c.kind = "usage" THEN TRUE ELSE a.usage)
      /\ b.complete = (IF c.kind = "done" THEN TRUE ELSE a.complete)
      /\ Shaped(b)
  BY ONLY c \in Chunks, <1>4, <1>5, AggregateFields
<1>7. /\ a.content = Said(cs)
      /\ a.complete <=> Has(cs, {Chunk("done")})
      /\ a.finish # "" => Has(cs, {Finish(a.finish)})
      /\ CallMap(cs, a.tools)
  BY <1>1 DEF AggregateOf
<1>8. b.content = Said(ds)
  <2>1. Said(ds) = Said(cs) \o TextOf(c)
    BY <1>3, SaidAppend
  <2>2. Said(cs) \o <<>> = Said(cs)
    OBVIOUS
  <2> QED
    BY <1>6, <1>7, <2>1, <2>2 DEF TextOf
<1>9. b.complete <=> Has(ds, {Chunk("done")})
  <2>1. Has(ds, {Chunk("done")}) <=> c \in {Chunk("done")} \/ Has(cs, {Chunk("done")})
    BY <1>3, HasAppend
  <2>2. c = Chunk("done") <=> c.kind = "done"
    BY DEF Chunk, Chunks
  <2> QED
    BY <1>6, <1>7, <2>1, <2>2
<1>10. ASSUME b.finish # "" PROVE Has(ds, {Finish(b.finish)})
  <2>1. Has(ds, {Finish(b.finish)}) <=> c \in {Finish(b.finish)} \/ Has(cs, {Finish(b.finish)})
    BY <1>3, HasAppend
  <2>2. c.kind = "finish" => c = Finish(c.reason)
    BY DEF Finish, Chunks
  <2>3. CASE c.kind = "finish"
    BY <1>6, <2>1, <2>2, <2>3
  <2>4. CASE c.kind # "finish"
    BY <1>6, <1>7, <1>10, <2>1, <2>4
  <2> QED
    BY <2>3, <2>4
<1>11. CallMap(ds, b.tools)
  <2>1. CASE IsCall(c)
    BY <1>3, <1>6, <1>7, <2>1, PartAdded
  <2>2. CASE ~IsCall(c)
    BY <1>3, <1>6, <1>7, <2>2, NoCall
  <2> QED
    BY <2>1, <2>2
<1>12. AggregateOf(ds, b)
  BY <1>6, <1>8, <1>9, <1>10, <1>11 DEF AggregateOf
<1> QED
  BY <1>2, <1>3, <1>12

\* What a step may do to the chunks.
Appends(c) ==
  /\ out' = Append(out, c)
  /\ IsCall(c) => /\ \A i \in DOMAIN out : IsCall(out[i]) => out[i].part < c.part
                  /\ c.part <= events'

\* Every chunk but a call.
LEMMA AppendsPlain ==
  ASSUME NEW c, out' = Append(out, c), c.kind \notin CallKinds
  PROVE  Appends(c)
  BY DEF Appends, IsCall

\* Every step leaves the chunks or adds one, whose part is the newest if it is a call.
LEMMA StepAppends ==
  ASSUME Inv, AggregateInv, [Next]_vars
  PROVE  /\ events' \in Nat /\ events <= events'
         /\ UNCHANGED out \/ \E c \in Chunks : Appends(c)
<1> USE DEF Inv
<1>1. events \in Nat /\ buf \in Seq(Pieces)
  BY DeltasAssumption DEF TypeOK
<1>2. CASE UNCHANGED <<out, events>>
  BY <1>1, <1>2
<1>3. ASSUME NEW c \in Chunks, c.kind \notin CallKinds, out' = Append(out, c)
      PROVE  \E d \in Chunks : Appends(d)
  BY <1>3, AppendsPlain
<1>4. ASSUME NEW b \in Seq(Pieces), out' = Append(out, Text(b))
      PROVE  \E d \in Chunks : Appends(d)
  <2>1. Text(b) \in Chunks /\ Text(b).kind \notin CallKinds
    BY ChunkKinds DEF CallKinds
  <2> QED
    BY <1>3, <1>4, <2>1
<1>5. ASSUME NEW r \in {"stop", "tool_calls"}, out' = Append(out, Finish(r))
      PROVE  \E d \in Chunks : Appends(d)
  <2>1. Finish(r) \in Chunks /\ Finish(r).kind \notin CallKinds
    BY ChunkKinds DEF CallKinds
  <2> QED
    BY <1>3, <1>5, <2>1
<1>6. ASSUME NEW k \in {"usage", "reasoning", "done"}, out' = Append(out, Chunk(k))
      PROVE  \E d \in Chunks : Appends(d)
  <2>1. Chunk(k) \in Chunks /\ Chunk(k).kind \notin CallKinds
    BY ChunkKinds DEF CallKinds
  <2> QED
    BY <1>3, <1>6, <2>1
<1>7. CASE UNCHANGED vars
  BY <1>2, <1>7 DEF vars
<1>8. CASE ReadPending
  BY <1>1, <1>5, <1>8, PendingEffect
<1>9. CASE ReadSavedErr \/ ReadEOF
  BY <1>2, <1>9 DEF ReadSavedErr, ReadEOF
<1>10. ASSUME NEW s \in Deltas, TextAfterCalls(s)
       PROVE  UNCHANGED out /\ events' = events + 1
  BY <1>10 DEF TextAfterCalls, NextEvent
<1>11. ASSUME NEW s \in Deltas, TextWhileBuffering(s) \/ TextWhileIdle(s)
       PROVE  events' = events + 1 /\ (UNCHANGED out \/ \E c \in Chunks : Appends(c))
  <2>1. /\ state # "emitted" /\ events' = events + 1
        /\ Keeps(s) \/ Flushes(buf \o s) \/ Emits
    BY <1>11, TextEffect
  <2>2. CASE Keeps(s)
    BY <2>1, <2>2 DEF Keeps
  <2>3. CASE Flushes(buf \o s)
    <3>1. buf \o s \in Seq(Pieces)
      BY <1>1, DeltasAssumption
    <3> QED
      BY <1>4, <2>1, <2>3, <3>1 DEF Flushes
  <2>4. CASE Emits
    <3> DEFINE c == Call("calls", 0, 0)
    <3>1. c \in Chunks /\ c.part = 0
      BY ChunkKinds DEF CallKinds, Call
    <3>2. \A i \in DOMAIN out : ~IsCall(out[i])
      BY <2>1 DEF CallsInv, IsCall
    <3>3. out' = Append(out, c)
      BY <2>4 DEF Emits
    <3> HIDE DEF c
    <3>4. Appends(c)
      BY <1>1, <2>1, <3>1, <3>2, <3>3 DEF Appends
    <3> QED
      BY <2>1, <3>1, <3>4
  <2> QED
    BY <2>1, <2>2, <2>3, <2>4
<1>12. ASSUME NEW i \in Indices, NativeCall(i)
       PROVE  events' = events + 1 /\ \E c \in Chunks : Appends(c)
  <2> DEFINE c == Call("native", i, events')
  <2>1. events' = events + 1 /\ out' = Append(out, c)
    BY <1>12, NativeEffect
  <2>2. c \in Chunks /\ c.part = events'
    <3>1. events' \in Nat /\ i \in Nat
      BY <1>1, <2>1, DeltasAssumption
    <3> QED
      BY <3>1, ChunkKinds DEF CallKinds, Call
  <2>3. \A j \in DOMAIN out : IsCall(out[j]) => out[j].part \in Nat /\ out[j].part <= events
    <3>1. \A j \in DOMAIN out : out[j] \in Chunks
      BY DEF ChunksOK
    <3> QED
      BY <3>1, CallTyped DEF AggregateInv
  <2> HIDE DEF c
  <2>4. Appends(c)
    BY <1>1, <2>1, <2>2, <2>3 DEF Appends
  <2> QED
    BY <2>1, <2>2, <2>4
<1>13. ASSUME NEW k \in {"usage", "reasoning"}, PassThrough(k)
       PROVE  events' = events + 1 /\ \E c \in Chunks : Appends(c)
  BY <1>6, <1>13 DEF PassThrough, NextEvent, Returns
<1>14. CASE Terminal
  <2>1. events' = events + 1 /\ Finishes
    BY <1>14, TerminalEffect
  <2> QED
    BY <1>1, <1>4, <1>5, <2>1 DEF Finishes
<1>15. CASE Done
  <2>1. out' = Append(out, Chunk("done")) /\ UNCHANGED events
    BY <1>15, DoneEffect
  <2> QED
    BY <1>1, <1>6, <2>1
<1>16. CASE InnerError
  <2>1. UNCHANGED events /\ (Flushes(buf) \/ UNCHANGED out)
    BY <1>16, ErrorEffect
  <2> QED
    BY <1>1, <1>4, <2>1 DEF Flushes
<1>17. CASE result = "reading" /\ ReadChunk
  <2> HIDE DEF Inv
  <2> QED
    BY <1>1, <1>8, <1>9, <1>10, <1>11, <1>12, <1>13, <1>14, <1>15, <1>16, <1>17 DEF ReadChunk
<1> QED
  BY <1>7, <1>17 DEF Next

\* So every step keeps the aggregate.
LEMMA StepAggregate == Inv /\ AggregateInv /\ [Next]_vars => AggregateInv'
<1> SUFFICES ASSUME Inv, AggregateInv, [Next]_vars PROVE AggregateInv'
  OBVIOUS
<1>1. /\ events' \in Nat /\ events <= events'
      /\ UNCHANGED out \/ \E c \in Chunks : Appends(c)
  BY StepAppends
<1>2. out \in Seq(Chunks) /\ Said(out) \in Seq(Pieces) /\ events \in Nat
  BY DeltasAssumption DEF Inv, ChunksOK, SaidInv, TypeOK
<1>3. \A i \in DOMAIN out : IsCall(out[i]) => out[i].part \in Nat /\ out[i].part <= events
  <2>1. \A i \in DOMAIN out : out[i] \in Chunks
    BY <1>2
  <2> QED
    BY <2>1, CallTyped DEF AggregateInv
<1>4. CASE UNCHANGED out
  <2>1. AggregateOf(out', Aggregating!Folded(out'))
    BY <1>4 DEF AggregateInv
  <2>2. \A i \in DOMAIN out' : IsCall(out'[i]) => out'[i].part <= events'
    BY <1>1, <1>2, <1>3, <1>4
  <2> QED
    BY <2>1, <2>2 DEF AggregateInv
<1>5. ASSUME NEW c \in Chunks, Appends(c)
      PROVE  AggregateInv'
  <2>1. out' = Append(out, c)
    BY <1>5 DEF Appends
  <2>2. AggregateOf(Append(out, c), Aggregating!Folded(Append(out, c)))
    BY <1>2, <1>5, AggregateOfAppend DEF Appends, AggregateInv
  <2>3. \A i \in DOMAIN out' : IsCall(out'[i]) => out'[i].part <= events'
    <3>1. TAKE i \in DOMAIN out'
    <3>2. CASE i \in DOMAIN out
      <4>1. out'[i] = out[i]
        BY <1>2, <2>1, <3>2, Appended
      <4> QED
        BY <1>1, <1>2, <1>3, <3>2, <4>1
    <3>3. CASE i = Len(out) + 1
      <4>1. out'[i] = c
        BY <1>2, <2>1, <3>3, Appended
      <4> QED
        BY <1>5, <4>1 DEF Appends
    <3> QED
      BY <1>2, <2>1, <3>2, <3>3, Appended
  <2> QED
    BY <2>1, <2>2, <2>3 DEF AggregateInv
<1> QED
  BY <1>1, <1>4, <1>5

\* The aggregate of the chunks, in every state.
THEOREM AggregateInvariance == Spec => []AggregateInv
<1>1. Init => AggregateInv
  BY AggregateOfNone DEF Init, AggregateInv
<1> QED
  BY <1>1, StepAggregate, Invariance, PTL DEF Spec

-----------------------------------------------------------------------------
(* From the aggregate to the answer. *)

\* The first c members of e.
Members(e, c) == [k \in 1..c |-> e[k]]

\* The same, each as a sequence of its own.
Singles(e, c) == [k \in 1..c |-> <<e[k]>>]

\* FlattenSeq puts them together again.
LEMMA FlattenSingles ==
  ASSUME NEW V, NEW c \in Nat, NEW e, \A k \in 1..c : e[k] \in V
  PROVE  FlattenSeq(Singles(e, c)) = Members(e, c)
<1> DEFINE T == {n \in Nat : n <= c =>
                   FlattenSeq([k \in 1..n |-> <<e[k]>>]) = [k \in 1..n |-> e[k]]}
<1>1. 0 \in T
  <2>1. [k \in 1..0 |-> <<e[k]>>] = <<>> /\ [k \in 1..0 |-> e[k]] = <<>>
    OBVIOUS
  <2> QED
    BY <2>1, FlattenEmpty
<1>2. ASSUME NEW n \in T PROVE n + 1 \in T
  <2>1. PICK N \in Nat : N = n + 1
    OBVIOUS
  <2>2. n \in Nat
    OBVIOUS
  <2>3. CASE N <= c
    <3> DEFINE ss == [k \in 1..n |-> <<e[k]>>]
               tt == [k \in 1..N |-> <<e[k]>>]
               es == [k \in 1..n |-> e[k]]
               fs == [k \in 1..N |-> e[k]]
    <3>1. n <= c /\ FlattenSeq(ss) = es
      BY <2>1, <2>3
    <3>2. \A k \in 1..N : e[k] \in V /\ <<e[k]>> \in Seq(V)
      BY <2>1, <2>2, <2>3
    <3>3. ss \in Seq(Seq(V)) /\ es \in Seq(V) /\ fs \in Seq(V)
      BY <2>1, <2>2, <3>2
    <3>4. tt = Append(ss, <<e[N]>>)
      BY <2>1, <2>2
    <3>5. N \in 1..N /\ e[N] \in V /\ <<e[N]>> \in Seq(V)
      BY <2>1, <2>2, <3>2
    <3>6. FlattenSeq(Append(ss, <<e[N]>>)) =
            (IF ss = <<>> THEN <<e[N]>> ELSE FlattenSeq(ss) \o <<e[N]>>)
      <4> HIDE DEF ss
      <4> QED
        BY <3>3, <3>5, FlattenAppend
    <3>7. es \o <<e[N]>> = fs
      BY <2>1, <2>2, <3>3, <3>5, SeqEqual
    <3>8. ss = <<>> => es \o <<e[N]>> = <<e[N]>>
      <4>1. Len(ss) = n /\ Len(es) = n
        BY <2>2
      <4>2. ss = <<>> => es = <<>>
        <5>1. ss = <<>> => Len(es) = 0
          BY <4>1
        <5> HIDE DEF ss, es
        <5> QED
          BY <3>3, <5>1, EmptySeq
      <4>3. <<>> \o <<e[N]>> = <<e[N]>>
        BY ONLY <3>5
      <4> QED
        BY <4>2, <4>3
    <3> QED
      BY <2>1, <3>1, <3>4, <3>6, <3>7, <3>8
  <2> QED
    BY <2>1, <2>3
<1>3. T = Nat
  <2> HIDE DEF T
  <2>1. T \subseteq Nat
    BY DEF T
  <2> QED
    BY <1>1, <1>2, <2>1, Aggregating!Induct
<1>4. c \in T
  BY <1>3
<1>5. FlattenSeq([k \in 1..c |-> <<e[k]>>]) = [k \in 1..c |-> e[k]]
  BY <1>4
<1> QED
  BY <1>5 DEF Singles, Members

\* The indices of the calls are the first n numbers.
Numbered(f, n, V) == DOMAIN f = 0..(n - 1) /\ \A k \in DOMAIN f : f[k] \in V

\* The calls are given in the order of their indices.
InOrder(f, n) ==
  Len(ToolCalls(f)) = n /\ \A k \in 0..(n - 1) : ToolCalls(f)[k + 1] = f[k]

\* So they are if the indices have no gap.
LEMMA CallsInOrder ==
  ASSUME NEW V, NEW n \in Nat, NEW f, Numbered(f, n, V)
  PROVE  ToolCalls(f) \in Seq(V) /\ InOrder(f, n)
<1> DEFINE e == [k \in 1..n |-> f[k - 1]]
<1> USE DEF Numbered
<1>1. Cardinality(DOMAIN f) = n
  BY FS_Interval
<1>2. [k \in 1..n |-> IF k - 1 \in DOMAIN f THEN <<f[k - 1]>> ELSE <<>>] = Singles(e, n)
  BY DEF Singles
<1>3. (\A k \in 1..n : e[k] \in V) /\ e = Members(e, n)
  BY DEF Members
<1>4. FlattenSeq(Singles(e, n)) = Members(e, n)
  <2> HIDE DEF e
  <2> QED
    BY ONLY n \in Nat, <1>3, FlattenSingles
<1>5. ToolCalls(f) = e
  BY <1>1, <1>2, <1>3, <1>4 DEF ToolCalls
<1> QED
  BY <1>3, <1>5 DEF InOrder

\* What a function makes of a finite set is finite.
LEMMA FiniteImage ==
  ASSUME NEW S, IsFiniteSet(S), NEW g
  PROVE  IsFiniteSet({g[i] : i \in S})
<1> DEFINE T == {g[i] : i \in S}
           h == [i \in S |-> g[i]]
<1>1. h \in Surjection(S, T)
  BY DEF Surjection
<1> HIDE DEF h
<1>2. IsFiniteSet(T)
  BY <1>1, FS_Surjection
<1> QED
  BY <1>2

\* The parts of a call, in order and none of another.
LEMMA PartsTold ==
  ASSUME NEW cs \in Seq(Chunks), NEW k, NEW parts, PartsOf(cs, k, parts)
  PROVE  ToSet(parts) = {cs[i].part : i \in {i \in DOMAIN cs : IsCall(cs[i]) /\ cs[i].index = k}}
<1> DEFINE R == {cs[i].part : i \in {i \in DOMAIN cs : IsCall(cs[i]) /\ cs[i].index = k}}
<1>1. \A p \in Nat : (\E j \in DOMAIN parts : parts[j] = p) <=> Has(cs, PartChunks(k, p))
  BY DEF PartsOf
<1>2. parts \in Seq(Nat)
  BY DEF PartsOf
<1>3. ToSet(parts) = {parts[j] : j \in DOMAIN parts}
  BY DEF ToSet
<1>4. \A j \in DOMAIN parts : parts[j] \in Nat
  BY <1>2
<1>5. \A i \in DOMAIN cs : cs[i] \in Chunks
  OBVIOUS
<1>6. ASSUME NEW p \in ToSet(parts) PROVE p \in R
  <2>1. p \in Nat /\ \E j \in DOMAIN parts : parts[j] = p
    BY <1>3, <1>4
  <2>2. Has(cs, PartChunks(k, p))
    BY <1>1, <2>1
  <2>3. PICK i \in DOMAIN cs : IsCall(cs[i]) /\ cs[i].index = k /\ cs[i].part = p
    BY <2>2 DEF Has, PartChunks
  <2> QED
    BY <2>3
<1>7. ASSUME NEW p \in R PROVE p \in ToSet(parts)
  <2>1. PICK i \in DOMAIN cs : IsCall(cs[i]) /\ cs[i].index = k /\ cs[i].part = p
    OBVIOUS
  <2>2. p \in Nat /\ cs[i] \in PartChunks(k, p)
    BY <1>5, <2>1, CallTyped DEF PartChunks
  <2>3. Has(cs, PartChunks(k, p))
    BY <2>2 DEF Has
  <2> QED
    BY <1>1, <1>3, <2>2, <2>3
<1> QED
  BY <1>6, <1>7

\* A request that is not streamed is answered as the chunks say, however many there are
\* (aggregateChat).
THEOREM AggregateHolds == Spec => []AggregateFaithful
<1>1. Inv /\ AggregateInv => AggregateFaithful
  <2> SUFFICES ASSUME Inv, AggregateInv, result # "reading" PROVE AggregateFaithful
    BY DEF AggregateFaithful
  <2> DEFINE a        == Aggregating!Folded(out)
             answer   == aggregateChat(out)
             natives  == {i \in DOMAIN out : out[i].kind = "native"}
             told     == {out[i].index : i \in natives}
             Parts(k) == {out[i].part : i \in {i \in natives : out[i].index = k}}
  <2>1. out \in Seq(Chunks) /\ Len(out) \in Nat /\ DOMAIN out = 1..Len(out)
    BY DEF Inv, ChunksOK
  <2>2. /\ a.content = Said(out)
        /\ a.complete <=> Has(out, {Chunk("done")})
        /\ a.finish # "" => Has(out, {Finish(a.finish)})
        /\ CallMap(out, a.tools)
    BY DEF AggregateInv, AggregateOf
  <2>3. /\ answer.answered = a.complete /\ answer.content = a.content
        /\ answer.finish = a.finish /\ answer.calls = ToolCalls(a.tools)
    BY AggregateFolds DEF aggregateChat
  <2> HIDE DEF a, answer
  <2>4. answer.answered <=> result = "eof"
    <3>1. Has(out, {Chunk("done")}) <=> done
      <4>1. done => Len(out) \in DOMAIN out /\ out[Len(out)] = Chunk("done")
        BY <2>1 DEF Inv, FinishInv, EndInv
      <4>2. \A i \in DOMAIN out : out[i] = Chunk("done") => done
        BY ChunkKinds DEF Inv, FinishInv
      <4> QED
        BY <4>1, <4>2 DEF Has
    <3>2. result = "eof" <=> done
      BY DEF Inv, EndInv, TypeOK
    <3> QED
      BY <2>2, <2>3, <3>1, <3>2
  <2>5. ASSUME state # "emitted"
        PROVE  received \in {answer.content, Append(answer.content, "Tool")}
    <3>1. Said(out) \in Seq(Pieces) /\ received = Said(out) \o buf /\ buf \in {<<>>, <<"Tool">>}
      BY <2>5 DEF Inv, SaidInv, HoldInv
    <3>2. Said(out) \o <<>> = Said(out) /\ Said(out) \o <<"Tool">> = Append(Said(out), "Tool")
      <4>1. "Tool" \in Pieces
        BY DEF Pieces
      <4> QED
        BY <3>1, <4>1, AppendIsConcat
    <3> QED
      BY <2>2, <2>3, <3>1, <3>2
  <2>6. ASSUME answer.finish = "stop" PROVE answer.calls = <<>>
    <3>1. Has(out, {Finish("stop")})
      BY <2>2, <2>3, <2>6
    <3>2. PICK i \in DOMAIN out : out[i] = Finish("stop")
      BY <3>1 DEF Has
    <3>3. out[i].kind = "finish" /\ out[i].reason = "stop"
      BY <3>2, ChunkKinds
    <3>4. state # "emitted"
      BY <3>3 DEF Inv, CallsInv
    <3>5. \A j \in DOMAIN out : ~IsCall(out[j])
      BY <3>4 DEF Inv, CallsInv, IsCall
    <3>6. \A k : ~Has(out, CallChunks(k))
      BY <3>5 DEF Has, CallChunks
    <3>7. DOMAIN a.tools = {}
      BY <2>2, <3>6 DEF CallMap
    <3>8. Numbered(a.tools, 0, {})
      BY <3>7 DEF Numbered
    <3>9. ToolCalls(a.tools) \in Seq({}) /\ InOrder(a.tools, 0)
      BY ONLY <3>8, CallsInOrder
    <3> QED
      BY <2>3, <3>9, EmptySeq DEF InOrder
  <2>7. ASSUME "calls" \notin Kinds(out), told = 0..(Cardinality(told) - 1)
        PROVE  /\ Len(answer.calls) = Cardinality(told)
               /\ \A k \in told :
                    LET parts == answer.calls[k + 1]
                    IN  /\ ToSet(parts) = Parts(k)
                        /\ \A b, c \in DOMAIN parts : b < c => parts[b] < parts[c]
    <3> DEFINE f == a.tools
    <3>1. \A i \in DOMAIN out : out[i] \in Chunks /\ (IsCall(out[i]) <=> out[i].kind = "native")
      BY <2>1, <2>7 DEF Kinds, IsCall, CallKinds
    <3>2. PICK n \in Nat : n = Cardinality(told)
      <4>1. IsFiniteSet(DOMAIN out)
        BY <2>1, FS_Interval
      <4>2. natives \subseteq DOMAIN out
        OBVIOUS
      <4>3. IsFiniteSet(natives)
        BY ONLY <4>1, <4>2, FS_Subset
      <4> DEFINE g == [i \in natives |-> out[i].index]
      <4>4. IsFiniteSet({g[i] : i \in natives})
        <5> HIDE DEF g, natives
        <5> QED
          BY <4>3, FiniteImage
      <4>5. told = {g[i] : i \in natives}
        OBVIOUS
      <4> QED
        BY <4>4, <4>5, FS_CardinalityType
    <3>3. DOMAIN f = told
      <4>1. \A k : Has(out, CallChunks(k)) <=> k \in told
        BY <3>1 DEF Has, CallChunks
      <4> QED
        BY <2>2, <4>1 DEF CallMap
    <3>4. \A k \in DOMAIN f : PartsOf(out, k, f[k]) /\ f[k] \in Seq(Nat)
      BY <2>2 DEF CallMap, PartsOf
    <3>5. \A k \in told :
             Parts(k) = {out[i].part : i \in {i \in DOMAIN out : IsCall(out[i]) /\ out[i].index = k}}
      BY <3>1
    <3>6. DOMAIN f = 0..(n - 1)
      BY <2>7, <3>2, <3>3
    <3> HIDE DEF told, natives
    <3>7. /\ Len(ToolCalls(f)) = n
          /\ \A k \in 0..(n - 1) : ToolCalls(f)[k + 1] = f[k]
      <4>1. Numbered(f, n, Seq(Nat))
        BY <3>4, <3>6 DEF Numbered
      <4> HIDE DEF f
      <4>2. InOrder(f, n)
        BY ONLY n \in Nat, <4>1, CallsInOrder
      <4> QED
        BY <4>2 DEF InOrder
    <3>8. ASSUME NEW k \in told
          PROVE  /\ ToSet(f[k]) = Parts(k)
                 /\ \A b, c \in DOMAIN f[k] : b < c => f[k][b] < f[k][c]
      <4>1. PartsOf(out, k, f[k])
        BY <3>3, <3>4
      <4>2. ToSet(f[k]) = Parts(k)
        BY <2>1, <3>5, <4>1, PartsTold
      <4> QED
        BY <4>1, <4>2 DEF PartsOf
    <3>9. \A k \in told : answer.calls[k + 1] = f[k]
      BY <2>3, <3>3, <3>6, <3>7
    <3>10. Len(answer.calls) = Cardinality(told)
      BY <2>3, <3>2, <3>7
    <3> HIDE DEF f, Parts
    <3>11. ASSUME NEW k \in told
           PROVE  LET parts == answer.calls[k + 1]
                  IN  /\ ToSet(parts) = Parts(k)
                      /\ \A b, c \in DOMAIN parts : b < c => parts[b] < parts[c]
      <4>1. answer.calls[k + 1] = f[k]
        BY <3>9
      <4> QED
        BY ONLY <3>8, <4>1
    <3> QED
      BY <3>10, <3>11
  <2> QED
    BY <2>4, <2>5, <2>6, <2>7 DEF AggregateFaithful, answer
<1> QED
  BY <1>1, Invariance, AggregateInvariance, PTL

-----------------------------------------------------------------------------
(* Reading a catalog. *)

\* The members of a sequence that got another one, and of two sequences.
LEMMA ToSetAppend ==
  ASSUME NEW S, NEW s \in Seq(S), NEW x \in S
  PROVE  ToSet(Append(s, x)) = ToSet(s) \union {x}
<1> DEFINE t == Append(s, x)
<1>1. /\ Len(s) \in Nat /\ DOMAIN s = 1..Len(s) /\ DOMAIN t = 1..(Len(s) + 1)
      /\ \A i \in 1..Len(s) : t[i] = s[i]
      /\ t[Len(s) + 1] = x
  OBVIOUS
<1> HIDE DEF t
<1>2. ASSUME NEW i \in DOMAIN t PROVE t[i] \in ToSet(s) \union {x}
  <2>1. CASE i = Len(s) + 1
    BY <1>1, <2>1
  <2>2. CASE i \in 1..Len(s)
    BY <1>1, <2>2 DEF ToSet
  <2> QED
    BY <1>1, <2>1, <2>2
<1>3. ASSUME NEW i \in DOMAIN s PROVE \E j \in DOMAIN t : t[j] = s[i]
  BY <1>1
<1>4. \E j \in DOMAIN t : t[j] = x
  <2>1. Len(s) + 1 \in DOMAIN t
    BY <1>1
  <2> QED
    BY <1>1, <2>1
<1>5. ToSet(t) = ToSet(s) \union {x}
  BY <1>2, <1>3, <1>4 DEF ToSet
<1> QED
  BY <1>5 DEF t

LEMMA ToSetConcat ==
  ASSUME NEW S, NEW s \in Seq(S), NEW t \in Seq(S)
  PROVE  ToSet(s \o t) = ToSet(s) \union ToSet(t)
<1> DEFINE u == s \o t
           m == Len(s)
           n == Len(t)
<1>1. /\ m \in Nat /\ n \in Nat
      /\ DOMAIN s = 1..m /\ DOMAIN t = 1..n /\ DOMAIN u = 1..(m + n)
      /\ \A i \in 1..m : u[i] = s[i]
      /\ \A i \in (m + 1)..(m + n) : u[i] = t[i - m]
  OBVIOUS
<1> HIDE DEF u, m, n
<1>2. ASSUME NEW i \in DOMAIN u PROVE u[i] \in ToSet(s) \union ToSet(t)
  <2>1. CASE i \in 1..m
    BY <1>1, <2>1 DEF ToSet
  <2>2. CASE i \in (m + 1)..(m + n)
    <3>1. i - m \in DOMAIN t /\ u[i] = t[i - m]
      BY <1>1, <2>2
    <3> QED
      BY <3>1 DEF ToSet
  <2> QED
    BY <1>1, <2>1, <2>2
<1>3. ASSUME NEW i \in DOMAIN s PROVE \E j \in DOMAIN u : u[j] = s[i]
  <2>1. i \in DOMAIN u /\ u[i] = s[i]
    BY <1>1
  <2> QED
    BY <2>1
<1>4. ASSUME NEW i \in DOMAIN t PROVE \E j \in DOMAIN u : u[j] = t[i]
  <2>1. m + i \in (m + 1)..(m + n) /\ m + i \in DOMAIN u /\ (m + i) - m = i
    BY <1>1
  <2>2. u[m + i] = t[i]
    BY <1>1, <2>1
  <2> QED
    BY <2>1, <2>2
<1>5. ToSet(u) = ToSet(s) \union ToSet(t)
  BY <1>2, <1>3, <1>4 DEF ToSet
<1> QED
  BY <1>5 DEF u

\* FlattenSeq loses no member.
Flattens(S, ss) == FlattenSeq(ss) \in Seq(S) /\ ToSet(FlattenSeq(ss)) = Entries(ss)

\* The members of the sequences, with one more of them.
LEMMA EntriesAppend ==
  ASSUME NEW S, NEW ss \in Seq(Seq(S)), NEW s \in Seq(S)
  PROVE  Entries(Append(ss, s)) = Entries(ss) \union ToSet(s)
<1> DEFINE tt == Append(ss, s)
<1>1. /\ Len(ss) \in Nat /\ DOMAIN ss = 1..Len(ss) /\ DOMAIN tt = 1..(Len(ss) + 1)
      /\ \A i \in 1..Len(ss) : tt[i] = ss[i]
      /\ tt[Len(ss) + 1] = s
  OBVIOUS
<1> HIDE DEF tt
<1>2. ASSUME NEW i \in DOMAIN tt PROVE tt[i] = s \/ \E j \in DOMAIN ss : ss[j] = tt[i]
  <2>1. CASE i = Len(ss) + 1
    BY <1>1, <2>1
  <2>2. CASE i \in 1..Len(ss)
    BY <1>1, <2>2
  <2> QED
    BY <1>1, <2>1, <2>2
<1>3. ASSUME NEW i \in DOMAIN ss PROVE \E j \in DOMAIN tt : tt[j] = ss[i]
  BY <1>1
<1>4. \E j \in DOMAIN tt : tt[j] = s
  <2>1. Len(ss) + 1 \in DOMAIN tt
    BY <1>1
  <2> QED
    BY <1>1, <2>1
<1>5. ASSUME NEW m PROVE m \in Entries(tt) <=> m \in Entries(ss) \union ToSet(s)
  <2>1. m \in Entries(tt) <=> \E i \in DOMAIN tt : m \in ToSet(tt[i])
    BY DEF Entries
  <2>2. m \in Entries(ss) <=> \E i \in DOMAIN ss : m \in ToSet(ss[i])
    BY DEF Entries
  <2>3. m \in Entries(tt) => m \in Entries(ss) \union ToSet(s)
    BY <1>2, <2>1, <2>2
  <2>4. m \in ToSet(s) => m \in Entries(tt)
    BY <1>4, <2>1
  <2>5. m \in Entries(ss) => m \in Entries(tt)
    <3>1. SUFFICES ASSUME NEW i \in DOMAIN ss, m \in ToSet(ss[i]) PROVE m \in Entries(tt)
      BY <2>2
    <3>2. PICK j \in DOMAIN tt : tt[j] = ss[i]
      BY <1>3
    <3> QED
      BY <2>1, <3>1, <3>2
  <2> QED
    BY <2>3, <2>4, <2>5
<1> QED
  BY <1>5 DEF tt

LEMMA FlattenMembers ==
  ASSUME NEW S, NEW ss \in Seq(Seq(S))
  PROVE  Flattens(S, ss)
<1> DEFINE T == {tt \in Seq(Seq(S)) : Flattens(S, tt)}
<1>1. <<>> \in T
  <2>1. FlattenSeq(<<>>) = <<>> /\ <<>> \in Seq(S) /\ DOMAIN <<>> = {} /\ <<>> \in Seq(Seq(S))
    BY FlattenEmpty
  <2> QED
    BY <2>1 DEF Flattens, ToSet, Entries
<1>2. ASSUME NEW rr \in T, NEW s \in Seq(S) PROVE Append(rr, s) \in T
  <2>1. FlattenSeq(rr) \in Seq(S) /\ ToSet(FlattenSeq(rr)) = Entries(rr)
    BY DEF Flattens
  <2>2. FlattenSeq(Append(rr, s)) = (IF rr = <<>> THEN s ELSE FlattenSeq(rr) \o s)
    BY FlattenAppend
  <2>3. FlattenSeq(Append(rr, s)) = FlattenSeq(rr) \o s
    BY <2>1, <2>2, FlattenEmpty
  <2>4. FlattenSeq(Append(rr, s)) \in Seq(S)
    BY <2>1, <2>3
  <2>5. ToSet(FlattenSeq(Append(rr, s))) = Entries(rr) \union ToSet(s)
    BY <2>1, <2>3, ToSetConcat
  <2>6. Entries(Append(rr, s)) = Entries(rr) \union ToSet(s)
    BY EntriesAppend
  <2>7. Append(rr, s) \in Seq(Seq(S)) /\ Flattens(S, Append(rr, s))
    BY <2>4, <2>5, <2>6 DEF Flattens
  <2> QED
    BY <2>7
<1>3. T = Seq(Seq(S))
  <2> HIDE DEF T
  <2>1. T \in SUBSET Seq(Seq(S))
    BY DEF T
  <2> QED
    BY <1>1, <1>2, <2>1, Aggregating!SeqInduct
<1> QED
  BY <1>3

\* A permutation of 1..n takes every value.
LEMMA OrderReaches ==
  ASSUME NEW n \in Nat, NEW order \in Orders(n)
  PROVE  \A i \in 1..n : \E j \in 1..n : order[j] = i
<1>1. order \in [1..n -> 1..n] /\ \A i, j \in 1..n : order[i] = order[j] => i = j
  BY DEF Orders
<1>2. order \in Injection(1..n, 1..n)
  <2>1. DOMAIN order = 1..n
    BY <1>1
  <2>2. IsInjective(order)
    BY ONLY <1>1, <2>1 DEF IsInjective
  <2> QED
    BY ONLY <1>1, <2>2 DEF Injection
<1>3. IsFiniteSet(1..n)
  BY FS_Interval
<1>4. order \in Surjection(1..n, 1..n)
  BY ONLY <1>2, <1>3, FS_Injection
<1> QED
  BY ONLY <1>4 DEF Surjection

-----------------------------------------------------------------------------
(* What a fetch returns. *)

\* The IDs of a set of entries: one may be missing.
IDsOf(E) == {m.id : m \in E} \ {NoWord}

\* r has entries of s, and all their IDs.
KeepsIDs(s, r) == r \in Seq(ToSet(s)) /\ IDsOf(ToSet(r)) = IDsOf(ToSet(s))

KeepingOne == INSTANCE FoldLemmas WITH Step <- Distinct, Start <- <<>>, Good <- KeepsIDs

LEMMA IDsAppend ==
  ASSUME NEW S, NEW s \in Seq(S), NEW x \in S
  PROVE  IDsOf(ToSet(Append(s, x))) = IDsOf(ToSet(s)) \union (IF x.id = NoWord THEN {} ELSE {x.id})
<1>1. ToSet(Append(s, x)) = ToSet(s) \union {x}
  BY ToSetAppend
<1> QED
  BY <1>1 DEF IDsOf

\* Of each ID an entry stays.
LEMMA DistinctKeepsIDs ==
  ASSUME NEW S, NEW s \in Seq(S)
  PROVE  KeepsIDs(s, FoldLeft(Distinct, <<>>, s))
<1>1. KeepsIDs(<<>>, <<>>)
  BY DEF KeepsIDs, ToSet
<1>2. ASSUME NEW t \in Seq(S), NEW x \in S, NEW r, KeepsIDs(t, r)
      PROVE  KeepsIDs(Append(t, x), Distinct(r, x))
  <2>1. PICK R : R = ToSet(Append(t, x))
    OBVIOUS
  <2>2. R = ToSet(t) \union {x}
    BY <2>1, ToSetAppend
  <2>3. r \in Seq(R) /\ x \in R /\ IDsOf(ToSet(r)) = IDsOf(ToSet(t))
    BY <1>2, <2>2 DEF KeepsIDs
  <2>4. IDsOf(R) = IDsOf(ToSet(t)) \union (IF x.id = NoWord THEN {} ELSE {x.id})
    BY <2>1, IDsAppend
  <2>5. CASE x.id = NoWord \/ \E i \in DOMAIN r : r[i].id = x.id
    <3>1. Distinct(r, x) = r
      BY <2>5 DEF Distinct
    <3>2. x.id = NoWord \/ x.id \in IDsOf(ToSet(r))
      BY <2>5 DEF IDsOf, ToSet
    <3>3. IDsOf(R) = IDsOf(ToSet(r))
      BY <2>3, <2>4, <3>2
    <3> QED
      BY <2>1, <2>3, <3>1, <3>3 DEF KeepsIDs
  <2>6. CASE ~ (x.id = NoWord \/ \E i \in DOMAIN r : r[i].id = x.id)
    <3>1. Distinct(r, x) = Append(r, x)
      BY <2>6 DEF Distinct
    <3>2. IDsOf(ToSet(Append(r, x))) = IDsOf(ToSet(r)) \union (IF x.id = NoWord THEN {} ELSE {x.id})
      BY <2>3, IDsAppend
    <3>3. Append(r, x) \in Seq(R)
      BY <2>3
    <3> QED
      BY <2>1, <2>3, <2>4, <3>1, <3>2, <3>3 DEF KeepsIDs
  <2> QED
    BY <2>5, <2>6
<1>3. KeepsIDs(s, KeepingOne!Folded(s))
  BY <1>1, <1>2, KeepingOne!FoldedGood
<1>4. KeepingOne!Folded(s) = FoldLeft(Distinct, <<>>, s)
  BY DEF KeepingOne!Folded, KeepingOne!FoldLeft, KeepingOne!MapThenFoldSet, KeepingOne!Max,
         FoldLeft, MapThenFoldSet, Max
<1> QED
  BY <1>3, <1>4

\* Scenes in another order have the same entries.
LEMMA OrderKeepsEntries ==
  ASSUME NEW S, NEW ss \in Seq(Seq(S)), NEW order \in Orders(Len(ss)),
         NEW tt, tt = [i \in DOMAIN ss |-> ss[order[i]]]
  PROVE  tt \in Seq(Seq(S)) /\ Entries(tt) = Entries(ss)
<1>1. PICK n \in Nat : n = Len(ss) /\ DOMAIN ss = 1..n
  OBVIOUS
<1>2. order \in [1..n -> 1..n]
  BY <1>1 DEF Orders
<1>3. \A i \in 1..n : \E j \in 1..n : order[j] = i
  BY <1>1, OrderReaches
<1>4. /\ tt \in Seq(Seq(S)) /\ DOMAIN tt = 1..n
      /\ \A i \in 1..n : tt[i] = ss[order[i]]
  <2>1. tt = [i \in 1..n |-> ss[order[i]]]
    BY <1>1
  <2>2. \A i \in 1..n : ss[order[i]] \in Seq(S)
    <3>1. \A j \in 1..n : ss[j] \in Seq(S)
      BY <1>1
    <3>2. \A i \in 1..n : order[i] \in 1..n
      BY <1>2
    <3> QED
      BY ONLY <3>1, <3>2
  <2> QED
    BY <2>1, <2>2
<1>5. ASSUME NEW m PROVE m \in Entries(tt) <=> m \in Entries(ss)
  <2>1. m \in Entries(tt) <=> \E i \in 1..n : m \in ToSet(tt[i])
    BY <1>4 DEF Entries
  <2>2. m \in Entries(ss) <=> \E i \in 1..n : m \in ToSet(ss[i])
    BY <1>1 DEF Entries
  <2>3. m \in Entries(tt) => m \in Entries(ss)
    BY <1>2, <1>4, <2>1, <2>2
  <2>4. m \in Entries(ss) => m \in Entries(tt)
    <3>1. SUFFICES ASSUME NEW i \in 1..n, m \in ToSet(ss[i]) PROVE m \in Entries(tt)
      BY <2>2
    <3>2. PICK j \in 1..n : order[j] = i
      BY <1>3
    <3>3. tt[j] = ss[i]
      BY <1>4, <3>2
    <3> QED
      BY <2>1, <3>1, <3>3
  <2> QED
    BY <2>3, <2>4
<1> QED
  BY <1>4, <1>5

\* A fetch loses no ID of the catalog.
LEMMA FetchKeepsIDs ==
  ASSUME NEW scenes, NEW E, E = Entries(scenes), scenes \in Seq(Seq(E)),
         NEW fetched \in Fetched(scenes)
  PROVE  fetched \in Seq(E) /\ IDsOf(ToSet(fetched)) = IDsOf(E)
<1>1. CASE fetched = FlattenSeq(scenes)
  BY <1>1, FlattenMembers DEF Flattens
<1>2. CASE fetched \in collectModels(scenes) \ {<<>>}
  <2>1. PICK order \in Orders(Len(scenes)) :
          fetched = FoldLeft(Distinct, <<>>, FlattenSeq([i \in DOMAIN scenes |-> scenes[order[i]]]))
    BY <1>2 DEF collectModels
  <2>2. PICK tt : tt = [i \in DOMAIN scenes |-> scenes[order[i]]]
    OBVIOUS
  <2>3. tt \in Seq(Seq(E)) /\ Entries(tt) = E
    BY <2>2, OrderKeepsEntries
  <2>4. PICK s : s = FlattenSeq(tt)
    OBVIOUS
  <2>5. s \in Seq(E) /\ ToSet(s) = E
    BY <2>3, <2>4, FlattenMembers DEF Flattens
  <2>6. fetched = FoldLeft(Distinct, <<>>, s)
    BY <2>1, <2>2, <2>4
  <2>7. KeepsIDs(s, fetched)
    BY <2>5, <2>6, DistinctKeepsIDs
  <2> QED
    BY <2>5, <2>7 DEF KeepsIDs
<1> QED
  BY <1>1, <1>2 DEF Fetched

-----------------------------------------------------------------------------
(* Public IDs and listings. *)

\* Of the numbers that fill a finite set and one more, one is not taken.
LEMMA FreeSuffix ==
  ASSUME NEW D, IsFiniteSet(D), NEW id
  PROVE  \E k \in 2 .. Cardinality(D) + 2 :
            /\ <<id, k>> \notin D
            /\ \A j \in 2 .. k - 1 : <<id, j>> \in D
<1> PICK n \in Nat : n = Cardinality(D)
  BY FS_CardinalityType
<1> DEFINE I == 2..(n + 2)
           F == {k \in I : <<id, k>> \notin D}
<1>1. F # {}
  <2> SUFFICES ASSUME F = {} PROVE FALSE
    OBVIOUS
  <2>1. IsFiniteSet(I) /\ Cardinality(I) = n + 1
    <3>1. PICK b \in Int : b = n + 2
      OBVIOUS
    <3>2. PICK a \in Int : a = 2
      OBVIOUS
    <3>3. IsFiniteSet(a..b) /\ Cardinality(a..b) = IF a > b THEN 0 ELSE b - a + 1
      BY FS_Interval
    <3> QED
      BY <3>1, <3>2, <3>3
  <2> DEFINE f == [k \in I |-> <<id, k>>]
  <2>2. f \in [I -> D]
    OBVIOUS
  <2>3. \E x, y \in I : x # y /\ f[x] = f[y]
    <3> HIDE DEF I, f
    <3>1. Cardinality(D) < Cardinality(I)
      BY <2>1
    <3> QED
      BY <2>1, <2>2, <3>1, FS_PigeonHole
  <2> QED
    BY <2>3
<1>2. F \in SUBSET Nat
  OBVIOUS
<1>3. PICK k \in F : \A y \in F : k <= y
  <2> HIDE DEF F
  <2> QED
    BY <1>1, <1>2, Aggregating!Least
<1>4. ASSUME NEW j \in 2 .. k - 1 PROVE <<id, j>> \in D
  <2>1. j \in I /\ ~ (k <= j)
    OBVIOUS
  <2> QED
    BY <1>3, <2>1
<1> QED
  BY <1>3, <1>4

\* A model that has no public ID yet gets one that no other has; its name is in use then.
LEMMA PublicID ==
  ASSUME NEW name, NEW id, NEW mapping, IsFiniteSet(DOMAIN mapping),
         \A w \in DOMAIN mapping : mapping[w].id # id,
         NEW word, word = uniquePublicModelID(name, id, mapping)
  PROVE  /\ word \notin DOMAIN mapping
         /\ word \in {name, id} \union ({id} \X Nat)
         /\ name \in DOMAIN mapping \union {word}
<1> DEFINE D == DOMAIN mapping
           Free(k) == /\ <<id, k>> \notin D
                      /\ \A j \in 2 .. k - 1 : <<id, j>> \in D
           suffix == CHOOSE k \in 2 .. Cardinality(D) + 2 : Free(k)
<1>1. suffix \in 2 .. Cardinality(D) + 2 /\ Free(suffix)
  <2>1. \E k \in 2 .. Cardinality(D) + 2 : Free(k)
    BY FreeSuffix
  <2> HIDE DEF Free
  <2> QED
    BY <2>1, Zenon
<1>2. suffix \in Nat
  <2>1. Cardinality(D) \in Nat
    BY FS_CardinalityType
  <2> HIDE DEF suffix, D
  <2> QED
    BY <1>1, <2>1
<1>3. word = IF name \notin D THEN name ELSE IF id \notin D THEN id ELSE <<id, suffix>>
  BY DEF uniquePublicModelID
<1>4. <<id, suffix>> \notin D
  BY <1>1
<1> HIDE DEF suffix
<1> QED
  BY <1>2, <1>3, <1>4

\* A row is of a model of E, and its public ID of that model's name and ID.
RowOf(E, r) ==
  \E m \in E : /\ m.id # NoWord
               /\ r.record = [id |-> m.id, meta |-> m.meta]
               /\ r.name = displayNameForModel(m)
               /\ r.public \in {r.name, m.id} \union ({m.id} \X Nat)

\* A row and what the mapping has for it.
RowIn(mapping, r) ==
  /\ r.name \in DOMAIN mapping
  /\ r.public \in DOMAIN mapping
  /\ mapping[r.public] = r.record

IsSequence(s) == \E S : s \in Seq(S)

\* The listing has the models of E, each under an ID of its own.
Lists(E, L) ==
  /\ IsSequence(L.rows)
  /\ IsFiniteSet(DOMAIN L.mapping)
  /\ \A i \in DOMAIN L.rows : RowOf(E, L.rows[i]) /\ RowIn(L.mapping, L.rows[i])
  /\ \A w \in DOMAIN L.mapping : \E i \in DOMAIN L.rows : L.rows[i].public = w
  /\ \A i, j \in DOMAIN L.rows : L.rows[i].public = L.rows[j].public => i = j
  /\ IDsOf(E) = {L.rows[i].record.id : i \in DOMAIN L.rows}

LEMMA EmptyLists == Lists({}, Empty)
<1>1. /\ Empty.rows = <<>> /\ Empty.mapping = <<>> /\ DOMAIN <<>> = {} /\ <<>> \in Seq({})
  BY DEF Empty
<1>2. IsFiniteSet({})
  BY FS_EmptySet
<1>3. IsSequence(<<>>)
  BY <1>1 DEF IsSequence
<1>4. IDsOf({}) = {}
  BY DEF IDsOf
<1> QED
  BY <1>1, <1>2, <1>3, <1>4 DEF Lists

\* A row stays right while the models get more, and with a mapping that grows.
LEMMA RowWider ==
  ASSUME NEW E, NEW F, E \subseteq F, NEW r, RowOf(E, r)
  PROVE  RowOf(F, r)
  BY DEF RowOf

LEMMA RowStays ==
  ASSUME NEW mapping, NEW word, word \notin DOMAIN mapping, NEW record,
         NEW r, RowIn(mapping, r)
  PROVE  RowIn(WithRecord(mapping, word, record), r)
  BY DEF RowIn, WithRecord

\* The steps of AddModel.
LEMMA AddLists ==
  ASSUME NEW E, NEW L, Lists(E, L), NEW m
  PROVE  Lists(E \union {m}, AddModel(L, m))
<1>0. PICK F : F = E \union {m}
  OBVIOUS
<1>1. /\ IsSequence(L.rows)
      /\ IsFiniteSet(DOMAIN L.mapping)
      /\ \A i \in DOMAIN L.rows : RowOf(E, L.rows[i]) /\ RowIn(L.mapping, L.rows[i])
      /\ \A w \in DOMAIN L.mapping : \E i \in DOMAIN L.rows : L.rows[i].public = w
      /\ \A i, j \in DOMAIN L.rows : L.rows[i].public = L.rows[j].public => i = j
      /\ IDsOf(E) = {L.rows[i].record.id : i \in DOMAIN L.rows}
  BY DEF Lists
<1>2. \A i \in DOMAIN L.rows : RowOf(F, L.rows[i])
  BY <1>0, <1>1, RowWider
<1>3. IDsOf(F) = IDsOf(E) \union (IF m.id = NoWord THEN {} ELSE {m.id})
  BY <1>0 DEF IDsOf
<1>4. CASE m.id = NoWord \/ \E i \in DOMAIN L.rows : L.rows[i].record.id = m.id
  <2>1. AddModel(L, m) = L
    BY <1>4 DEF AddModel
  <2>2. m.id = NoWord \/ m.id \in IDsOf(E)
    BY <1>1, <1>4
  <2>3. IDsOf(F) = IDsOf(E)
    BY <1>3, <2>2
  <2>4. Lists(F, L)
    BY <1>1, <1>2, <2>3 DEF Lists
  <2> QED
    BY <1>0, <2>1, <2>4
<1>5. CASE ~ (m.id = NoWord \/ \E i \in DOMAIN L.rows : L.rows[i].record.id = m.id)
  <2>1. PICK name : name = displayNameForModel(m)
    OBVIOUS
  <2>2. PICK word : word = uniquePublicModelID(name, m.id, L.mapping)
    OBVIOUS
  <2>3. PICK record : record = [id |-> m.id, meta |-> m.meta]
    OBVIOUS
  <2>4. PICK row : row = [public |-> word, name |-> name, record |-> record]
    OBVIOUS
  <2>5. PICK M : M = WithRecord(L.mapping, word, record)
    OBVIOUS
  <2>6. PICK rows : rows = Append(L.rows, row)
    OBVIOUS
  <2>7. AddModel(L, m) = [mapping |-> M, rows |-> rows]
    BY <1>5, <2>1, <2>2, <2>3, <2>4, <2>5, <2>6 DEF AddModel
  <2>8. /\ word \notin DOMAIN L.mapping
        /\ word \in {name, m.id} \union ({m.id} \X Nat)
        /\ name \in DOMAIN L.mapping \union {word}
    <3>1. \A w \in DOMAIN L.mapping : L.mapping[w].id # m.id
      BY <1>1, <1>5 DEF RowIn
    <3> QED
      BY <1>1, <2>2, <3>1, PublicID
  <2>9. DOMAIN M = DOMAIN L.mapping \union {word} /\ M[word] = record
    BY <2>5 DEF WithRecord
  <2>10. PICK n \in Nat :
           /\ n = Len(L.rows)
           /\ DOMAIN L.rows = 1..n /\ DOMAIN rows = 1..(n + 1)
           /\ \A i \in 1..n : rows[i] = L.rows[i]
           /\ rows[n + 1] = row
           /\ IsSequence(rows)
    <3>1. PICK S : L.rows \in Seq(S)
      BY <1>1 DEF IsSequence
    <3>2. PICK R : R = S \union {row}
      OBVIOUS
    <3>3. L.rows \in Seq(R) /\ row \in R
      BY <3>1, <3>2
    <3>4. rows \in Seq(R) /\ Len(rows) = Len(L.rows) + 1
      BY <2>6, <3>3
    <3> QED
      BY <2>6, <3>3, <3>4 DEF IsSequence
  <2>11. RowOf(F, row) /\ RowIn(M, row)
    <3>1. RowOf(F, row)
      BY <1>0, <1>5, <2>1, <2>3, <2>4, <2>8 DEF RowOf
    <3>2. RowIn(M, row)
      BY <2>4, <2>8, <2>9 DEF RowIn
    <3> QED
      BY <3>1, <3>2
  <2>12. \A i \in 1..n : RowOf(F, rows[i]) /\ RowIn(M, rows[i])
    <3>1. SUFFICES ASSUME NEW i \in 1..n PROVE RowOf(F, rows[i]) /\ RowIn(M, rows[i])
      OBVIOUS
    <3>2. rows[i] = L.rows[i] /\ RowOf(F, rows[i]) /\ RowIn(L.mapping, rows[i])
      BY <1>1, <1>2, <2>10
    <3>3. RowIn(M, rows[i])
      BY <2>5, <2>8, <3>2, RowStays
    <3> QED
      BY <3>2, <3>3
  <2>13. \A i \in 1..(n + 1) : i = n + 1 \/ i \in 1..n
    BY <2>10
  <2>14. \A i \in DOMAIN rows : RowOf(F, rows[i]) /\ RowIn(M, rows[i])
    BY <2>10, <2>11, <2>12, <2>13
  <2>15. \A w \in DOMAIN M : \E i \in DOMAIN rows : rows[i].public = w
    <3>1. n + 1 \in 1..(n + 1) /\ 1..n \subseteq 1..(n + 1)
      BY <2>10
    <3>2. row.public = word
      BY <2>4
    <3> QED
      BY <1>1, <2>9, <2>10, <3>1, <3>2
  <2>16. \A i \in 1..n : rows[i].public # word
    <3>1. SUFFICES ASSUME NEW i \in 1..n PROVE rows[i].public # word
      OBVIOUS
    <3>2. rows[i] = L.rows[i] /\ RowIn(L.mapping, L.rows[i])
      BY <1>1, <2>10
    <3> QED
      BY <2>8, <3>2 DEF RowIn
  <2>17. \A i, j \in DOMAIN rows : rows[i].public = rows[j].public => i = j
    <3>1. row.public = word
      BY <2>4
    <3> QED
      BY <1>1, <2>10, <2>13, <2>16, <3>1
  <2>18. IDsOf(F) = {rows[i].record.id : i \in DOMAIN rows}
    <3>1. row.record.id = m.id
      BY <2>3, <2>4
    <3>2. ASSUME NEW x PROVE x \in IDsOf(F) <=> \E i \in DOMAIN rows : rows[i].record.id = x
      <4>1. x \in IDsOf(F) <=> x = m.id \/ x \in IDsOf(E)
        BY <1>3, <1>5
      <4>2. x \in IDsOf(E) <=> \E i \in 1..n : L.rows[i].record.id = x
        BY <1>1, <2>10
      <4>3. x \in IDsOf(E) => \E i \in DOMAIN rows : rows[i].record.id = x
        <5>1. 1..n \subseteq DOMAIN rows
          BY <2>10
        <5> QED
          BY <2>10, <4>2, <5>1
      <4>4. n + 1 \in DOMAIN rows
        BY <2>10
      <4>5. (\E i \in DOMAIN rows : rows[i].record.id = x) => x = m.id \/ x \in IDsOf(E)
        BY <2>10, <2>13, <3>1, <4>2
      <4> QED
        BY <2>10, <3>1, <4>1, <4>3, <4>4, <4>5
    <3> QED
      BY <3>2
  <2>19. IsFiniteSet(DOMAIN M)
    BY <1>1, <2>9, FS_AddElement
  <2> QED
    <3>1. PICK N : N = [mapping |-> M, rows |-> rows]
      OBVIOUS
    <3>2. N.mapping = M /\ N.rows = rows
      BY <3>1
    <3>3. Lists(F, N)
      BY <2>10, <2>14, <2>15, <2>17, <2>18, <2>19, <3>2 DEF Lists
    <3> QED
      BY <1>0, <2>7, <3>1, <3>3
<1> QED
  BY <1>4, <1>5

\* What models does with a fetched list.
ListsAll(s, L) == Lists(ToSet(s), L)

AddingModels == INSTANCE FoldLemmas WITH Step <- AddModel, Start <- Empty, Good <- ListsAll

LEMMA ListingLists ==
  ASSUME NEW S, NEW s \in Seq(S)
  PROVE  Lists(ToSet(s), Listing(s))
<1>1. ListsAll(<<>>, Empty)
  <2>1. ToSet(<<>>) = {}
    BY DEF ToSet
  <2> QED
    BY <2>1, EmptyLists DEF ListsAll
<1>2. ASSUME NEW t \in Seq(S), NEW m \in S, NEW L, ListsAll(t, L)
      PROVE  ListsAll(Append(t, m), AddModel(L, m))
  BY <1>2, ToSetAppend, AddLists DEF ListsAll
<1>3. ListsAll(s, AddingModels!Folded(s))
  BY <1>1, <1>2, AddingModels!FoldedGood
<1>4. AddingModels!Folded(s) = Listing(s)
  BY DEF AddingModels!Folded, AddingModels!FoldLeft, AddingModels!MapThenFoldSet, AddingModels!Max,
         Listing, FoldLeft, MapThenFoldSet, Max
<1> QED
  BY <1>3, <1>4 DEF ListsAll

\* A listing of entries that have all IDs is one of the whole catalog.
LEMMA ListsWider ==
  ASSUME NEW E, NEW F, E \subseteq F, IDsOf(E) = IDsOf(F), NEW L, Lists(E, L)
  PROVE  Lists(F, L)
  BY RowWider DEF Lists

LEMMA FetchLists ==
  ASSUME NEW scenes, scenes \in Seq(Seq(Entries(scenes))), NEW fetched \in Fetched(scenes)
  PROVE  Lists(Entries(scenes), Listing(fetched))
<1>1. PICK E : E = Entries(scenes)
  OBVIOUS
<1>2. fetched \in Seq(E) /\ IDsOf(ToSet(fetched)) = IDsOf(E)
  BY <1>1, FetchKeepsIDs
<1>3. ToSet(fetched) \subseteq E
  BY <1>2 DEF ToSet
<1>4. Lists(ToSet(fetched), Listing(fetched))
  BY <1>2, ListingLists
<1> QED
  BY <1>1, <1>2, <1>3, <1>4, ListsWider

\* The rows of the panel are of models of the catalog.
PanelRow(E, r) == \E m \in E : m.id # NoWord /\ r.id = m.id /\ r.name = displayNameForModel(m)

Shows(E, rows) ==
  /\ IsSequence(rows)
  /\ \A i \in DOMAIN rows : PanelRow(E, rows[i])

LEMMA AddShows ==
  ASSUME NEW E, NEW rows, Shows(E, rows), NEW m
  PROVE  Shows(E \union {m}, AddRow(rows, m))
<1> DEFINE F == E \union {m}
<1>1. IsSequence(rows) /\ \A i \in DOMAIN rows : PanelRow(F, rows[i])
  BY DEF Shows, PanelRow
<1>2. PICK row : row = [name |-> displayNameForModel(m), id |-> m.id]
  OBVIOUS
<1>3. CASE m.id = NoWord \/ \E i \in DOMAIN rows : rows[i].name = displayNameForModel(m)
  <2>1. AddRow(rows, m) = rows
    BY <1>3 DEF AddRow
  <2> QED
    BY <1>1, <2>1 DEF Shows
<1>4. CASE ~ (m.id = NoWord \/ \E i \in DOMAIN rows : rows[i].name = displayNameForModel(m))
  <2>1. AddRow(rows, m) = Append(rows, row)
    BY <1>2, <1>4 DEF AddRow
  <2>2. PanelRow(F, row)
    BY <1>2, <1>4 DEF PanelRow
  <2>3. PICK S : rows \in Seq(S)
    BY <1>1 DEF IsSequence
  <2>4. PICK R : R = S \union {row}
    OBVIOUS
  <2>5. rows \in Seq(R) /\ row \in R
    BY <2>3, <2>4
  <2>6. PICK all : all = Append(rows, row)
    OBVIOUS
  <2>7. /\ all \in Seq(R) /\ DOMAIN all = 1..(Len(rows) + 1)
        /\ Len(rows) \in Nat /\ DOMAIN rows = 1..Len(rows)
        /\ \A i \in 1..Len(rows) : all[i] = rows[i]
        /\ all[Len(rows) + 1] = row
    BY <2>5, <2>6
  <2>8. \A i \in DOMAIN all : PanelRow(F, all[i])
    <3>1. \A i \in DOMAIN all : i = Len(rows) + 1 \/ i \in 1..Len(rows)
      BY <2>7
    <3> QED
      BY <1>1, <2>2, <2>7, <3>1
  <2> QED
    BY <2>1, <2>6, <2>7, <2>8 DEF Shows, IsSequence
<1> QED
  BY <1>3, <1>4

ShowsAll(s, rows) == Shows(ToSet(s), rows)

AddingRows == INSTANCE FoldLemmas WITH Step <- AddRow, Start <- <<>>, Good <- ShowsAll

LEMMA PanelShows ==
  ASSUME NEW S, NEW s \in Seq(S)
  PROVE  Shows(ToSet(s), PanelRows(s))
<1>1. ShowsAll(<<>>, <<>>)
  <2>1. <<>> \in Seq(S) /\ DOMAIN <<>> = {}
    OBVIOUS
  <2> QED
    BY <2>1 DEF ShowsAll, Shows, IsSequence
<1>2. ASSUME NEW t \in Seq(S), NEW m \in S, NEW rows, ShowsAll(t, rows)
      PROVE  ShowsAll(Append(t, m), AddRow(rows, m))
  BY <1>2, ToSetAppend, AddShows DEF ShowsAll
<1>3. ShowsAll(s, AddingRows!Folded(s))
  BY <1>1, <1>2, AddingRows!FoldedGood
<1>4. AddingRows!Folded(s) = PanelRows(s)
  BY DEF AddingRows!Folded, AddingRows!FoldLeft, AddingRows!MapThenFoldSet, AddingRows!Max,
         PanelRows, FoldLeft, MapThenFoldSet, Max
<1> QED
  BY <1>3, <1>4 DEF ShowsAll

LEMMA FetchShows ==
  ASSUME NEW scenes, scenes \in Seq(Seq(Entries(scenes))), NEW fetched \in Fetched(scenes)
  PROVE  Shows(Entries(scenes), PanelRows(fetched))
<1>1. PICK E : E = Entries(scenes)
  OBVIOUS
<1>2. fetched \in Seq(E)
  BY <1>1, FetchKeepsIDs
<1>3. ToSet(fetched) \subseteq E
  BY <1>2 DEF ToSet
<1>4. Shows(ToSet(fetched), PanelRows(fetched))
  BY <1>2, PanelShows
<1> QED
  BY <1>1, <1>3, <1>4 DEF Shows, PanelRow

-----------------------------------------------------------------------------
(* The account's models while catalogs are stored and requests are made. *)

CatalogTyped ==
  /\ catalog \in Catalogs
  /\ stores \in Nat
  /\ DOMAIN refresh = Refreshers
  /\ \A f \in Refreshers : DOMAIN refresh[f] = {"at", "listing", "store", "catalog"}
  /\ DOMAIN chat = Chats
  /\ \A c \in Chats : DOMAIN chat[c] = {"at", "row", "store", "effort", "opens", "sent", "from"}

\* The registry has the mapping of one listing of its catalog.
RegistryInv ==
  /\ registry.store = stores
  /\ stores = 0 => registry.catalog = <<>>
  /\ stores # 0 => \E L : Lists(Entries(registry.catalog), L) /\ L.mapping = registry.mapping

\* A refresh has a listing of its catalog; the one stored last is what the registry has.
RefreshInv ==
  \A f \in Refreshers :
    /\ refresh[f].at # "idle" => Lists(Entries(refresh[f].catalog), refresh[f].listing)
    /\ refresh[f].at = "stored" =>
         /\ refresh[f].store \in 1..stores
         /\ refresh[f].store = stores => registry.mapping = refresh[f].listing.mapping

\* A row of the store k: as long as none was stored since, its ID resolves to its model.
RowStands(k, row) ==
  /\ row.record.id # NoWord
  /\ k = stores => resolveRecord(registry.mapping, row.public) = row.record

HostInv ==
  /\ host.store \in 0..stores
  /\ \A i \in DOMAIN host.rows : host.store # 0 /\ RowStands(host.store, host.rows[i])

ChatInv ==
  \A c \in Chats :
    /\ chat[c].at = "idle" => chat[c].opens = 0
    /\ chat[c].store \in 0..stores
    /\ chat[c].store # 0 => RowStands(chat[c].store, chat[c].row)

PanelInv == Shows(Entries(panel.catalog), panel.rows)

CatalogInv ==
  CatalogTyped /\ RegistryInv /\ RefreshInv /\ HostInv /\ ChatInv /\ PanelInv /\ ListedModelIsCalled

LEMMA CatalogInitInv == CatalogInit => CatalogInv
<1> SUFFICES ASSUME CatalogInit PROVE CatalogInv
  OBVIOUS
<1> USE DEF CatalogInit
<1>1. CatalogTyped
  BY DEF CatalogTyped
<1>2. RegistryInv /\ RefreshInv
  BY DEF RegistryInv, RefreshInv
<1>3. HostInv /\ ChatInv
  <2>1. DOMAIN <<>> = {}
    OBVIOUS
  <2> QED
    BY <2>1 DEF HostInv, ChatInv
<1>4. PanelInv
  <2>1. DOMAIN <<>> = {} /\ <<>> \in Seq({})
    OBVIOUS
  <2> QED
    BY <2>1 DEF PanelInv, Shows, IsSequence
<1>5. ListedModelIsCalled
  BY DEF ListedModelIsCalled
<1> QED
  BY <1>1, <1>2, <1>3, <1>4, <1>5 DEF CatalogInv

\* A catalog is a sequence of sequences of its entries.
LEMMA CatalogScenes ==
  ASSUME NEW scenes \in Catalogs
  PROVE  scenes \in Seq(Seq(Entries(scenes)))
  BY CatalogAssumption

\* A word that means one model in a catalog is resolved to it by each listing.
LEMMA MeansResolves ==
  ASSUME NEW scenes, NEW L, Lists(Entries(scenes), L), NEW word, NEW record,
         Means(word, scenes, record), record.id # NoWord,
         record.id \in {m.id : m \in Entries(scenes)}
  PROVE  word \in DOMAIN L.mapping /\ L.mapping[word] = record
<1> PICK E : E = Entries(scenes)
  OBVIOUS
<1>1. \A m \in E : /\ displayNameForModel(m) = word => record = [id |-> m.id, meta |-> m.meta]
                   /\ m.id = record.id => displayNameForModel(m) = word
                   /\ m.id = word => m.id = record.id
                   /\ word \notin {m.id} \X Nat
  BY DEF Means
<1>2. /\ \A i \in DOMAIN L.rows : RowOf(E, L.rows[i]) /\ RowIn(L.mapping, L.rows[i])
      /\ \A w \in DOMAIN L.mapping : \E i \in DOMAIN L.rows : L.rows[i].public = w
      /\ IDsOf(E) = {L.rows[i].record.id : i \in DOMAIN L.rows}
  BY DEF Lists
<1>3. word \in DOMAIN L.mapping
  <2>1. record.id \in IDsOf(E)
    BY DEF IDsOf
  <2>2. PICK i \in DOMAIN L.rows : L.rows[i].record.id = record.id
    BY <1>2, <2>1
  <2>3. PICK m \in E : /\ L.rows[i].record = [id |-> m.id, meta |-> m.meta]
                       /\ L.rows[i].name = displayNameForModel(m)
    BY <1>2 DEF RowOf
  <2>4. L.rows[i].name = word
    BY <1>1, <2>2, <2>3
  <2> QED
    BY <1>2, <2>4 DEF RowIn
<1>4. PICK i \in DOMAIN L.rows : L.rows[i].public = word
  BY <1>2, <1>3
<1>5. PICK m \in E : /\ L.rows[i].record = [id |-> m.id, meta |-> m.meta]
                     /\ L.rows[i].name = displayNameForModel(m)
                     /\ word \in {L.rows[i].name, m.id} \union ({m.id} \X Nat)
  BY <1>2, <1>4 DEF RowOf
<1>6. displayNameForModel(m) = word
  BY <1>1, <1>5
<1>7. L.rows[i].record = record
  BY <1>1, <1>5, <1>6
<1> QED
  BY <1>2, <1>3, <1>4, <1>7 DEF RowIn

LEMMA StepChanges == CatalogInv /\ CatalogChanges => CatalogInv'
  BY DEF CatalogInv, CatalogChanges, CatalogTyped, RegistryInv, RefreshInv, HostInv, ChatInv, PanelInv,
         ListedModelIsCalled, RowStands

LEMMA StepManagement == CatalogInv /\ ManagementModels => CatalogInv'
<1> SUFFICES ASSUME CatalogInv, ManagementModels PROVE CatalogInv'
  OBVIOUS
<1>1. PICK fetched \in Fetched(catalog) : panel'.rows = PanelRows(fetched) /\ panel'.catalog = catalog
  BY DEF ManagementModels
<1>2. catalog \in Catalogs
  BY DEF CatalogInv, CatalogTyped
<1>3. Shows(Entries(catalog), PanelRows(fetched))
  BY <1>1, <1>2, CatalogScenes, FetchShows
<1>4. PanelInv'
  BY <1>1, <1>3 DEF PanelInv
<1> QED
  BY <1>4 DEF ManagementModels, CatalogInv, CatalogTyped, RegistryInv, RefreshInv, HostInv, ChatInv,
              ListedModelIsCalled, RowStands

LEMMA StepFetch ==
  ASSUME NEW f \in Refreshers, CatalogInv, FetchModels(f)
  PROVE  CatalogInv'
<1>1. PICK fetched \in Fetched(catalog) :
        refresh' = [refresh EXCEPT ![f] = [at |-> "fetched", listing |-> Listing(fetched),
                                           store |-> 0, catalog |-> catalog]]
  BY DEF FetchModels
<1>2. catalog \in Catalogs /\ CatalogTyped /\ RefreshInv
  BY DEF CatalogInv, CatalogTyped
<1>3. Lists(Entries(catalog), Listing(fetched))
  BY <1>1, <1>2, CatalogScenes, FetchLists
<1>4. UNCHANGED <<catalog, stores, registry, host, panel, chat>>
  BY DEF FetchModels
<1>5. PICK new : new = [at |-> "fetched", listing |-> Listing(fetched), store |-> 0, catalog |-> catalog]
  OBVIOUS
<1>6. /\ DOMAIN refresh' = Refreshers
      /\ refresh'[f] = new
      /\ \A g \in Refreshers : g # f => refresh'[g] = refresh[g]
  BY <1>1, <1>2, <1>5 DEF CatalogTyped
<1>7. CatalogTyped'
  BY <1>2, <1>4, <1>5, <1>6 DEF CatalogTyped
<1>8. RefreshInv'
  <2>1. SUFFICES ASSUME NEW g \in Refreshers
                 PROVE  /\ refresh'[g].at # "idle" => Lists(Entries(refresh'[g].catalog), refresh'[g].listing)
                        /\ refresh'[g].at = "stored" =>
                             /\ refresh'[g].store \in 1..stores
                             /\ refresh'[g].store = stores => registry.mapping = refresh'[g].listing.mapping
    BY <1>4 DEF RefreshInv
  <2>2. CASE g = f
    BY <1>3, <1>5, <1>6, <2>2
  <2>3. CASE g # f
    BY <1>2, <1>6, <2>3 DEF RefreshInv
  <2> QED
    BY <2>2, <2>3
<1> QED
  BY <1>4, <1>7, <1>8 DEF CatalogInv, RegistryInv, HostInv, ChatInv, PanelInv, ListedModelIsCalled,
                          RowStands

LEMMA StepStore ==
  ASSUME NEW f \in Refreshers, CatalogInv, storeCatalog(f)
  PROVE  CatalogInv'
<1>1. /\ refresh[f].at = "fetched"
      /\ stores' = stores + 1
      /\ registry'.mapping = refresh[f].listing.mapping
      /\ registry'.store = stores' /\ registry'.catalog = refresh[f].catalog
      /\ refresh' = [refresh EXCEPT ![f].at = "stored", ![f].store = stores']
      /\ UNCHANGED <<catalog, host, panel, chat>>
  BY DEF storeCatalog
<1>2. CatalogTyped /\ RefreshInv /\ HostInv /\ ChatInv /\ stores \in Nat
  BY DEF CatalogInv, CatalogTyped
<1>3. /\ DOMAIN refresh' = Refreshers
      /\ DOMAIN refresh'[f] = {"at", "listing", "store", "catalog"}
      /\ refresh'[f].at = "stored" /\ refresh'[f].store = stores'
      /\ refresh'[f].listing = refresh[f].listing /\ refresh'[f].catalog = refresh[f].catalog
      /\ \A g \in Refreshers : g # f => refresh'[g] = refresh[g]
  BY <1>1, <1>2 DEF CatalogTyped
<1>4. CatalogTyped'
  BY <1>1, <1>2, <1>3 DEF CatalogTyped
<1>5. Lists(Entries(refresh[f].catalog), refresh[f].listing)
  BY <1>1, <1>2 DEF RefreshInv
<1>6. RegistryInv'
  BY <1>1, <1>2, <1>5 DEF RegistryInv
<1>7. RefreshInv'
  <2>1. SUFFICES ASSUME NEW g \in Refreshers
                 PROVE  /\ refresh'[g].at # "idle" => Lists(Entries(refresh'[g].catalog), refresh'[g].listing)
                        /\ refresh'[g].at = "stored" =>
                             /\ refresh'[g].store \in 1..stores'
                             /\ refresh'[g].store = stores' => registry'.mapping = refresh'[g].listing.mapping
    BY DEF RefreshInv
  <2>2. CASE g = f
    BY <1>1, <1>2, <1>3, <1>5, <2>2
  <2>3. CASE g # f
    BY <1>1, <1>2, <1>3, <2>3 DEF RefreshInv
  <2> QED
    BY <2>2, <2>3
<1>8. \A k, row : k \in 0..stores /\ RowStands(k, row) => RowStands(k, row)'
  BY <1>1, <1>2 DEF RowStands
<1>9. HostInv'
  BY <1>1, <1>2, <1>8 DEF HostInv, RowStands
<1>10. ChatInv'
  BY <1>1, <1>2, <1>8 DEF ChatInv, RowStands
<1> QED
  BY <1>1, <1>4, <1>6, <1>7, <1>9, <1>10 DEF CatalogInv, PanelInv, ListedModelIsCalled

LEMMA StepLists ==
  ASSUME NEW f \in Refreshers, CatalogInv, HostLists(f)
  PROVE  CatalogInv'
<1>1. /\ refresh[f].at = "stored"
      /\ host'.rows = refresh[f].listing.rows /\ host'.store = refresh[f].store
      /\ refresh' = [refresh EXCEPT ![f] = [at |-> "idle", listing |-> Empty, store |-> 0,
                                            catalog |-> <<>>]]
      /\ UNCHANGED <<catalog, stores, registry, panel, chat>>
  BY DEF HostLists
<1>2. CatalogTyped /\ RefreshInv /\ RegistryInv /\ stores \in Nat
  BY DEF CatalogInv, CatalogTyped
<1>3. PICK new : new = [at |-> "idle", listing |-> Empty, store |-> 0, catalog |-> <<>>]
  OBVIOUS
<1>4. /\ DOMAIN refresh' = Refreshers
      /\ refresh'[f] = new
      /\ \A g \in Refreshers : g # f => refresh'[g] = refresh[g]
  BY <1>1, <1>2, <1>3 DEF CatalogTyped
<1>5. CatalogTyped'
  BY <1>1, <1>2, <1>3, <1>4 DEF CatalogTyped
<1>6. RefreshInv'
  BY <1>1, <1>2, <1>3, <1>4 DEF RefreshInv
<1>7. HostInv'
  <2>1. PICK L : L = refresh[f].listing
    OBVIOUS
  <2>2. /\ Lists(Entries(refresh[f].catalog), L)
        /\ host'.store \in 1..stores
        /\ host'.store = stores => registry.mapping = L.mapping
        /\ host'.rows = L.rows
    BY <1>1, <1>2, <2>1 DEF RefreshInv
  <2>3. ASSUME NEW i \in DOMAIN L.rows PROVE RowStands(host'.store, L.rows[i])
    <3>1. RowOf(Entries(refresh[f].catalog), L.rows[i]) /\ RowIn(L.mapping, L.rows[i])
      BY <2>2 DEF Lists
    <3>2. L.rows[i].record.id # NoWord
      BY <3>1 DEF RowOf
    <3>3. host'.store = stores => resolveRecord(registry.mapping, L.rows[i].public) = L.rows[i].record
      BY <2>2, <3>1 DEF RowIn, resolveRecord
    <3> QED
      BY <3>2, <3>3 DEF RowStands
  <2>4. \A k, row : RowStands(k, row) => RowStands(k, row)'
    BY <1>1 DEF RowStands
  <2> QED
    BY <1>1, <1>2, <2>2, <2>3, <2>4 DEF HostInv, RowStands
<1> QED
  BY <1>1, <1>5, <1>6, <1>7 DEF CatalogInv, RegistryInv, ChatInv, PanelInv, ListedModelIsCalled,
                                RowStands

\* A step of the chat request c that leaves the account's models alone.
ChatStep(c) ==
  /\ UNCHANGED <<catalog, stores, registry, host, refresh, panel>>
  /\ DOMAIN chat' = Chats
  /\ DOMAIN chat'[c] = {"at", "row", "store", "effort", "opens", "sent", "from"}
  /\ \A d \in Chats : d # c => chat'[d] = chat[d]

\* What is left to show of such a step.
LEMMA StepChat ==
  ASSUME NEW c \in Chats, CatalogInv, ChatStep(c),
         chat'[c].at = "idle" => chat'[c].opens = 0,
         chat'[c].store \in 0..stores,
         chat'[c].store # 0 => RowStands(chat'[c].store, chat'[c].row),
         chat'[c].opens > 0 /\ chat'[c].store # 0 =>
            \/ chat'[c].sent = Outbound(chat'[c].row.public, chat'[c].row.record, chat'[c].effort)
            \/ /\ chat'[c].from.store # chat'[c].store
               /\ ~ /\ Means(chat'[c].row.public, chat'[c].from.catalog, chat'[c].row.record)
                    /\ chat'[c].row.record.id \in {m.id : m \in Entries(chat'[c].from.catalog)}
  PROVE  CatalogInv'
<1>1. CatalogTyped'
  BY DEF CatalogInv, CatalogTyped, ChatStep
<1>2. RegistryInv' /\ RefreshInv' /\ HostInv' /\ PanelInv'
  BY DEF CatalogInv, ChatStep, RegistryInv, RefreshInv, HostInv, PanelInv, RowStands
<1>3. ChatInv'
  BY DEF CatalogInv, ChatStep, ChatInv, RowStands
<1>4. ListedModelIsCalled'
  BY DEF CatalogInv, ChatStep, ListedModelIsCalled
<1> QED
  BY <1>1, <1>2, <1>3, <1>4 DEF CatalogInv

LEMMA StepBegin ==
  ASSUME NEW c \in Chats, CatalogInv, Begin(c)
  PROVE  CatalogInv'
<1>1. PICK effort \in {"none", "high"}, row \in ToSet(host.rows) \union OwnWords :
          chat' = [chat EXCEPT ![c] = [@ EXCEPT
                      !.at = "open", !.row = row, !.effort = effort,
                      !.store = IF row \in OwnWords THEN 0 ELSE host.store]]
  BY DEF Begin
<1>2. CatalogTyped /\ HostInv /\ ChatInv /\ stores \in Nat
  BY DEF CatalogInv, CatalogTyped
<1>3. /\ ChatStep(c)
      /\ chat'[c].at = "open" /\ chat'[c].row = row /\ chat'[c].opens = chat[c].opens
      /\ chat'[c].store = IF row \in OwnWords THEN 0 ELSE host.store
  BY <1>1, <1>2 DEF Begin, ChatStep, CatalogTyped
<1>4. chat[c].opens = 0
  BY <1>2 DEF Begin, ChatInv
<1>5. chat'[c].store \in 0..stores
  BY <1>2, <1>3 DEF HostInv
<1>6. chat'[c].store # 0 => RowStands(chat'[c].store, chat'[c].row)
  <2>1. SUFFICES ASSUME row \notin OwnWords PROVE RowStands(host.store, row)
    BY <1>3
  <2>2. PICK i \in DOMAIN host.rows : row = host.rows[i]
    BY <2>1 DEF ToSet
  <2> QED
    BY <1>2, <2>2 DEF HostInv
<1> QED
  BY <1>3, <1>4, <1>5, <1>6, StepChat

LEMMA StepStream ==
  ASSUME NEW c \in Chats, CatalogInv, StreamChat(c)
  PROVE  CatalogInv'
<1>1. PICK row : row = chat[c].row
  OBVIOUS
<1>2. chat' = [chat EXCEPT ![c] = [@ EXCEPT
                  !.at = "streaming", !.opens = @ + 1,
                  !.from = [store |-> registry.store, catalog |-> registry.catalog],
                  !.sent = Outbound(row.public, resolveRecord(registry.mapping, row.public), chat[c].effort)]]
  BY <1>1 DEF StreamChat
<1>3. CatalogTyped /\ RegistryInv /\ ChatInv
  BY DEF CatalogInv
<1>4. /\ ChatStep(c)
      /\ chat'[c].at = "streaming" /\ chat'[c].row = row
      /\ chat'[c].store = chat[c].store /\ chat'[c].effort = chat[c].effort
      /\ chat'[c].from.store = registry.store /\ chat'[c].from.catalog = registry.catalog
      /\ chat'[c].sent = Outbound(row.public, resolveRecord(registry.mapping, row.public), chat[c].effort)
  BY <1>1, <1>2, <1>3 DEF StreamChat, ChatStep, CatalogTyped
<1>5. /\ chat[c].store \in 0..stores
      /\ chat[c].store # 0 => RowStands(chat[c].store, row)
  BY <1>1, <1>3 DEF ChatInv
<1>6. chat[c].store # 0 /\ registry.store = chat[c].store => resolveRecord(registry.mapping, row.public) = row.record
  BY <1>3, <1>5 DEF RowStands, RegistryInv
<1>7. ASSUME chat[c].store # 0, Means(row.public, registry.catalog, row.record),
             row.record.id \in {m.id : m \in Entries(registry.catalog)}
      PROVE  resolveRecord(registry.mapping, row.public) = row.record
  <2>1. row.record.id # NoWord
    BY <1>5, <1>7 DEF RowStands
  <2>2. stores # 0
    <3>1. Entries(<<>>) = {}
      BY DEF Entries
    <3> QED
      BY <1>3, <1>7, <3>1 DEF RegistryInv
  <2>3. PICK L : Lists(Entries(registry.catalog), L) /\ L.mapping = registry.mapping
    BY <1>3, <2>2 DEF RegistryInv
  <2>4. row.public \in DOMAIN L.mapping /\ L.mapping[row.public] = row.record
    BY <1>7, <2>1, <2>3, MeansResolves
  <2> QED
    BY <2>3, <2>4 DEF resolveRecord
<1>8. chat[c].store # 0 =>
         \/ chat'[c].sent = Outbound(row.public, row.record, chat[c].effort)
         \/ /\ registry.store # chat[c].store
            /\ ~ /\ Means(row.public, registry.catalog, row.record)
                 /\ row.record.id \in {m.id : m \in Entries(registry.catalog)}
  BY <1>4, <1>6, <1>7
<1> QED
  BY <1>4, <1>5, <1>8, StepChat

LEMMA StepRefused ==
  ASSUME NEW c \in Chats, CatalogInv, Refused(c)
  PROVE  CatalogInv'
<1>1. CatalogTyped /\ ChatInv /\ ListedModelIsCalled
  BY DEF CatalogInv
<1>2. /\ ChatStep(c)
      /\ chat'[c].at = "waiting" /\ chat'[c].row = chat[c].row
      /\ chat'[c].store = chat[c].store /\ chat'[c].effort = chat[c].effort
      /\ chat'[c].opens = chat[c].opens
      /\ chat'[c].from = chat[c].from /\ chat'[c].sent = chat[c].sent
  BY <1>1 DEF Refused, ChatStep, CatalogTyped
<1>3. /\ chat[c].store \in 0..stores
      /\ chat[c].store # 0 => RowStands(chat[c].store, chat[c].row)
  BY <1>1 DEF ChatInv
<1>4. chat[c].opens > 0 /\ chat[c].store # 0 =>
         \/ chat[c].sent = Outbound(chat[c].row.public, chat[c].row.record, chat[c].effort)
         \/ /\ chat[c].from.store # chat[c].store
            /\ ~ /\ Means(chat[c].row.public, chat[c].from.catalog, chat[c].row.record)
                 /\ chat[c].row.record.id \in {m.id : m \in Entries(chat[c].from.catalog)}
  BY <1>1 DEF ListedModelIsCalled
<1> QED
  BY <1>2, <1>3, <1>4, StepChat

LEMMA CatalogStepInv == CatalogInv /\ [CatalogNext]_catalogVars => CatalogInv'
<1> SUFFICES ASSUME CatalogInv, [CatalogNext]_catalogVars PROVE CatalogInv'
  OBVIOUS
<1>1. CASE CatalogChanges
  BY <1>1, StepChanges
<1>2. CASE ManagementModels
  BY <1>2, StepManagement
<1>3. ASSUME NEW f \in Refreshers, FetchModels(f) \/ storeCatalog(f) \/ HostLists(f) PROVE CatalogInv'
  BY <1>3, StepFetch, StepStore, StepLists
<1>4. ASSUME NEW c \in Chats, Begin(c) \/ StreamChat(c) \/ Refused(c) PROVE CatalogInv'
  BY <1>4, StepBegin, StepStream, StepRefused
<1>5. CASE UNCHANGED catalogVars
  BY <1>5 DEF catalogVars, CatalogInv, CatalogTyped, RegistryInv, RefreshInv, HostInv, ChatInv, PanelInv,
              ListedModelIsCalled, RowStands
<1> QED
  BY <1>1, <1>2, <1>3, <1>4, <1>5 DEF CatalogNext

\* For all catalogs, refreshes and requests: the listings, what the registry, the host, the panel
\* and the requests have of them, and how these agree (model_registry.go, model_provider.go).
THEOREM CatalogInvariance == CatalogSpec => []CatalogInv
<1> QED
  BY CatalogInitInv, CatalogStepInv, PTL DEF CatalogSpec


\* Each model of a catalog is listed under one public ID of its own, and the mapping that is
\* stored resolves that ID to the model: whatever names coincide with names or with internal
\* IDs, and however many of them (uniquePublicModelID, authService.models).
THEOREM OneToOne == CatalogSpec => []CatalogIsOneToOne
<1>1. CatalogInv => CatalogIsOneToOne
  <2> SUFFICES ASSUME CatalogInv, NEW f \in Refreshers, refresh[f].at # "idle"
               PROVE  LET rows    == refresh[f].listing.rows
                          mapping == refresh[f].listing.mapping
                      IN  /\ \A i, j \in DOMAIN rows : rows[i].public = rows[j].public => i = j
                          /\ \A i \in DOMAIN rows : mapping[rows[i].public] = rows[i].record
                          /\ {m.id : m \in Entries(refresh[f].catalog)} \ {NoWord} =
                             {rows[i].record.id : i \in DOMAIN rows}
    BY DEF CatalogIsOneToOne
  <2>1. Lists(Entries(refresh[f].catalog), refresh[f].listing)
    BY DEF CatalogInv, RefreshInv
  <2> QED
    BY <2>1 DEF Lists, RowIn, IDsOf
<1> QED
  BY <1>1, CatalogInvariance, PTL


\* A request by a listed ID goes to the model it was listed for each time its stream is opened,
\* however refreshes, lists and waits interleave, unless a catalog was stored since that has
\* another use for the ID (storeCatalog, resolveRecord, StreamChat).
THEOREM CalledAsListed == CatalogSpec => []ListedModelIsCalled
<1>1. CatalogInv => ListedModelIsCalled
  BY DEF CatalogInv
<1> QED
  BY <1>1, CatalogInvariance, PTL


\* A name in the panel is one that requests can use, and calls a model of that name or the one
\* whose ID it is, if the panel and the registry read the same catalog and that has no model under
\* two names (management models, storeCatalog).
THEOREM PanelCallable == CatalogSpec => []PanelNamesAreCallable
<1>1. CatalogInv => PanelNamesAreCallable
  <2> SUFFICES ASSUME CatalogInv, panel.catalog = registry.catalog, NEW row \in ToSet(panel.rows),
                      ~ \E m \in Entries(panel.catalog) :
                            m.id = row.id /\ displayNameForModel(m) # row.name
               PROVE  /\ row.name \in DOMAIN registry.mapping
                      /\ \E m \in Entries(panel.catalog) :
                            /\ m.id = registry.mapping[row.name].id
                            /\ row.name \in {displayNameForModel(m), m.id} \union ({m.id} \X Nat)
    BY DEF PanelNamesAreCallable
  <2>1. PICK E : E = Entries(panel.catalog)
    OBVIOUS
  <2>2. PanelRow(E, row)
    BY <2>1 DEF CatalogInv, PanelInv, Shows, ToSet
  <2>3. PICK m \in E : m.id # NoWord /\ row.id = m.id /\ row.name = displayNameForModel(m)
    BY <2>2 DEF PanelRow
  <2>4. stores # 0
    <3>1. Entries(<<>>) = {}
      BY DEF Entries
    <3> QED
      BY <2>1, <3>1 DEF CatalogInv, RegistryInv
  <2>5. PICK L : Lists(E, L) /\ L.mapping = registry.mapping
    BY <2>1, <2>4 DEF CatalogInv, RegistryInv
  <2>6. /\ \A i \in DOMAIN L.rows : RowOf(E, L.rows[i]) /\ RowIn(L.mapping, L.rows[i])
        /\ \A w \in DOMAIN L.mapping : \E i \in DOMAIN L.rows : L.rows[i].public = w
        /\ IDsOf(E) = {L.rows[i].record.id : i \in DOMAIN L.rows}
    BY <2>5 DEF Lists
  <2>7. row.name \in DOMAIN L.mapping
    <3>1. m.id \in IDsOf(E)
      BY <2>3 DEF IDsOf
    <3>2. PICK i \in DOMAIN L.rows : L.rows[i].record.id = m.id
      BY <2>6, <3>1
    <3>3. PICK n \in E : L.rows[i].record = [id |-> n.id, meta |-> n.meta]
                         /\ L.rows[i].name = displayNameForModel(n)
      BY <2>6 DEF RowOf
    <3>4. n.id = row.id
      BY <2>3, <3>2, <3>3
    <3>5. L.rows[i].name = row.name
      BY <2>1, <3>3, <3>4
    <3> QED
      BY <2>6, <3>5 DEF RowIn
  <2>8. PICK i \in DOMAIN L.rows : L.rows[i].public = row.name
    BY <2>6, <2>7
  <2>9. PICK n \in E : /\ L.rows[i].record = [id |-> n.id, meta |-> n.meta]
                       /\ L.rows[i].name = displayNameForModel(n)
                       /\ row.name \in {displayNameForModel(n), n.id} \union ({n.id} \X Nat)
    BY <2>6, <2>8 DEF RowOf
  <2>10. L.mapping[row.name].id = n.id
    BY <2>6, <2>8, <2>9 DEF RowIn
  <2> QED
    BY <2>1, <2>5, <2>7, <2>9, <2>10
<1> QED
  BY <1>1, CatalogInvariance, PTL
=============================================================================
