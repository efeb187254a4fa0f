-------------------------- MODULE EventStreamProofs --------------------------
(***************************************************************************)
(* The event stream for any number of events and any size of the host's    *)
(* payloads.  Two invariants have nothing to do with each other: CloseInv  *)
(* follows hostStreamBody.Close through its sync.Once, and ParseInv says   *)
(* what the parser holds and what has become of the events behind the      *)
(* place where the reader stands, wherever the payloads were cut and after *)
(* whatever failures.                                                      *)
(***************************************************************************)
EXTENDS EventStream, SequenceTheorems, TLAPS

\* The body is closed by one of the two who may, and only the end of the context makes them.
CloseInv ==
  /\ closed => ctx = "done"
  /\ \A c \in Closers : closer[c] # "away" => ctx = "done" /\ pc \notin {"opening", "answered"}
  /\ once = "free" => \A c \in Closers : closer[c] \in {"away", "waiting"}
  /\ once = "taken" => \E c \in Closers :
       closer[c] = "closing" /\ \A d \in Closers \ {c} : closer[d] \in {"away", "waiting"}
  /\ once = "over" => \A c \in Closers : closer[c] # "closing"
  /\ hostCloses = (IF once = "over" /\ opened = "stream" THEN 1 ELSE 0)
  /\ once # "free" => pc \notin {"opening", "answered", "drain"}
  /\ pc = "drain" => ctx = "done" /\ result = "rejected" /\ \A c \in Closers : closer[c] = "away"

-----------------------------------------------------------------------------

\* The stream was broken off, by the host or by the end of the context, or is not whole.
Broken == struck # {} \/ ctx = "done" \/ (hostDone /\ sent # 6 * NumEvents)

\* The reader has seen the end of the body and will see it again.
Ended == fetched = <<>> /\ (hostDone \/ (closed /\ pc # "call"))

\* How many pieces of the wire the parser has taken or a failed read took along.
Taken == sent - Len(fetched)

\* The events that were returned.
Came == {events[n] : n \in 1..Len(events)}

\* What is no JSON, and becomes none by what follows.
Bad(d) == Len(d) > 0 /\ (Len(d) = 2 => d[2][2] # "tail")

\* The line is a part of that of event f, from its (a+1)st piece on: from its first, unless a
\* failed read struck the event.
LineAt(f, a) ==
  /\ a + Len(line) <= 4
  /\ \A k \in 1..Len(line) : line[k] = Frame(f)[a + k]
  /\ a > 0 => f \in struck
  /\ readErr # "failed" => 6 * (f - 1) + a + Len(line) = Taken
  /\ readErr = "failed" => f \in struck /\ 6 * (f - 1) + a + Len(line) <= Taken
  /\ \A m \in Came : m < f
  /\ \A m \in 1..NumEvents : data = Whole(m) => m < f

LineInv == line # <<>> => \E f \in 1..NumEvents, a \in 0..3 : LineAt(f, a)

\* The data is an event that is still to be returned, or the reading will end with it.
DataInv ==
  /\ data = <<>> \/ Bad(data) \/ \E m \in 1..NumEvents : data = Whole(m)
  /\ Bad(data) => Broken
  /\ \A m \in 1..NumEvents : data = Whole(m) =>
       /\ 6 * (m - 1) + 4 <= Taken
       /\ \A x \in Came : x < m
       /\ m \in struck \/ Taken = 6 * (m - 1) + 5

\* An event whose line is over was returned, was struck or is in the data, unless the reading
\* will end with an error; one of which the parser has missed the beginning was struck.
CountInv ==
  /\ NumEvents \notin Came
  /\ \A x \in Came : 6 * (x - 1) + 4 <= Taken
  /\ \A k \in 1..NumEvents : 6 * (k - 1) + 5 <= Taken =>
       \/ k \in Came \/ k \in struck \/ Bad(data)
       \/ data = Whole(k) /\ Taken = 6 * (k - 1) + 5
  /\ \A k \in 1..NumEvents :
       (line = <<>> \/ readErr = "failed") /\ 6 * (k - 1) < Taken /\ Taken <= 6 * (k - 1) + 4 =>
         k \in struck \/ Ended

\* What is buffered are the pieces that come next.
BufferInv ==
  /\ Len(fetched) <= sent
  /\ \A k \in 1..Len(fetched) : fetched[k] = Wire[Taken + k]
  /\ pc \in {"closed?", "call"} \/ readErr # "none" => fetched = <<>>
  /\ readErr # "none" => pc = "line"

Parsing == LineInv /\ DataInv /\ CountInv

ParseInv == OnlyStruckAreMissed /\ (pc # "stopped" => Parsing)

\* Only a broken stream ends without its last event, or before its end.
EndInv ==
  /\ result \notin {"reading", "terminal"} => Broken
  /\ pc \notin {"stopped", "drain"} => result = "reading"
  /\ pc = "drain" => result = "rejected"
  /\ readErr = "eof" => Ended

Inv == TypeOK /\ CloseInv /\ BufferInv /\ ParseInv /\ EndInv

-----------------------------------------------------------------------------
(* The pieces.                                                               *)

\* The pieces of an event, and of its JSON.
LEMMA FramePieces ==
  ASSUME NEW f \in 1..NumEvents
  PROVE  /\ Frame(f)[1] = <<f, "da">> /\ Frame(f)[2] = <<f, "ta:">> /\ Frame(f)[3] = <<f, "head">>
         /\ Frame(f)[4] = <<f, "tail">> /\ Frame(f)[5] = NL /\ Frame(f)[6] = NL
         /\ \A j \in 1..6 : Frame(f)[j] \in Pieces
         /\ \A j \in 1..4 : Frame(f)[j] # NL
         /\ \A j \in 1..6 : Frame(f)[j][2] = "da" => j = 1
         /\ Whole(f) \in Seq(Pieces) /\ Len(Whole(f)) = 2
         /\ Whole(f)[1] = <<f, "head">> /\ Whole(f)[2] = <<f, "tail">>
<1>0. NumEvents \in Nat /\ f \in Nat /\ f # 0
  BY EventAssumption
<1>1. /\ Frame(f)[1] = <<f, "da">> /\ Frame(f)[2] = <<f, "ta:">> /\ Frame(f)[3] = <<f, "head">>
      /\ Frame(f)[4] = <<f, "tail">> /\ Frame(f)[5] = NL /\ Frame(f)[6] = NL
  BY DEF Frame
<1>2. /\ <<f, "da">> \in Pieces /\ <<f, "ta:">> \in Pieces /\ <<f, "head">> \in Pieces
      /\ <<f, "tail">> \in Pieces /\ NL \in Pieces
  BY DEF Pieces, NL
<1>3. \A j \in 1..6 : j = 1 \/ j = 2 \/ j = 3 \/ j = 4 \/ j = 5 \/ j = 6
  OBVIOUS
<1>4. \A j \in 1..4 : j = 1 \/ j = 2 \/ j = 3 \/ j = 4
  OBVIOUS
<1>5. /\ <<f, "da">> # NL /\ <<f, "ta:">> # NL /\ <<f, "head">> # NL /\ <<f, "tail">> # NL
      /\ NL[2] = "newline"
  BY <1>0 DEF NL
<1>6. /\ Whole(f) \in Seq(Pieces) /\ Len(Whole(f)) = 2
      /\ Whole(f)[1] = <<f, "head">> /\ Whole(f)[2] = <<f, "tail">>
  BY <1>2 DEF Whole
<1>7. \A j \in 1..6 : Frame(f)[j] \in Pieces
  BY <1>1, <1>2, <1>3
<1>8. \A j \in 1..4 : Frame(f)[j] # NL
  BY <1>1, <1>4, <1>5
<1>9. \A j \in 1..6 : Frame(f)[j][2] = "da" => j = 1
  BY <1>1, <1>3, <1>5
<1> QED
  BY <1>1, <1>6, <1>7, <1>8, <1>9

\* Every place on the wire is one of an event.
LEMMA Places ==
  /\ NumEvents \in Nat
  /\ Wire \in Seq(Pieces) /\ Len(Wire) = 6 * NumEvents
  /\ \A f \in 1..NumEvents, j \in 1..6 :
       6 * (f - 1) + j \in 1..(6 * NumEvents) /\ Wire[6 * (f - 1) + j] = Frame(f)[j]
  /\ \A k \in 1..(6 * NumEvents) : \E f \in 1..NumEvents, j \in 1..6 : k = 6 * (f - 1) + j
<1>0. NumEvents \in Nat
  BY EventAssumption
<1>1. ASSUME NEW f \in 1..NumEvents, NEW j \in 1..6
      PROVE  6 * (f - 1) + j \in 1..(6 * NumEvents) /\ Wire[6 * (f - 1) + j] = Frame(f)[j]
  <2>. DEFINE k == 6 * (f - 1) + j
  <2>1. k \in 1..(6 * NumEvents)
    BY <1>0
  <2>2. ((k - 1) \div 6) + 1 = f /\ ((k - 1) % 6) + 1 = j
    BY <1>0
  <2>3. Wire[k] = Frame(((k - 1) \div 6) + 1)[((k - 1) % 6) + 1]
    BY <2>1 DEF Wire
  <2> QED
    BY <2>1, <2>2, <2>3
<1>2. ASSUME NEW k \in 1..(6 * NumEvents)
      PROVE  \E f \in 1..NumEvents, j \in 1..6 : k = 6 * (f - 1) + j
  <2>. DEFINE f == ((k - 1) \div 6) + 1
              j == ((k - 1) % 6) + 1
  <2>1. f \in 1..NumEvents /\ j \in 1..6 /\ k = 6 * (f - 1) + j
    BY <1>0
  <2> QED
    BY <2>1
<1>3. ASSUME NEW k \in 1..(6 * NumEvents) PROVE Wire[k] \in Pieces
  <2>1. PICK f \in 1..NumEvents, j \in 1..6 : k = 6 * (f - 1) + j
    BY <1>2
  <2>2. Wire[k] = Frame(f)[j]
    BY <1>1, <2>1
  <2>3. Frame(f)[j] \in Pieces
    BY FramePieces
  <2> QED
    BY <2>2, <2>3
<1>4. Wire \in [1..(6 * NumEvents) -> Pieces]
  BY <1>3 DEF Wire
<1>5. Wire \in Seq(Pieces)
  BY <1>0, <1>4
<1>6. Len(Wire) = 6 * NumEvents
  BY <1>0, <1>4, <1>5, LenProperties
<1> QED
  BY <1>0, <1>1, <1>2, <1>5, <1>6

\* What is bad is no event, and no two events have the same JSON.
LEMMA WholeFacts ==
  ASSUME NEW m \in 1..NumEvents
  PROVE  /\ ~Bad(Whole(m)) /\ Whole(m) # <<>> /\ ~Bad(<<>>)
         /\ \A f \in 1..NumEvents : Whole(f) = Whole(m) => f = m
<1>1. Len(Whole(m)) = 2 /\ Whole(m)[2] = <<m, "tail">> /\ Whole(m)[1] = <<m, "head">>
  BY FramePieces
<1>2. ASSUME NEW f \in 1..NumEvents, Whole(f) = Whole(m) PROVE f = m
  <2>1. <<f, "head">> = <<m, "head">>
    BY <1>1, <1>2, FramePieces
  <2> QED
    BY <2>1
<1>3. Whole(m) # <<>>
  BY <1>1
<1>4. ~Bad(Whole(m)) /\ ~Bad(<<>>)
  BY <1>1 DEF Bad
<1> QED
  BY <1>2, <1>3, <1>4

\* What follows the prefix of a line of n pieces, and its place behind the data.
LEMMA Content ==
  ASSUME NEW d \in Seq(Pieces), NEW l \in Seq(Pieces), NEW n \in 2..4, Len(l) = n
  PROVE  /\ d \o SubSeq(l, 3, n) \in Seq(Pieces) /\ Len(d) \in Nat
         /\ Len(d \o SubSeq(l, 3, n)) = Len(d) + (n - 2)
         /\ n = 2 => d \o SubSeq(l, 3, n) = d
         /\ n > 2 => (d \o SubSeq(l, 3, n))[Len(d) + 1] = l[3]
         /\ n = 4 => (d \o SubSeq(l, 3, n))[Len(d) + 2] = l[4]
<1>. DEFINE s == SubSeq(l, 3, n)
<1>1. 3 \in 1..(Len(l) + 1) /\ n \in (3 - 1)..Len(l)
  OBVIOUS
<1>2. s \in Seq(Pieces) /\ Len(s) = n - 2 /\ \A k \in 1..(n - 2) : s[k] = l[2 + k]
  <2>1. /\ s \in Seq(Pieces) /\ Len(s) = (n - 3) + 1
        /\ \A k \in 1..((n - 3) + 1) : s[k] = l[(3 + k) - 1]
    BY <1>1, SubSeqProperties
  <2>2. \A k \in 1..(n - 2) : (3 + k) - 1 = 2 + k /\ (n - 3) + 1 = n - 2
    OBVIOUS
  <2> HIDE DEF s
  <2> QED
    BY <2>1, <2>2
<1> HIDE DEF s
<1>3. /\ d \o s \in Seq(Pieces) /\ Len(d \o s) = Len(d) + Len(s) /\ Len(d) \in Nat
      /\ \A i \in 1..(Len(d) + Len(s)) : (d \o s)[i] = IF i <= Len(d) THEN d[i] ELSE s[i - Len(d)]
  BY <1>2, ConcatProperties
<1>4. ASSUME NEW m \in 1..(n - 2) PROVE (d \o s)[Len(d) + m] = l[2 + m]
  <2>1. Len(d) + m \in 1..(Len(d) + Len(s)) /\ ~(Len(d) + m <= Len(d)) /\ (Len(d) + m) - Len(d) = m
    BY <1>2, <1>3
  <2> QED
    BY <1>2, <1>3, <2>1
<1>5. n = 2 => d \o s = d
  <2>1. n = 2 => s = <<>>
    BY <1>2, EmptySeq
  <2> QED
    BY <2>1, ConcatEmptySeq
<1>6. n > 2 => (d \o s)[Len(d) + 1] = l[3]
  <2>1. n > 2 => 1 \in 1..(n - 2) /\ 2 + 1 = 3
    OBVIOUS
  <2> QED
    BY <1>4, <2>1
<1>7. n = 4 => (d \o s)[Len(d) + 2] = l[4]
  <2>1. n = 4 => 2 \in 1..(n - 2) /\ 2 + 2 = 4
    OBVIOUS
  <2> QED
    BY <1>4, <2>1
<1> QED
  BY <1>2, <1>3, <1>5, <1>6, <1>7 DEF s

\* Only a line that begins a data line adds to the data: the whole of an event, or what will
\* not become one.
LEMMA LineAdds ==
  ASSUME NEW f \in 1..NumEvents, NEW a \in 0..3, data \in Seq(Pieces), line \in Seq(Pieces),
         line # <<>>, a + Len(line) <= 4, \A k \in 1..Len(line) : line[k] = Frame(f)[a + k]
  PROVE  /\ DataOf(line) \in Seq(Pieces)
         /\ Bad(data) => Bad(DataOf(line))
         /\ \/ DataOf(line) = data /\ (a > 0 \/ Len(line) < 3)
            \/ Bad(DataOf(line)) /\ a = 0 /\ (data # <<>> \/ Len(line) = 3)
            \/ DataOf(line) = Whole(f) /\ data = <<>> /\ a = 0 /\ Len(line) = 4
<1>0. Len(line) \in Nat /\ Len(line) # 0 /\ a + Len(line) <= 4 /\ a \in 0..3
  BY EmptySeq
<1>1. PICK n \in 1..4 : Len(line) = n /\ a + n <= 4
  <2>1. \A x \in Nat, y \in 0..3 : x # 0 /\ y + x <= 4 => x \in 1..4
    OBVIOUS
  <2>2. Len(line) \in 1..4
    BY ONLY <1>0, <2>1
  <2> QED
    BY <1>0, <2>2
<1>2. \A k \in 1..n : line[k] = Frame(f)[a + k]
  BY <1>1
<1>3. line[1][2] = "da" <=> a = 0
  <2>1. line[1] = Frame(f)[a + 1] /\ a + 1 \in 1..6
    BY <1>1, <1>2
  <2>2. Frame(f)[a + 1][2] = "da" => a + 1 = 1
    BY <2>1, FramePieces
  <2>3. a = 0 => line[1] = <<f, "da">>
    BY <2>1, FramePieces
  <2> QED
    BY <2>1, <2>2, <2>3
<1>4. CASE a > 0 \/ n = 1
  <2>1. DataOf(line) = data
    BY <1>1, <1>3, <1>4 DEF DataOf
  <2> QED
    BY <1>1, <1>4, <2>1
<1>5. CASE a = 0 /\ n > 1
  <2>. DEFINE t == data \o SubSeq(line, 3, n)
  <2>1. DataOf(line) = t
    BY <1>1, <1>3, <1>5 DEF DataOf
  <2>2. /\ t \in Seq(Pieces) /\ Len(data) \in Nat /\ Len(t) = Len(data) + (n - 2)
        /\ n = 2 => t = data
        /\ n > 2 => t[Len(data) + 1] = line[3]
        /\ n = 4 => t[Len(data) + 2] = line[4]
    <3>1. n \in 2..4
      BY <1>5
    <3> QED
      BY <1>1, <3>1, Content
  <2>3. n > 2 => line[3] = <<f, "head">>
    <3>1. n > 2 => 3 \in 1..n /\ a + 3 = 3
      BY <1>5
    <3>2. n > 2 => line[3] = Frame(f)[3]
      BY <1>2, <3>1
    <3> QED
      BY <3>2, FramePieces
  <2>4. n = 4 => line[4] = <<f, "tail">>
    <3>1. n = 4 => 4 \in 1..n /\ a + 4 = 4
      BY <1>5
    <3>2. n = 4 => line[4] = Frame(f)[4]
      BY <1>2, <3>1
    <3> QED
      BY <3>2, FramePieces
  <2> HIDE DEF t
  <2>5. CASE n = 2
    BY <1>1, <1>5, <2>1, <2>2, <2>5
  <2>6. CASE n > 2 /\ Len(data) > 0
    <3>1. Len(t) > 0 /\ (Len(t) = 2 => Len(data) + 1 = 2)
      BY <2>2, <2>6
    <3>2. Len(t) = 2 => t[2][2] = "head"
      <4>1. Len(t) = 2 => t[2] = <<f, "head">>
        BY <2>2, <2>3, <2>6, <3>1
      <4> QED
        BY <4>1
    <3>3. Bad(t)
      BY <3>1, <3>2 DEF Bad
    <3>4. data # <<>>
      BY <2>6
    <3> QED
      BY <1>5, <2>1, <2>2, <3>3, <3>4
  <2>7. CASE n = 3 /\ Len(data) = 0
    <3>1. Len(t) = 1
      BY <2>2, <2>7
    <3>2. Bad(t)
      BY <3>1 DEF Bad
    <3> QED
      BY <1>1, <1>5, <2>1, <2>2, <2>7, <3>2
  <2>8. CASE n = 4 /\ Len(data) = 0
    <3>1. Len(t) = 2 /\ t[1] = <<f, "head">> /\ t[2] = <<f, "tail">>
      BY <2>2, <2>3, <2>4, <2>8
    <3>. DEFINE w == Whole(f)
    <3>2. w \in Seq(Pieces) /\ Len(w) = 2 /\ w[1] = <<f, "head">> /\ w[2] = <<f, "tail">>
      BY FramePieces
    <3> HIDE DEF w
    <3>3. \A k \in 1..Len(t) : t[k] = w[k]
      <4>1. Len(t) = 2 /\ t[1] = w[1] /\ t[2] = w[2]
        BY <3>1, <3>2
      <4>2. \A k \in 1..2 : k = 1 \/ k = 2
        OBVIOUS
      <4> QED
        BY ONLY <4>1, <4>2
    <3>4. t = w
      BY <2>2, <3>1, <3>2, <3>3, SeqEqual
    <3>5. data = <<>> /\ ~Bad(data)
      BY <2>8, EmptySeq DEF Bad
    <3> QED
      BY <1>1, <1>5, <2>1, <2>2, <2>8, <3>4, <3>5 DEF w
  <2>9. n = 2 \/ (n > 2 /\ Len(data) > 0) \/ (n = 3 /\ Len(data) = 0) \/ (n = 4 /\ Len(data) = 0)
    BY <1>5, <2>2
  <2> QED
    BY <2>5, <2>6, <2>7, <2>8, <2>9
<1>6. (a > 0 \/ n = 1) \/ (a = 0 /\ n > 1)
  OBVIOUS
<1> QED
  BY <1>4, <1>5, <1>6

-----------------------------------------------------------------------------
(* Closing.                                                                  *)

\* Every step keeps the order of the two closers and the count of host calls.
LEMMA CloseStep ==
  ASSUME TypeOK, CloseInv, [Next]_vars
  PROVE  CloseInv'
<1>0. /\ closer \in [Closers -> {"away", "waiting", "closing", "returned"}]
      /\ once \in {"free", "taken", "over"} /\ hostCloses \in Nat
      /\ "owner" \in Closers /\ "afterFunc" \in Closers
  BY DEF TypeOK, Closers
<1>. USE DEF CloseInv
<1>1. CASE /\ UNCHANGED <<closed, once, closer, hostCloses>> /\ (ctx = "done" => ctx' = "done")
           /\ pc \in {"opening", "answered"} \/ (pc' \notin {"opening", "answered"} /\ opened' = opened)
           /\ pc' = "drain" => /\ ctx' = "done" /\ result' = "rejected" /\ once = "free"
                              /\ \A c \in Closers : closer[c] = "away"
  BY <1>0, <1>1
<1>2. CASE OpenFails \/ RoundTrip("stream") \/ RoundTrip("chunks") \/ Rejects \/ Accepts
  BY <1>1, <1>2 DEF OpenFails, RoundTrip, Rejects, Accepts, Stops, stream
<1>3. CASE Drain
  BY <1>0, <1>3 DEF Drain
<1>4. CASE Reader
  <2>1. UNCHANGED <<stream, opened>>
    BY <1>4
    DEF Reader, CheckContext, TakePiece, NeedsMore, HandleLine, ReadEOF, ReadOn, ReadDone,
        HostAnswers, HostFails
  <2>2. pc \notin {"opening", "answered"}
    BY <1>4
    DEF Reader, CheckContext, TakePiece, NeedsMore, HandleLine, ReadEOF, ReadOn, ReadDone,
        HostAnswers, HostFails
  <2>3. pc' \notin {"opening", "answered", "drain"}
    BY <1>4
    DEF Reader, CheckContext, TakePiece, NeedsMore, HandleLine, ReadEOF, ReadOn, ReadDone,
        HostAnswers, HostFails, Stops, Dispatch, Truncated, GoOn
  <2> QED
    BY <1>1, <2>1, <2>2, <2>3 DEF stream
<1>5. CASE Expires
  BY <1>1, <1>5 DEF Expires
<1>6. CASE Cancels
  BY <1>0, <1>6 DEF Cancels, Accepted
<1>7. CASE AfterFunc
  BY <1>0, <1>7 DEF AfterFunc, Accepted
<1>8. ASSUME NEW c \in Closers, CloseFirst(c) PROVE CloseInv'
  BY <1>0, <1>8 DEF CloseFirst
<1>9. ASSUME NEW c \in Closers, CloseHost(c) PROVE CloseInv'
  <2>1. once = "taken" /\ \A d \in Closers \ {c} : closer[d] \in {"away", "waiting"}
    BY <1>0, <1>9 DEF CloseHost
  <2> QED
    BY <1>0, <1>9, <2>1 DEF CloseHost
<1>10. ASSUME NEW c \in Closers, CloseAgain(c) PROVE CloseInv'
  BY <1>0, <1>10 DEF CloseAgain
<1>11. CASE Over \/ UNCHANGED vars
  BY <1>1, <1>11 DEF Over, vars, stream
<1> QED
  BY <1>2, <1>3, <1>4, <1>5, <1>6, <1>7, <1>8, <1>9, <1>10, <1>11 DEF Next, Opening, Closing

-----------------------------------------------------------------------------
(* Reading.                                                                  *)

\* What is buffered begins with the piece that is next on the wire.
LEMMA Buffered ==
  ASSUME TypeOK, BufferInv, fetched # <<>>
  PROVE  /\ Tail(fetched) \in Seq(Pieces) /\ Len(Tail(fetched)) = Len(fetched) - 1
         /\ Len(fetched) \in Nat /\ Len(fetched) > 0 /\ Len(fetched) <= sent
         /\ sent - Len(Tail(fetched)) = Taken + 1 /\ Taken \in Nat
         /\ \A k \in 1..Len(Tail(fetched)) : Tail(fetched)[k] = Wire[(Taken + 1) + k]
         /\ \E f \in 1..NumEvents, j \in 1..6 :
              Taken + 1 = 6 * (f - 1) + j /\ Head(fetched) = Frame(f)[j]
<1>1. /\ fetched \in Seq(Pieces) /\ sent \in 0..(6 * NumEvents) /\ NumEvents \in Nat
      /\ Len(fetched) <= sent
  BY EventAssumption DEF TypeOK, BufferInv
<1>2. Len(fetched) \in Nat /\ Len(fetched) >= 1
  BY <1>1, EmptySeq
<1>3. /\ Tail(fetched) \in Seq(Pieces) /\ Len(Tail(fetched)) = Len(fetched) - 1
      /\ Head(fetched) = fetched[1]
      /\ \A k \in 1..Len(Tail(fetched)) : Tail(fetched)[k] = fetched[k + 1]
  BY <1>1, <1>2, HeadTailProperties
<1>4. Taken = sent - Len(fetched)
  BY DEF Taken
<1>5. \A k \in 1..Len(fetched) : fetched[k] = Wire[Taken + k]
  BY DEF BufferInv
<1>6. \A k \in 1..Len(Tail(fetched)) : k + 1 \in 1..Len(fetched) /\ Taken + (k + 1) = (Taken + 1) + k
  BY <1>1, <1>2, <1>3, <1>4
<1>7. Head(fetched) = Wire[Taken + 1] /\ Taken + 1 \in 1..(6 * NumEvents)
  BY <1>1, <1>2, <1>3, <1>4, <1>5
<1>8. PICK f \in 1..NumEvents, j \in 1..6 : Taken + 1 = 6 * (f - 1) + j
  BY <1>7, Places
<1>9. Head(fetched) = Frame(f)[j]
  BY <1>7, <1>8, Places
<1>10. \A k \in 1..Len(Tail(fetched)) : Tail(fetched)[k] = Wire[(Taken + 1) + k]
  BY <1>3, <1>5, <1>6
<1>11. sent - Len(Tail(fetched)) = Taken + 1 /\ Taken \in Nat /\ Len(fetched) > 0
  BY <1>1, <1>2, <1>3, <1>4
<1>12. \E x \in 1..NumEvents, y \in 1..6 :
         Taken + 1 = 6 * (x - 1) + y /\ Head(fetched) = Frame(x)[y]
  BY <1>8, <1>9
<1> QED
  BY <1>1, <1>2, <1>3, <1>10, <1>11, <1>12

\* One more event is returned: a later one than all before, and those between were struck.
LEMMA OneMore ==
  ASSUME OnlyStruckAreMissed, events \in Seq(1..NumEvents), struck' = struck,
         NEW m \in 1..NumEvents, events' = Append(events, m),
         \A x \in Came : x < m, \A k \in 1..(m - 1) : k \in Came \/ k \in struck
  PROVE  /\ events' \in Seq(1..NumEvents) /\ Came' = Came \union {m}
         /\ OnlyStruckAreMissed'
<1>. DEFINE n == Len(events)
<1>1. /\ n \in Nat /\ events' \in Seq(1..NumEvents) /\ Len(events') = n + 1
      /\ \A i \in 1..n : events'[i] = events[i]
      /\ events'[n + 1] = m
  BY AppendProperties
<1>2. \A i \in 1..n : events[i] \in Came
  BY DEF Came
<1>3. \A i \in 1..(n + 1) : i = n + 1 \/ i \in 1..n
  BY <1>1
<1>4. \A i \in 1..n : i \in 1..(n + 1) /\ \A j \in 1..i : j \in 1..n
  BY <1>1
<1>4a. n + 1 \in 1..(n + 1)
  BY <1>1
<1> HIDE DEF n
<1>5. Came' = Came \union {m}
  <2>1. Came' = {events'[i] : i \in 1..(n + 1)}
    BY <1>1 DEF Came
  <2>2. Came = {events[i] : i \in 1..n}
    BY DEF Came, n
  <2>3. ASSUME NEW x \in Came' PROVE x \in Came \union {m}
    <3>1. PICK i \in 1..(n + 1) : x = events'[i]
      BY <2>1, <2>3
    <3> QED
      BY <1>1, <1>2, <1>3, <3>1
  <2>4. ASSUME NEW x \in Came PROVE x \in Came'
    <3>1. PICK i \in 1..n : x = events[i]
      BY <2>2, <2>4
    <3>2. i \in 1..(n + 1) /\ x = events'[i]
      BY <1>1, <1>4, <3>1
    <3> QED
      BY <2>1, <3>2
  <2>5. m \in Came'
    BY <1>1, <1>4a, <2>1
  <2> QED
    BY <2>3, <2>4, <2>5
<1>6. ASSUME NEW i \in 1..Len(events')
      PROVE  /\ i > 1 => events'[i - 1] < events'[i]
             /\ \A k \in 1..(events'[i] - 1) : (\E j \in 1..i : events'[j] = k) \/ k \in struck'
  <2>1. CASE i \in 1..n
    <3>1. events'[i] = events[i] /\ (i > 1 => events'[i - 1] = events[i - 1])
      BY <1>1, <2>1
    <3>2. /\ i > 1 => events[i - 1] < events[i]
          /\ \A k \in 1..(events[i] - 1) : (\E j \in 1..i : events[j] = k) \/ k \in struck
      BY <2>1 DEF OnlyStruckAreMissed, n
    <3>3. \A j \in 1..i : events'[j] = events[j]
      BY <1>1, <1>4, <2>1
    <3> QED
      BY <3>1, <3>2, <3>3
  <2>2. CASE i = n + 1
    <3>1. i > 1 => i - 1 \in 1..n
      BY <1>1, <2>2
    <3>2. i > 1 => events'[i - 1] \in Came
      BY <1>1, <1>2, <3>1
    <3>3. i > 1 => events'[i - 1] < events'[i]
      BY <1>1, <2>2, <3>2
    <3>4. ASSUME NEW k \in 1..(m - 1), k \in Came PROVE \E j \in 1..i : events'[j] = k
      <4>1. PICK j \in 1..n : k = events[j]
        BY <3>4 DEF Came, n
      <4>2. j \in 1..i /\ events'[j] = k
        BY <1>1, <1>4, <2>2, <4>1
      <4> QED
        BY <4>2
    <3> QED
      BY <1>1, <2>2, <3>3, <3>4
  <2> QED
    BY <1>1, <1>3, <2>1, <2>2
<1> QED
  BY <1>1, <1>5, <1>6 DEF OnlyStruckAreMissed

\* The data when the line has been looked at.
Given == IF line = <<>> THEN data ELSE DataOf(line)

\* A newline is taken, or the end or the failure that stood for it is over.
LEMMA LineTaken ==
  ASSUME TypeOK, BufferInv, EndInv, HandleLine
  PROVE  /\ fetched' \in Seq(Pieces) /\ Len(fetched') <= sent' /\ Taken \in Nat
         /\ \A k \in 1..Len(fetched') : fetched'[k] = Wire[Taken' + k]
         /\ readErr = "none" =>
              /\ Taken' = Taken + 1 /\ fetched # <<>>
              /\ \E f \in 1..NumEvents, j \in 5..6 : Taken + 1 = 6 * (f - 1) + j
         /\ readErr # "none" => Taken' = Taken /\ fetched' = fetched /\ fetched = <<>>
<1>0. /\ fetched \in Seq(Pieces) /\ sent \in 0..(6 * NumEvents) /\ Len(fetched) \in Nat
      /\ Len(fetched) <= sent /\ NumEvents \in Nat /\ sent' = sent
  BY EventAssumption DEF TypeOK, BufferInv, HandleLine
<1>1. CASE readErr = "none"
  <2>1. fetched # <<>> /\ Head(fetched) = NL /\ fetched' = Tail(fetched)
    BY <1>1 DEF HandleLine
  <2>2. PICK f \in 1..NumEvents, j \in 1..6 :
          Taken + 1 = 6 * (f - 1) + j /\ Head(fetched) = Frame(f)[j]
    BY <2>1, Buffered
  <2>3. j \in 5..6
    <3>1. j \notin 1..4
      BY <2>1, <2>2, FramePieces
    <3> QED
      BY <3>1
  <2>4. /\ fetched' \in Seq(Pieces) /\ Len(fetched') = Len(fetched) - 1 /\ Taken \in Nat
        /\ sent - Len(fetched') = Taken + 1
        /\ \A k \in 1..Len(fetched') : fetched'[k] = Wire[(Taken + 1) + k]
    BY <2>1, Buffered
  <2>5. Taken' = Taken + 1
    BY <1>0, <2>4 DEF Taken
  <2>6. Len(fetched') <= sent'
    BY <1>0, <2>4
  <2>7. \E x \in 1..NumEvents, y \in 5..6 : Taken + 1 = 6 * (x - 1) + y
    BY <2>2, <2>3
  <2>8. \A k \in 1..Len(fetched') : fetched'[k] = Wire[Taken' + k]
    BY <2>4, <2>5
  <2> QED
    BY <1>1, <2>1, <2>4, <2>5, <2>6, <2>7, <2>8
<1>2. CASE readErr # "none"
  <2>1. fetched' = fetched /\ fetched = <<>>
    BY <1>2 DEF HandleLine, BufferInv
  <2>2. Taken' = Taken /\ Taken \in Nat
    BY <1>0, <2>1 DEF Taken
  <2> QED
    BY <1>0, <1>2, <2>1, <2>2 DEF BufferInv
<1> QED
  BY <1>1, <1>2

\* With the line, the data is still an event that is to be returned or the end of the reading,
\* and the events whose lines are over are accounted for.
LEMMA LineGiven ==
  ASSUME TypeOK, CloseInv, BufferInv, ParseInv, EndInv, HandleLine
  PROVE  /\ Given \in Seq(Pieces)
         /\ Given = <<>> \/ Bad(Given) \/ \E m \in 1..NumEvents : Given = Whole(m)
         /\ Bad(Given) => Broken
         /\ \A m \in 1..NumEvents : Given = Whole(m) =>
              /\ 6 * (m - 1) + 4 <= Taken'
              /\ \A x \in Came : x < m
              /\ line = <<>> \/ readErr = "eof" \/ m \in struck \/ Taken' = 6 * (m - 1) + 5
         /\ \A k \in 1..NumEvents : 6 * (k - 1) + 5 <= Taken' =>
              k \in Came \/ k \in struck \/ Bad(Given) \/ Given = Whole(k)
<1>0. /\ NumEvents \in Nat /\ Taken \in Nat /\ data \in Seq(Pieces) /\ line \in Seq(Pieces)
      /\ readErr \in {"none", "eof", "failed"} /\ sent \in 0..(6 * NumEvents)
      /\ LineInv /\ DataInv /\ CountInv
  BY EventAssumption, LineTaken DEF TypeOK, HandleLine, ParseInv, Parsing
<1>1. /\ readErr = "none" => /\ Taken' = Taken + 1 /\ fetched # <<>>
                             /\ \E f \in 1..NumEvents, j \in 5..6 : Taken + 1 = 6 * (f - 1) + j
      /\ readErr # "none" => Taken' = Taken /\ fetched = <<>>
  BY LineTaken
<1>2. Taken <= Taken' /\ Taken' \in Nat
  BY <1>0, <1>1
<1>3. \A k \in 1..NumEvents : 6 * (k - 1) + 5 <= Taken =>
        \/ k \in Came \/ k \in struck \/ Bad(data)
        \/ data = Whole(k) /\ Taken = 6 * (k - 1) + 5
  BY <1>0 DEF CountInv
<1>4. ASSUME NEW k \in 1..NumEvents, 6 * (k - 1) + 5 <= Taken', ~(6 * (k - 1) + 5 <= Taken)
      PROVE  readErr = "none" /\ Taken = 6 * (k - 1) + 4
  BY <1>0, <1>1, <1>4
<1>5. CASE line = <<>>
  <2>1. Given = data
    BY <1>5 DEF Given
  <2>2. ASSUME NEW k \in 1..NumEvents, 6 * (k - 1) + 5 <= Taken'
        PROVE  k \in Came \/ k \in struck \/ Bad(Given) \/ Given = Whole(k)
    <3>1. CASE 6 * (k - 1) + 5 <= Taken
      BY <1>3, <2>1, <3>1
    <3>2. CASE ~(6 * (k - 1) + 5 <= Taken)
      <4>1. readErr = "none" /\ Taken = 6 * (k - 1) + 4
        BY <1>4, <2>2, <3>2
      <4>2. 6 * (k - 1) < Taken /\ Taken <= 6 * (k - 1) + 4
        BY <4>1
      <4>3. ~Ended
        BY <1>1, <4>1 DEF Ended
      <4> QED
        BY <1>0, <1>5, <4>2, <4>3 DEF CountInv
    <3> QED
      BY <3>1, <3>2
  <2>3. ASSUME NEW m \in 1..NumEvents, Given = Whole(m)
        PROVE  6 * (m - 1) + 4 <= Taken' /\ \A x \in Came : x < m
    <3>1. 6 * (m - 1) + 4 <= Taken /\ \A x \in Came : x < m
      BY <1>0, <2>1, <2>3 DEF DataInv
    <3> QED
      BY <1>0, <1>2, <3>1
  <2> QED
    BY <1>0, <1>5, <2>1, <2>2, <2>3 DEF DataInv
<1>6. CASE line # <<>>
  <2>1. PICK f \in 1..NumEvents, a \in 0..3 : LineAt(f, a)
    BY <1>0, <1>6 DEF LineInv
  <2>2. /\ Given \in Seq(Pieces)
        /\ Bad(data) => Bad(Given)
        /\ \/ Given = data /\ (a > 0 \/ Len(line) < 3)
           \/ Bad(Given) /\ a = 0 /\ (data # <<>> \/ Len(line) = 3)
           \/ Given = Whole(f) /\ data = <<>> /\ a = 0 /\ Len(line) = 4
    BY <1>0, <1>6, <2>1, LineAdds DEF Given, LineAt
  <2>3. Len(line) \in Nat /\ Len(line) # 0
    BY <1>0, <1>6, EmptySeq
  <2>4. /\ a + Len(line) <= 4
        /\ a > 0 => f \in struck
        /\ readErr # "failed" => 6 * (f - 1) + a + Len(line) = Taken
        /\ readErr = "failed" => f \in struck /\ 6 * (f - 1) + a + Len(line) <= Taken
        /\ \A m \in Came : m < f
        /\ \A m \in 1..NumEvents : data = Whole(m) => m < f
    BY <2>1 DEF LineAt
  <2>. DEFINE l == Len(line)
  <2>5. l \in Nat /\ l # 0 /\ a + l <= 4
    BY <2>3, <2>4
  <2>5a. /\ readErr # "failed" => 6 * (f - 1) + a + l = Taken
         /\ readErr = "failed" => 6 * (f - 1) + a + l <= Taken
    BY <2>4
  <2> HIDE DEF l
  <2>6. ASSUME NEW m \in 1..NumEvents, data = Whole(m)
        PROVE  m \in struck \/ readErr = "failed"
    <3>1. m < f /\ (m \in struck \/ Taken = 6 * (m - 1) + 5)
      BY <1>0, <2>4, <2>6 DEF DataInv
    <3>2. readErr # "failed" => Taken # 6 * (m - 1) + 5
      BY <1>0, <2>5, <2>5a, <3>1
    <3> QED
      BY <3>1, <3>2
  <2>7. Bad(Given) => Broken
    <3>1. CASE readErr = "failed" \/ Bad(data)
      BY <1>0, <2>4, <3>1 DEF DataInv, Broken
    <3>2. CASE readErr # "failed" /\ ~Bad(data) /\ data # <<>>
      <4>1. PICK m \in 1..NumEvents : data = Whole(m)
        BY <1>0, <3>2 DEF DataInv
      <4>2. m \in struck
        BY <2>6, <3>2, <4>1
      <4> QED
        BY <4>2 DEF Broken
    <3>3. CASE readErr # "failed" /\ data = <<>> /\ Bad(Given)
      <4>0. ~Bad(<<>>)
        BY DEF Bad
      <4>1. a = 0 /\ l = 3
        <5>1. ~Bad(Whole(f)) /\ Given # data
          BY <3>3, <4>0, WholeFacts
        <5> QED
          BY <2>2, <3>3, <5>1 DEF l
      <4>2. Taken = 6 * (f - 1) + 3
        BY <1>0, <2>5a, <3>3, <4>1
      <4>3. readErr # "none"
        BY <1>0, <1>1, <4>2
      <4>4. Ended /\ fetched = <<>>
        BY <1>0, <1>1, <3>3, <4>3 DEF EndInv
      <4>5. sent = Taken /\ Taken # 6 * NumEvents
        <5>1. Len(fetched) = 0
          BY <4>4
        <5>2. sent = Taken
          BY <1>0, <5>1 DEF Taken
        <5> QED
          BY <1>0, <4>2, <5>2
      <4> QED
        BY <4>4, <4>5 DEF Ended, Broken, CloseInv
    <3> QED
      BY <3>1, <3>2, <3>3
  <2>8. ASSUME NEW m \in 1..NumEvents, Given = Whole(m)
        PROVE  /\ 6 * (m - 1) + 4 <= Taken'
               /\ \A x \in Came : x < m
               /\ readErr = "eof" \/ m \in struck \/ Taken' = 6 * (m - 1) + 5
    <3>1. ~Bad(Given)
      BY <2>8, WholeFacts
    <3>2. CASE Given = data
      <4>1. 6 * (m - 1) + 4 <= Taken /\ \A x \in Came : x < m
        BY <1>0, <2>8, <3>2 DEF DataInv
      <4>2. m \in struck \/ Taken = 6 * (m - 1) + 5
        BY <1>0, <2>8, <3>2 DEF DataInv
      <4>3. readErr # "none" => Taken' = Taken
        BY <1>1
      <4>4. readErr = "none" => m \in struck
        BY <2>6, <2>8, <3>2
      <4>5. 6 * (m - 1) + 4 <= Taken'
        BY <1>0, <1>2, <4>1
      <4> QED
        BY <4>1, <4>2, <4>3, <4>4, <4>5
    <3>3. CASE Given # data
      <4>1. Given = Whole(f) /\ a = 0 /\ l = 4
        BY <2>2, <3>1, <3>3 DEF l
      <4>2. m = f
        BY <2>8, <4>1, WholeFacts
      <4>3. 6 * (f - 1) + 4 <= Taken /\ (readErr # "failed" => Taken = 6 * (f - 1) + 4)
        BY <1>0, <2>5a, <4>1
      <4>4. readErr = "failed" => f \in struck
        BY <2>4
      <4>5. readErr = "none" => Taken' = 6 * (f - 1) + 5
        BY <1>0, <1>1, <4>3
      <4>6. 6 * (f - 1) + 4 <= Taken'
        BY <1>0, <1>2, <4>3
      <4> QED
        BY <1>0, <2>4, <4>2, <4>4, <4>5, <4>6
    <3> QED
      BY <3>2, <3>3
  <2>9. ASSUME NEW k \in 1..NumEvents, 6 * (k - 1) + 5 <= Taken'
        PROVE  k \in Came \/ k \in struck \/ Bad(Given) \/ Given = Whole(k)
    <3>1. CASE 6 * (k - 1) + 5 <= Taken
      <4>1. k \in Came \/ k \in struck \/ Bad(data) \/ data = Whole(k)
        BY <1>3, <3>1
      <4>2. data = Whole(k) => data # <<>>
        BY WholeFacts
      <4> QED
        BY <2>2, <4>1, <4>2
    <3>2. CASE ~(6 * (k - 1) + 5 <= Taken)
      <4>1. readErr = "none" /\ Taken = 6 * (k - 1) + 4
        BY <1>4, <2>9, <3>2
      <4>2. 6 * (f - 1) + a + l = 6 * (k - 1) + 4
        BY <2>5a, <4>1
      <4>3. f = k /\ a + l = 4
        BY <2>5, <4>2
      <4>4. a > 0 => k \in struck
        BY <2>4, <4>3
      <4>5. a = 0 => l = 4
        BY <2>5, <4>3
      <4> QED
        BY <2>2, <4>3, <4>4, <4>5 DEF l
    <3> QED
      BY <3>1, <3>2
  <2> QED
    BY <1>6, <2>2, <2>7, <2>8, <2>9, <1>0 DEF DataInv
<1> QED
  BY <1>5, <1>6

\* HandleLine keeps what the parser holds and how a stream ends.
LEMMA LineStep ==
  ASSUME TypeOK, CloseInv, BufferInv, ParseInv, EndInv, HandleLine
  PROVE  TypeOK' /\ BufferInv' /\ ParseInv' /\ EndInv'
<1>0. /\ NumEvents \in Nat /\ NumEvents # 0 /\ pc = "line" /\ result = "reading"
      /\ OnlyStruckAreMissed /\ LineInv /\ DataInv /\ CountInv /\ Taken \in Nat
      /\ data \in Seq(Pieces) /\ events \in Seq(1..NumEvents)
      /\ sent \in 0..(6 * NumEvents)
      /\ readErr \in {"none", "eof", "failed"}
      /\ UNCHANGED <<opened, sent, hostDone, stream, struck>> /\ line' = <<>> /\ readErr' = "none"
  BY EventAssumption, LineTaken DEF HandleLine, TypeOK, ParseInv, Parsing, EndInv
<1>1. /\ Given \in Seq(Pieces)
      /\ Given = <<>> \/ Bad(Given) \/ \E m \in 1..NumEvents : Given = Whole(m)
      /\ Bad(Given) => Broken
      /\ \A m \in 1..NumEvents : Given = Whole(m) =>
           /\ 6 * (m - 1) + 4 <= Taken'
           /\ \A x \in Came : x < m
           /\ line = <<>> \/ readErr = "eof" \/ m \in struck \/ Taken' = 6 * (m - 1) + 5
      /\ \A k \in 1..NumEvents : 6 * (k - 1) + 5 <= Taken' =>
           k \in Came \/ k \in struck \/ Bad(Given) \/ Given = Whole(k)
  BY LineGiven
<1>2. /\ fetched' \in Seq(Pieces) /\ Len(fetched') <= sent'
      /\ \A k \in 1..Len(fetched') : fetched'[k] = Wire[Taken' + k]
      /\ readErr = "none" =>
           /\ Taken' = Taken + 1 /\ fetched # <<>>
           /\ \E f \in 1..NumEvents, j \in 5..6 : Taken + 1 = 6 * (f - 1) + j
      /\ readErr # "none" => Taken' = Taken /\ fetched' = fetched /\ fetched = <<>>
  BY LineTaken
<1>3. \/ Given # <<>> /\ Dispatch(Given)
      \/ Given = <<>> /\ readErr = "eof" /\ Truncated
      \/ readErr # "eof" /\ (line # <<>> \/ Given = <<>>) /\ GoOn(Given)
  <2>1. IF line = <<>>
        THEN IF data # <<>> THEN Dispatch(data)
             ELSE IF readErr = "eof" THEN Truncated
             ELSE GoOn(data)
        ELSE IF readErr # "eof" THEN GoOn(DataOf(line))
             ELSE IF DataOf(line) # <<>> THEN Dispatch(DataOf(line))
             ELSE Truncated
    BY DEF HandleLine
  <2>2. CASE line = <<>>
    BY <2>1, <2>2 DEF Given
  <2>3. CASE line # <<>>
    BY <2>1, <2>3 DEF Given
  <2> QED
    BY <2>2, <2>3
<1>4. Broken' <=> Broken
  BY <1>0 DEF Broken, stream
<1>5. Taken' \in Nat /\ Taken <= Taken'
  BY <1>0, <1>2
<1>6. pc' # "call" => \A k \in 1..NumEvents : 6 * (k - 1) < Taken' /\ Taken' <= 6 * (k - 1) + 4 =>
        k \in struck' \/ Ended'
  <2> SUFFICES ASSUME pc' # "call", NEW k \in 1..NumEvents,
                      6 * (k - 1) < Taken', Taken' <= 6 * (k - 1) + 4
               PROVE  k \in struck' \/ Ended'
    OBVIOUS
  <2>1. readErr # "none"
    <3>1. \A t \in Nat, g \in Nat, x \in Nat, j \in 5..6 :
            t = 6 * (g - 1) + j => ~(6 * (x - 1) < t /\ t <= 6 * (x - 1) + 4)
      OBVIOUS
    <3>2. \A g \in 1..NumEvents : g \in Nat
      BY <1>0
    <3>3. ASSUME readErr = "none"
          PROVE  \E g \in 1..NumEvents, j \in 5..6 : Taken' = 6 * (g - 1) + j
      BY <1>2, <3>3
    <3> QED
      BY <1>5, <3>1, <3>2, <3>3
  <2>2. Ended => Ended'
    BY <1>0, <1>2, <2>1 DEF Ended, stream
  <2>3. CASE readErr = "eof"
    BY <2>2, <2>3 DEF EndInv
  <2>4. CASE readErr = "failed"
    BY <1>0, <1>2, <2>2, <2>4 DEF CountInv
  <2> QED
    BY <1>0, <2>1, <2>3, <2>4
<1>7. pc' \in {"check", "stopped"} => BufferInv'
  BY <1>0, <1>2 DEF BufferInv
<1>8. LineInv'
  BY <1>0 DEF LineInv
<1>9. <<>> \in Seq(Pieces) /\ ~Bad(<<>>) /\ \A m \in 1..NumEvents : Whole(m) # <<>> /\ ~Bad(Whole(m))
  BY WholeFacts, EmptySeq DEF Bad
<1>10. \A m \in 1..NumEvents : Given = Whole(m) =>
         \A k \in 1..(m - 1) : k \in Came \/ k \in struck
  <2> SUFFICES ASSUME NEW m \in 1..NumEvents, Given = Whole(m), NEW k \in 1..(m - 1)
               PROVE  k \in Came \/ k \in struck
    OBVIOUS
  <2>1. k \in 1..NumEvents /\ k # m /\ 6 * (k - 1) + 5 <= Taken'
    <3>1. 6 * (m - 1) + 4 <= Taken'
      BY <1>1
    <3> QED
      BY <1>0, <1>5, <3>1
  <2>2. Given # Whole(k)
    BY <2>1, WholeFacts
  <2> QED
    BY <1>1, <1>9, <2>1, <2>2
<1>11. CASE Given # <<>> /\ Dispatch(Given) /\ Bad(Given)
  <2>1. \A m \in 1..NumEvents : Given # Whole(m)
    BY <1>9, <1>11
  <2>2. data' = <<>> /\ events' = events /\ pc' = "stopped" /\ result' = "invalid"
    BY <1>11, <2>1 DEF Dispatch, Stops
  <2>3. ParseInv'
    BY <1>0, <2>2 DEF ParseInv, OnlyStruckAreMissed
  <2>4. EndInv'
    BY <1>0, <1>1, <1>4, <1>11, <2>2 DEF EndInv
  <2>5. TypeOK'
    BY <1>0, <1>2, <1>9, <2>2 DEF TypeOK, stream
  <2> QED
    BY <1>7, <2>2, <2>3, <2>4, <2>5
<1>12. ASSUME NEW m \in 1..NumEvents, Given = Whole(m), Dispatch(Given)
       PROVE  TypeOK' /\ BufferInv' /\ ParseInv' /\ EndInv'
  <2>1. (CHOOSE i \in 1..NumEvents : Given = Whole(i)) = m
    BY <1>12, WholeFacts
  <2>2. /\ data' = <<>> /\ events' = Append(events, m)
        /\ IF m = NumEvents THEN Stops("terminal") ELSE pc' = "check" /\ UNCHANGED result
    BY <1>12, <2>1 DEF Dispatch
  <2>3. events' \in Seq(1..NumEvents) /\ Came' = Came \union {m} /\ OnlyStruckAreMissed'
    BY <1>0, <1>1, <1>10, <1>12, <2>2, OneMore
  <2>4. /\ pc' \in {"check", "stopped"} /\ result' \in {"reading", "terminal"}
        /\ pc' = "stopped" \/ (m # NumEvents /\ result' = "reading")
    BY <1>0, <2>2 DEF Stops
  <2>5. pc' # "stopped" => Parsing'
    <3> SUFFICES ASSUME pc' # "stopped" PROVE Parsing'
      OBVIOUS
    <3>1. DataInv'
      BY <1>9, <2>2 DEF DataInv
    <3>2. NumEvents \notin Came'
      BY <1>0, <2>3, <2>4 DEF CountInv
    <3>3. \A x \in Came' : 6 * (x - 1) + 4 <= Taken'
      <4>1. ASSUME NEW x \in Came PROVE 6 * (x - 1) + 4 <= Taken'
        <5>1. x \in Nat
          BY <1>0 DEF Came
        <5>2. 6 * (x - 1) + 4 <= Taken
          BY <1>0 DEF CountInv
        <5> QED
          BY <1>0, <1>5, <5>1, <5>2
      <4>2. 6 * (m - 1) + 4 <= Taken'
        BY <1>1, <1>12
      <4> QED
        BY <2>3, <4>1, <4>2
    <3>4. \A k \in 1..NumEvents : 6 * (k - 1) + 5 <= Taken' => k \in Came' \/ k \in struck'
      <4> SUFFICES ASSUME NEW k \in 1..NumEvents, 6 * (k - 1) + 5 <= Taken'
                   PROVE  k \in Came' \/ k \in struck'
        OBVIOUS
      <4>1. k \in Came \/ k \in struck \/ Bad(Given) \/ Given = Whole(k)
        BY <1>1
      <4>2. ~Bad(Given) /\ (Given = Whole(k) => k = m)
        BY <1>9, <1>12, WholeFacts
      <4> QED
        BY <1>0, <2>3, <4>1, <4>2
    <3>5. CountInv'
      BY <1>6, <2>4, <3>2, <3>3, <3>4 DEF CountInv
    <3> QED
      BY <1>8, <3>1, <3>5 DEF Parsing
  <2>6. EndInv'
    BY <1>0, <2>4 DEF EndInv
  <2>7. TypeOK'
    BY <1>0, <1>2, <1>9, <2>2, <2>3, <2>4 DEF TypeOK, stream
  <2> QED
    BY <1>7, <2>3, <2>4, <2>5, <2>6, <2>7 DEF ParseInv
<1>13. CASE Given = <<>> /\ readErr = "eof" /\ Truncated
  <2>1. data' = data /\ events' = events /\ pc' = "stopped" /\ result' = "truncated"
    BY <1>13 DEF Truncated, Stops
  <2>2. Broken
    <3>1. Ended /\ fetched = <<>> /\ Taken' = Taken
      BY <1>2, <1>13 DEF EndInv
    <3>2. Len(fetched) = 0
      BY <3>1
    <3>3. sent = Taken
      BY <1>0, <3>2 DEF Taken
    <3>4. CASE closed
      BY <3>4 DEF CloseInv, Broken
    <3>5. CASE hostDone /\ sent # 6 * NumEvents
      BY <3>5 DEF Broken
    <3>6. CASE sent = 6 * NumEvents
      <4>1. 6 * (NumEvents - 1) + 5 <= Taken' /\ NumEvents \in 1..NumEvents
        BY <1>0, <3>1, <3>3, <3>6
      <4>2. NumEvents \in struck
        BY <1>0, <1>1, <1>9, <1>13, <4>1 DEF CountInv
      <4> QED
        BY <4>2 DEF Broken
    <3> QED
      BY <3>1, <3>4, <3>5, <3>6 DEF Ended
  <2>3. ParseInv'
    BY <1>0, <2>1 DEF ParseInv, OnlyStruckAreMissed
  <2>4. EndInv'
    BY <1>0, <1>4, <2>1, <2>2 DEF EndInv
  <2>5. TypeOK'
    BY <1>0, <1>2, <2>1 DEF TypeOK, stream
  <2> QED
    BY <1>7, <2>1, <2>3, <2>4, <2>5
<1>14. CASE readErr # "eof" /\ (line # <<>> \/ Given = <<>>) /\ GoOn(Given)
  <2>1. data' = Given /\ events' = events /\ pc' = "check" /\ result' = "reading"
    BY <1>0, <1>14 DEF GoOn
  <2>2. Came' = Came
    BY <2>1 DEF Came
  <2>3. \A m \in 1..NumEvents : Given = Whole(m) => m \in struck \/ Taken' = 6 * (m - 1) + 5
    BY <1>1, <1>9, <1>14
  <2>4. DataInv'
    BY <1>0, <1>1, <1>4, <2>1, <2>2, <2>3 DEF DataInv
  <2>5. CountInv'
    <3>1. NumEvents \notin Came'
      BY <1>0, <2>2 DEF CountInv
    <3>2. \A x \in Came' : 6 * (x - 1) + 4 <= Taken'
      <4> SUFFICES ASSUME NEW x \in Came PROVE 6 * (x - 1) + 4 <= Taken'
        BY <2>2
      <4>1. x \in Nat
        BY <1>0 DEF Came
      <4>2. 6 * (x - 1) + 4 <= Taken
        BY <1>0 DEF CountInv
      <4> QED
        BY <1>0, <1>5, <4>1, <4>2
    <3>3. \A k \in 1..NumEvents : 6 * (k - 1) + 5 <= Taken' =>
            \/ k \in Came' \/ k \in struck' \/ Bad(data')
            \/ data' = Whole(k) /\ Taken' = 6 * (k - 1) + 5
      BY <1>0, <1>1, <2>1, <2>2, <2>3
    <3> QED
      BY <1>6, <2>1, <3>1, <3>2, <3>3 DEF CountInv
  <2>6. ParseInv'
    BY <1>0, <1>8, <2>1, <2>4, <2>5 DEF ParseInv, Parsing, OnlyStruckAreMissed
  <2>7. EndInv'
    BY <1>0, <2>1 DEF EndInv
  <2>8. TypeOK'
    BY <1>0, <1>1, <1>2, <2>1 DEF TypeOK, stream
  <2> QED
    BY <1>7, <2>1, <2>6, <2>7, <2>8
<1> QED
  BY <1>1, <1>3, <1>11, <1>12, <1>13, <1>14

\* A piece of the line.
LEMMA TakeStep ==
  ASSUME TypeOK, BufferInv, ParseInv, EndInv, TakePiece
  PROVE  TypeOK' /\ BufferInv' /\ ParseInv' /\ EndInv'
<1>0. /\ NumEvents \in Nat /\ pc = "line" /\ readErr = "none" /\ fetched # <<>> /\ Head(fetched) # NL
      /\ fetched' = Tail(fetched) /\ line' = Append(line, Head(fetched)) /\ line \in Seq(Pieces)
      /\ UNCHANGED <<opened, sent, hostDone, data, pc, readErr, stream, struck, events, result>>
      /\ OnlyStruckAreMissed /\ LineInv /\ DataInv /\ CountInv
      /\ sent \in 0..(6 * NumEvents) /\ events \in Seq(1..NumEvents)
  BY EventAssumption DEF TakePiece, TypeOK, ParseInv, Parsing
<1>1. PICK f \in 1..NumEvents, j \in 1..6 :
        Taken + 1 = 6 * (f - 1) + j /\ Head(fetched) = Frame(f)[j]
  BY <1>0, Buffered
<1>2. j \in 1..4 /\ Frame(f)[j] \in Pieces
  <2>1. j # 5 /\ j # 6
    BY <1>0, <1>1, FramePieces
  <2> QED
    BY <1>1, <2>1, FramePieces
<1>3. /\ fetched' \in Seq(Pieces) /\ Taken' = Taken + 1 /\ Taken \in Nat /\ Len(fetched') <= sent'
      /\ \A k \in 1..Len(fetched') : fetched'[k] = Wire[Taken' + k]
  <2>1. /\ fetched' \in Seq(Pieces) /\ Len(fetched') = Len(fetched) - 1 /\ Len(fetched) \in Nat
        /\ Len(fetched) <= sent /\ sent - Len(fetched') = Taken + 1 /\ Taken \in Nat
        /\ \A k \in 1..Len(fetched') : fetched'[k] = Wire[(Taken + 1) + k]
    BY <1>0, Buffered
  <2>2. Taken' = Taken + 1
    BY <1>0, <2>1 DEF Taken
  <2>3. Len(fetched') <= sent'
    BY <1>0, <2>1
  <2> QED
    BY <2>1, <2>2, <2>3
<1>4. BufferInv'
  BY <1>0, <1>3 DEF BufferInv
<1>5. Taken = 6 * (f - 1) + (j - 1)
  BY <1>1, <1>3
<1>6. Came' = Came /\ (Broken' <=> Broken)
  BY <1>0 DEF Came, Broken, stream
<1>7. /\ line' \in Seq(Pieces) /\ Len(line') = Len(line) + 1 /\ Len(line) \in Nat
      /\ \A k \in 1..Len(line) : line'[k] = line[k]
      /\ line'[Len(line) + 1] = Frame(f)[j]
  BY <1>0, <1>1, <1>2, AppendProperties
<1>8. \A m \in 1..NumEvents : data = Whole(m) => m \in struck
  <2> SUFFICES ASSUME NEW m \in 1..NumEvents, data = Whole(m) PROVE m \in struck
    OBVIOUS
  <2>1. m \in struck \/ Taken = 6 * (m - 1) + 5
    BY <1>0 DEF DataInv
  <2> QED
    BY <1>0, <1>2, <1>5, <2>1
<1>9. \A x \in Came : x \in Nat /\ x < f
  <2> SUFFICES ASSUME NEW x \in Came PROVE x \in Nat /\ x < f
    OBVIOUS
  <2>1. x \in Nat
    BY <1>0 DEF Came
  <2>2. 6 * (x - 1) + 4 <= Taken
    BY <1>0 DEF CountInv
  <2> QED
    BY <1>0, <1>2, <1>5, <2>1, <2>2
<1>10. \A m \in 1..NumEvents : data = Whole(m) => m < f
  <2> SUFFICES ASSUME NEW m \in 1..NumEvents, data = Whole(m) PROVE m < f
    OBVIOUS
  <2>1. 6 * (m - 1) + 4 <= Taken
    BY <1>0 DEF DataInv
  <2> QED
    BY <1>0, <1>2, <1>5, <2>1
<1>11. LineInv'
  <2>1. CASE line = <<>>
    <3>0. Len(line) = 0
      BY <2>1
    <3>1. j - 1 > 0 => f \in struck
      <4>1. ~Ended
        BY <1>0 DEF Ended
      <4>2. j - 1 > 0 => 6 * (f - 1) < Taken /\ Taken <= 6 * (f - 1) + 4
        BY <1>0, <1>2, <1>5
      <4> QED
        BY <1>0, <2>1, <4>1, <4>2 DEF CountInv
    <3>2. Len(line') = 1 /\ line'[1] = Frame(f)[j]
      BY <1>7, <3>0
    <3>3. LineAt(f, j - 1)'
      <4>1. (j - 1) + Len(line') <= 4 /\ 6 * (f - 1) + (j - 1) + Len(line') = Taken'
        <5>1. \A t \in Nat, g \in Nat, i \in 1..4 : t = 6 * (g - 1) + (i - 1) =>
                6 * (g - 1) + (i - 1) + 1 = t + 1 /\ (i - 1) + 1 <= 4
          OBVIOUS
        <5>2. f \in Nat
          BY <1>0
        <5> QED
          BY <1>2, <1>3, <1>5, <3>2, <5>1, <5>2
      <4>2. \A k \in 1..Len(line') : line'[k] = Frame(f)[(j - 1) + k]
        <5>1. ASSUME NEW k \in 1..Len(line') PROVE line'[k] = Frame(f)[(j - 1) + k]
          <6>1. k = 1 /\ (j - 1) + k = j
            BY <1>2, <3>2
          <6> QED
            BY <3>2, <6>1
        <5> QED
          BY <5>1
      <4> QED
        BY <1>0, <1>6, <1>9, <1>10, <3>1, <4>1, <4>2 DEF LineAt
    <3>4. j - 1 \in 0..3
      BY <1>2
    <3> QED
      BY <3>3, <3>4 DEF LineInv
  <2>2. CASE line # <<>>
    <3>1. PICK g \in 1..NumEvents, a \in 0..3 : LineAt(g, a)
      BY <1>0, <2>2 DEF LineInv
    <3>. DEFINE l == Len(line)
    <3>2. /\ l \in Nat /\ l # 0 /\ a + l <= 4 /\ 6 * (g - 1) + a + l = Taken
          /\ \A k \in 1..l : line[k] = Frame(g)[a + k]
          /\ a > 0 => g \in struck
      BY <1>0, <1>7, <2>2, <3>1, EmptySeq DEF LineAt
    <3> HIDE DEF l
    <3>3. f = g /\ a + l = j - 1
      BY <1>0, <1>2, <1>5, <3>2
    <3>4. Len(line') = l + 1 /\ line'[l + 1] = Frame(g)[j] /\ \A k \in 1..l : line'[k] = line[k]
      BY <1>7, <3>3 DEF l
    <3>5. \A k \in 1..(l + 1) : line'[k] = Frame(g)[a + k]
      <4>1. ASSUME NEW k \in 1..(l + 1) PROVE line'[k] = Frame(g)[a + k]
        <5>1. CASE k = l + 1
          <6>1. a + k = j
            BY <1>2, <3>2, <3>3, <5>1
          <6> QED
            BY <3>4, <5>1, <6>1
        <5>2. CASE k # l + 1
          <6>1. k \in 1..l
            BY <3>2, <5>2
          <6> QED
            BY <3>2, <3>4, <6>1
        <5> QED
          BY <5>1, <5>2
      <4> QED
        BY <4>1
    <3>6. a + Len(line') <= 4 /\ 6 * (g - 1) + a + Len(line') = Taken'
      <4>1. \A y \in Nat, x \in Nat, i \in 1..4 :
              /\ a + x = i - 1 => a + (x + 1) <= 4
              /\ 6 * (g - 1) + a + x = y => 6 * (g - 1) + a + (x + 1) = y + 1
        BY <1>0
      <4>2. l \in Nat /\ Taken \in Nat /\ Taken' = Taken + 1 /\ Len(line') = l + 1 /\ j \in 1..4
        BY <1>2, <1>3, <3>2, <3>4
      <4> QED
        BY <3>2, <3>3, <4>1, <4>2
    <3>7. LineAt(g, a)'
      BY <1>0, <1>6, <1>9, <1>10, <3>2, <3>3, <3>4, <3>5, <3>6 DEF LineAt
    <3> QED
      BY <3>7 DEF LineInv
  <2> QED
    BY <2>1, <2>2
<1>12. DataInv'
  <2>1. ASSUME NEW m \in 1..NumEvents, data = Whole(m)
        PROVE  6 * (m - 1) + 4 <= Taken' /\ \A x \in Came : x < m
    <3>1. 6 * (m - 1) + 4 <= Taken /\ \A x \in Came : x < m
      BY <1>0, <2>1 DEF DataInv
    <3> QED
      BY <1>0, <1>3, <3>1
  <2> QED
    BY <1>0, <1>6, <1>8, <2>1 DEF DataInv
<1>13. CountInv'
  <2>1. \A x \in Came : 6 * (x - 1) + 4 <= Taken'
    <3> SUFFICES ASSUME NEW x \in Came PROVE 6 * (x - 1) + 4 <= Taken'
      OBVIOUS
    <3>1. x \in Nat /\ 6 * (x - 1) + 4 <= Taken
      BY <1>0, <1>9 DEF CountInv
    <3> QED
      BY <1>0, <1>3, <3>1
  <2>2. ASSUME NEW k \in 1..NumEvents, 6 * (k - 1) + 5 <= Taken'
        PROVE  k \in Came \/ k \in struck \/ Bad(data)
    <3>1. 6 * (k - 1) + 5 <= Taken /\ Taken # 6 * (k - 1) + 5
      <4>1. \A t \in Nat, g \in Nat, x \in Nat, i \in 1..4 :
              t = 6 * (g - 1) + (i - 1) /\ 6 * (x - 1) + 5 <= t + 1 =>
                6 * (x - 1) + 5 <= t /\ t # 6 * (x - 1) + 5
        OBVIOUS
      <4>2. f \in Nat /\ k \in Nat /\ Taken \in Nat /\ j \in 1..4 /\ 6 * (k - 1) + 5 <= Taken + 1
        BY <1>0, <1>2, <1>3, <2>2
      <4> QED
        BY <1>5, <4>1, <4>2
    <3> QED
      BY <1>0, <3>1 DEF CountInv
  <2>3. line' # <<>> /\ readErr' # "failed"
    <3>1. Len(line') # 0
      BY <1>7
    <3> QED
      BY <1>0, <3>1
  <2> QED
    BY <1>0, <1>6, <2>1, <2>2, <2>3 DEF CountInv
<1>14. ParseInv'
  BY <1>0, <1>11, <1>12, <1>13 DEF ParseInv, Parsing, OnlyStruckAreMissed
<1>15. EndInv'
  BY <1>0, <1>6 DEF EndInv
<1>16. TypeOK'
  BY <1>0, <1>3, <1>7 DEF TypeOK, stream
<1> QED
  BY <1>4, <1>14, <1>15, <1>16

\* A step that takes no piece and strikes no event changes nothing of what the parser holds.
LEMMA Steady ==
  ASSUME ParseInv, Taken' = Taken, UNCHANGED <<line, data, events, struck>>,
         readErr' = "failed" <=> readErr = "failed",
         Broken => Broken', Ended => Ended' \/ pc' = "stopped",
         pc # "stopped" \/ pc' = "stopped"
  PROVE  ParseInv'
<1>1. OnlyStruckAreMissed'
  BY DEF ParseInv, OnlyStruckAreMissed
<1>2. Came' = Came
  BY DEF Came
<1>3. ASSUME pc' # "stopped" PROVE Parsing'
  <2>1. LineInv /\ DataInv /\ CountInv
    BY <1>3 DEF ParseInv, Parsing
  <2>2. LineInv'
    <3>1. ASSUME NEW f \in 1..NumEvents, NEW a \in 0..3, LineAt(f, a) PROVE LineAt(f, a)'
      BY <1>2, <3>1 DEF LineAt
    <3> QED
      BY <2>1, <3>1 DEF LineInv
  <2>3. DataInv'
    BY <1>2, <2>1 DEF DataInv
  <2>4. CountInv'
    BY <1>2, <1>3, <2>1 DEF CountInv
  <2> QED
    BY <2>2, <2>3, <2>4 DEF Parsing
<1> QED
  BY <1>1, <1>3 DEF ParseInv

\* A payload is buffered where nothing was.
LEMMA AnswerStep ==
  ASSUME TypeOK, BufferInv, ParseInv, EndInv, NEW n \in 0..MaxPayload, HostAnswers(n)
  PROVE  TypeOK' /\ BufferInv' /\ ParseInv' /\ EndInv'
<1>0. /\ NumEvents \in Nat /\ n \in Nat /\ pc = "call" /\ ~hostDone
      /\ sent \in 0..(6 * NumEvents) /\ sent + n <= 6 * NumEvents /\ sent' = sent + n
      /\ fetched' = SubSeq(Wire, sent + 1, sent + n)
      /\ hostDone' \in BOOLEAN /\ pc' = (IF n = 0 THEN "call" ELSE "line")
      /\ UNCHANGED <<opened, parser, readErr, stream, struck, events, result>>
  BY EventAssumption, Places DEF HostAnswers, TypeOK
<1>1. fetched = <<>> /\ Len(fetched) = 0 /\ readErr = "none"
  BY <1>0 DEF BufferInv
<1>2. /\ fetched' \in Seq(Pieces) /\ Len(fetched') = n
      /\ \A k \in 1..n : fetched'[k] = Wire[sent + k]
  <2>1. Wire \in Seq(Pieces) /\ Len(Wire) = 6 * NumEvents
    BY Places
  <2>2. sent + 1 \in 1..(Len(Wire) + 1) /\ sent + n \in sent..Len(Wire)
    BY <1>0, <2>1
  <2>3. /\ SubSeq(Wire, sent + 1, sent + n) \in Seq(Pieces)
        /\ Len(SubSeq(Wire, sent + 1, sent + n)) = n
        /\ \A k \in 1..n : SubSeq(Wire, sent + 1, sent + n)[k] = Wire[sent + k]
    BY <1>0, <2>1, <2>2, SubSeqProperties
  <2> QED
    BY <1>0, <2>3
<1>3. Taken' = Taken /\ Taken = sent
  <2>1. sent' = sent + n /\ Len(fetched') = n /\ Len(fetched) = 0 /\ sent \in Nat /\ n \in Nat
    BY <1>0, <1>1, <1>2
  <2> QED
    BY <2>1 DEF Taken
<1>4. fetched' = <<>> \/ pc' = "line"
  BY <1>0, <1>2, EmptySeq
<1>5. BufferInv'
  BY <1>0, <1>1, <1>2, <1>3, <1>4 DEF BufferInv
<1>6. (Broken => Broken') /\ ~Ended
  BY <1>0 DEF Broken, Ended, stream
<1>7. ParseInv'
  BY <1>0, <1>3, <1>6, Steady DEF parser
<1>8. EndInv'
  BY <1>0, <1>1, <1>6 DEF EndInv
<1>9. TypeOK'
  BY <1>0, <1>2 DEF TypeOK, parser, stream
<1> QED
  BY <1>5, <1>7, <1>8, <1>9

\* A failed read takes pieces along; it strikes the event in which it is and those it takes
\* from.
LEMMA FailStep ==
  ASSUME TypeOK, BufferInv, ParseInv, EndInv, NEW n \in 0..MaxPayload, HostFails(n)
  PROVE  TypeOK' /\ BufferInv' /\ ParseInv' /\ EndInv'
<1>0. /\ NumEvents \in Nat /\ n \in Nat /\ pc = "call" /\ ~hostDone /\ sent \in Nat
      /\ sent \in 0..(6 * NumEvents) /\ sent + n <= 6 * NumEvents /\ sent' = sent + n
      /\ struck' = struck \union {i \in 1..NumEvents : 6 * (i - 1) < sent + n /\ sent < 6 * i}
      /\ readErr' = "failed" /\ pc' = "line"
      /\ UNCHANGED <<opened, fetched, hostDone, parser, stream, events, result>>
      /\ OnlyStruckAreMissed /\ LineInv /\ DataInv /\ CountInv
      /\ events \in Seq(1..NumEvents) /\ line \in Seq(Pieces)
  BY EventAssumption, Places DEF HostFails, TypeOK, ParseInv, Parsing
<1>1. fetched = <<>> /\ Len(fetched) = 0 /\ readErr = "none"
  BY <1>0 DEF BufferInv
<1>2. Taken = sent /\ Taken' = sent + n
  <2>1. Len(fetched') = 0
    BY <1>0, <1>1
  <2> QED
    BY <1>0, <1>1, <2>1 DEF Taken
<1>3. \A k \in 1..NumEvents : 6 * (k - 1) < sent + n /\ sent < 6 * k => k \in struck'
  BY <1>0
<1>4. struck \subseteq struck' /\ Came' = Came
  BY <1>0 DEF Came
<1>5. (Broken => Broken') /\ ~Ended
  BY <1>0, <1>4 DEF Broken, Ended, stream
<1>6. BufferInv'
  BY <1>0, <1>1, <1>2 DEF BufferInv
<1>7. LineInv'
  <2>1. ASSUME NEW f \in 1..NumEvents, NEW a \in 0..3, line # <<>>, LineAt(f, a)
        PROVE  LineAt(f, a)'
    <3>. DEFINE l == Len(line)
    <3>1. /\ l \in Nat /\ l # 0 /\ a + l <= 4 /\ 6 * (f - 1) + a + l = sent
      BY <1>0, <1>1, <1>2, <2>1, EmptySeq DEF LineAt
    <3> HIDE DEF l
    <3>2. f \in struck'
      <4>1. f \in Nat /\ a \in Nat
        BY <1>0
      <4>2. 6 * (f - 1) < sent + n /\ sent < 6 * f
        BY ONLY <1>0, <3>1, <4>1
      <4> QED
        BY <1>3, <4>2
    <3>3. 6 * (f - 1) + a + l <= Taken'
      BY <1>0, <1>2, <3>1
    <3>4. /\ \A k \in 1..Len(line) : line[k] = Frame(f)[a + k]
          /\ \A m \in Came : m < f
          /\ \A m \in 1..NumEvents : data = Whole(m) => m < f
      BY <2>1 DEF LineAt
    <3>5. line' = line /\ data' = data
      BY <1>0 DEF parser
    <3> QED
      BY <1>0, <1>4, <3>1, <3>2, <3>3, <3>4, <3>5 DEF LineAt, l
  <2>2. line' = line
    BY <1>0 DEF parser
  <2> QED
    BY <1>0, <2>1, <2>2 DEF LineInv
<1>8. DataInv'
  <2>1. ASSUME NEW m \in 1..NumEvents, data = Whole(m)
        PROVE  6 * (m - 1) + 4 <= Taken' /\ (\A x \in Came : x < m) /\ m \in struck'
    <3>1. /\ 6 * (m - 1) + 4 <= sent /\ \A x \in Came : x < m
          /\ m \in struck \/ sent = 6 * (m - 1) + 5
      BY <1>0, <1>2, <2>1 DEF DataInv
    <3>2. sent = 6 * (m - 1) + 5 => m \in struck'
      BY <1>0, <1>3
    <3> QED
      BY <1>0, <1>2, <1>4, <3>1, <3>2
  <2>2. data' = data
    BY <1>0 DEF parser
  <2> QED
    BY <1>0, <1>4, <1>5, <2>1, <2>2 DEF DataInv
<1>9. CountInv'
  <2>1. \A x \in Came : 6 * (x - 1) + 4 <= Taken'
    <3> SUFFICES ASSUME NEW x \in Came PROVE 6 * (x - 1) + 4 <= Taken'
      OBVIOUS
    <3>1. x \in Nat
      BY <1>0 DEF Came
    <3>2. 6 * (x - 1) + 4 <= sent
      BY <1>0, <1>2 DEF CountInv
    <3> QED
      BY <1>0, <1>2, <3>1, <3>2
  <2>2. ASSUME NEW k \in 1..NumEvents, 6 * (k - 1) + 5 <= Taken'
        PROVE  k \in Came \/ k \in struck' \/ Bad(data)
    <3>1. CASE 6 * (k - 1) + 5 <= sent
      <4>1. \/ k \in Came \/ k \in struck \/ Bad(data) \/ sent = 6 * (k - 1) + 5
        BY <1>0, <1>2, <3>1 DEF CountInv
      <4>2. sent = 6 * (k - 1) + 5 => k \in struck'
        BY <1>0, <1>3
      <4> QED
        BY <1>4, <4>1, <4>2
    <3>2. CASE ~(6 * (k - 1) + 5 <= sent)
      <4>1. 6 * (k - 1) < sent + n /\ sent < 6 * k
        BY <1>0, <1>2, <2>2, <3>2
      <4> QED
        BY <1>3, <4>1
    <3> QED
      BY <3>1, <3>2
  <2>3. ASSUME NEW k \in 1..NumEvents, 6 * (k - 1) < Taken', Taken' <= 6 * (k - 1) + 4
        PROVE  k \in struck'
    <3>1. 6 * (k - 1) < sent + n /\ sent < 6 * k
      BY <1>0, <1>2, <2>3
    <3> QED
      BY <1>3, <3>1
  <2>4. data' = data /\ NumEvents \notin Came
    BY <1>0 DEF parser, CountInv
  <2> QED
    BY <1>4, <2>1, <2>2, <2>3, <2>4 DEF CountInv
<1>10. ParseInv'
  <2>1. OnlyStruckAreMissed'
    BY <1>0, <1>4 DEF OnlyStruckAreMissed
  <2> QED
    BY <1>7, <1>8, <1>9, <2>1 DEF ParseInv, Parsing
<1>11. EndInv'
  BY <1>0, <1>5 DEF EndInv
<1>12. TypeOK'
  <2>1. struck' \subseteq 1..NumEvents
    BY <1>0 DEF TypeOK
  <2> QED
    BY <1>0, <2>1 DEF TypeOK, parser, stream
<1> QED
  BY <1>6, <1>10, <1>11, <1>12

-----------------------------------------------------------------------------
(* The inductive invariant.                                                  *)

\* Before the request nothing is sent, held or closed.
LEMMA InitInv == Init => Inv
<1> SUFFICES ASSUME Init PROVE Inv
  OBVIOUS
<1>0. NumEvents \in Nat \ {0} /\ MaxPayload \in Nat
  BY EventAssumption
<1>1. /\ sent = 0 /\ fetched = <<>> /\ hostDone = FALSE /\ line = <<>> /\ data = <<>>
      /\ events = <<>> /\ Len(events) = 0 /\ Len(fetched) = 0 /\ struck = {}
  BY DEF Init
<1>2. TypeOK
  <2>1. <<>> \in Seq(Pieces) /\ <<>> \in Seq(1..NumEvents) /\ 0 \in 0..(6 * NumEvents)
    BY <1>0, EmptySeq
  <2> QED
    BY <2>1 DEF Init, TypeOK
<1>3. CloseInv
  BY DEF Init, CloseInv
<1>4. BufferInv
  BY <1>1 DEF Init, BufferInv
<1>5. ParseInv
  <2>1. Taken = 0
    <3>1. sent = 0 /\ Len(fetched) = 0
      BY <1>1
    <3> QED
      BY <3>1 DEF Taken
  <2>2. Came = {}
    BY <1>1 DEF Came
  <2>3. DataInv
    <3>1. ~Bad(<<>>) /\ \A m \in 1..NumEvents : Whole(m) # <<>>
      BY WholeFacts DEF Bad
    <3> QED
      BY <1>1, <3>1 DEF DataInv
  <2>4. CountInv
    BY <1>0, <2>1, <2>2 DEF CountInv
  <2>5. LineInv
    BY <1>1 DEF LineInv
  <2>6. OnlyStruckAreMissed
    BY <1>1 DEF OnlyStruckAreMissed
  <2> QED
    BY <2>3, <2>4, <2>5, <2>6 DEF ParseInv, Parsing
<1>6. EndInv
  BY DEF Init, EndInv
<1> QED
  BY <1>2, <1>3, <1>4, <1>5, <1>6 DEF Inv

\* The steps that neither take nor bring a piece: those of Stream and of the context, ...
LEMMA OtherSteps ==
  ASSUME Inv,
         \/ OpenFails \/ RoundTrip("stream") \/ RoundTrip("chunks") \/ Rejects \/ Drain \/ Accepts
         \/ Expires \/ Cancels \/ AfterFunc \/ Closing \/ Over \/ UNCHANGED vars
  PROVE  TypeOK' /\ BufferInv' /\ ParseInv' /\ EndInv'
<1>0. TypeOK /\ CloseInv /\ BufferInv /\ ParseInv /\ EndInv
  BY DEF Inv
<1>. DEFINE Same == UNCHANGED <<sent, fetched, line, data, events, readErr, struck>>
<1>1. ASSUME Same, hostDone' = hostDone, ctx = "done" => ctx' = "done", closed => closed',
             pc' = pc, result' = result
      PROVE  BufferInv' /\ ParseInv' /\ EndInv'
  <2>1. (Broken => Broken') /\ (Ended => Ended') /\ Taken' = Taken
    BY <1>1 DEF Broken, Ended, Taken
  <2>2. ParseInv'
    BY <1>0, <1>1, <2>1, Steady
  <2>3. BufferInv'
    BY <1>0, <1>1, <2>1 DEF BufferInv
  <2>4. EndInv'
    BY <1>0, <1>1, <2>1 DEF EndInv
  <2> QED
    BY <2>2, <2>3, <2>4
<1>2. ASSUME Same, pc \in {"opening", "answered", "drain"},
             \/ pc' = "stopped" /\ ctx' = "done" /\ result' \in {"unopened", "rejected"}
             \/ /\ pc' = "drain" /\ ctx' = "done" /\ result' = "rejected"
                /\ hostDone' = hostDone /\ closed' = closed
             \/ /\ pc' \in {"answered", "check"} /\ pc # "drain" /\ result' = result
                /\ hostDone' = hostDone /\ closed' = closed /\ ctx' = ctx
      PROVE  BufferInv' /\ ParseInv' /\ EndInv'
  <2>1. (Broken => Broken') /\ (Ended => Ended' \/ pc' = "stopped") /\ Taken' = Taken
    BY <1>2 DEF Broken, Ended, Taken
  <2>2. readErr = "none" /\ pc # "stopped" /\ pc' \notin {"closed?", "call"} /\ readErr' = "none"
    BY <1>0, <1>2 DEF BufferInv
  <2>3. ParseInv'
    BY <1>0, <1>2, <2>1, <2>2, Steady
  <2>4. BufferInv'
    BY <1>0, <1>2, <2>1, <2>2 DEF BufferInv
  <2>5. EndInv'
    BY <1>0, <1>2, <2>1, <2>2 DEF EndInv, Broken
  <2> QED
    BY <2>3, <2>4, <2>5
<1>3. CASE OpenFails \/ RoundTrip("stream") \/ RoundTrip("chunks") \/ Rejects \/ Accepts
  <2>1. TypeOK'
    <3>1. /\ UNCHANGED <<sent, fetched, hostDone, line, data, readErr, closed, once, closer,
                          hostCloses, struck, events>>
          /\ pc' \in {"stopped", "answered", "drain", "check"} /\ ctx' \in {ctx, "done"}
          /\ opened' \in {opened, "stream", "chunks", "failed"}
          /\ result' \in {result, "unopened", "rejected"}
      BY <1>3 DEF OpenFails, RoundTrip, Rejects, Accepts, Stops, body, parser, stream
    <3> QED
      BY <1>0, <3>1 DEF TypeOK
  <2>2. BufferInv' /\ ParseInv' /\ EndInv'
    BY <1>2, <1>3 DEF OpenFails, RoundTrip, Rejects, Accepts, Stops, body, parser, stream
  <2> QED
    BY <2>1, <2>2
<1>4. CASE Drain
  <2>1. ctx = "done" /\ result = "rejected"
    BY <1>0, <1>4 DEF Drain, CloseInv
  <2>2. TypeOK'
    <3>1. /\ UNCHANGED <<sent, fetched, parser, opened, readErr, ctx, closed, once, hostCloses,
                          struck, events, result>>
          /\ pc' = "stopped" /\ hostDone' \in BOOLEAN
          /\ closer' \in [Closers -> {"away", "waiting", "closing", "returned"}]
      BY <1>0, <1>4 DEF TypeOK, Drain
    <3> QED
      BY <1>0, <3>1 DEF TypeOK, parser
  <2>3. BufferInv' /\ ParseInv' /\ EndInv'
    BY <1>2, <1>4, <2>1 DEF Drain, parser
  <2> QED
    BY <2>2, <2>3
<1>5. CASE Expires \/ Cancels \/ AfterFunc
  <2>1. TypeOK'
    <3>1. /\ UNCHANGED <<body, parser, pc, opened, readErr, closed, once, hostCloses, struck,
                          events, result>>
          /\ ctx' \in {ctx, "done"}
          /\ closer' \in [Closers -> {"away", "waiting", "closing", "returned"}]
      BY <1>0, <1>5 DEF TypeOK, Expires, Cancels, AfterFunc
    <3> QED
      BY <1>0, <3>1 DEF TypeOK, body, parser
  <2>2. BufferInv' /\ ParseInv' /\ EndInv'
    BY <1>1, <1>5 DEF Expires, Cancels, AfterFunc, body, parser
  <2> QED
    BY <2>1, <2>2
<1>6. ASSUME NEW c \in Closers, CloseFirst(c) \/ CloseHost(c) \/ CloseAgain(c)
      PROVE  TypeOK' /\ BufferInv' /\ ParseInv' /\ EndInv'
  <2>1. TypeOK'
    <3>1. /\ UNCHANGED <<body, parser, pc, opened, readErr, ctx, struck, events, result>>
          /\ closed' \in {closed, TRUE} /\ once' \in {once, "taken", "over"}
          /\ hostCloses' \in {hostCloses, hostCloses + 1}
          /\ closer' \in [Closers -> {"away", "waiting", "closing", "returned"}]
      BY <1>0, <1>6 DEF TypeOK, CloseFirst, CloseHost, CloseAgain
    <3>2. once' \in {"free", "taken", "over"} /\ hostCloses' \in Nat
      BY <1>0, <3>1 DEF TypeOK
    <3>3. closed \in BOOLEAN
      BY <1>0 DEF TypeOK
    <3>4. closed' \in BOOLEAN
      BY <3>1, <3>3, Zenon
    <3> QED
      BY <1>0, <3>1, <3>2, <3>4 DEF TypeOK, body, parser
  <2>2. BufferInv' /\ ParseInv' /\ EndInv'
    BY <1>1, <1>6 DEF CloseFirst, CloseHost, CloseAgain, body, parser
  <2> QED
    BY <2>1, <2>2
<1>7. CASE Over \/ UNCHANGED vars
  <2>1. UNCHANGED <<sent, fetched, hostDone, line, data, pc, opened, readErr, ctx, closed, once,
                    closer, hostCloses, struck, events, result>>
    BY <1>7 DEF Over, vars, body, parser, stream
  <2>3. TypeOK'
    BY <1>0, <2>1 DEF TypeOK
  <2>2. BufferInv' /\ ParseInv' /\ EndInv'
    BY <1>1, <2>1
  <2> QED
    BY <2>2, <2>3
<1> QED
  BY <1>3, <1>4, <1>5, <1>6, <1>7 DEF Closing

\* ... and those of the reader.
LEMMA ReaderSteps ==
  ASSUME Inv, CheckContext \/ NeedsMore \/ ReadEOF \/ ReadOn \/ ReadDone
  PROVE  TypeOK' /\ BufferInv' /\ ParseInv' /\ EndInv'
<1>0. TypeOK /\ CloseInv /\ BufferInv /\ ParseInv /\ EndInv
  BY DEF Inv
<1>1. UNCHANGED <<sent, fetched, hostDone, line, data, events, ctx, closed, struck>>
  BY DEF CheckContext, NeedsMore, ReadEOF, ReadOn, ReadDone, Stops, body, parser, stream
<1>2. (Broken => Broken') /\ Taken' = Taken
  BY <1>1 DEF Broken, Taken
<1>3. Ended => Ended'
  BY <1>1 DEF CheckContext, NeedsMore, ReadEOF, ReadOn, ReadDone, Stops, Ended
<1>4. /\ pc # "stopped" /\ result' \in {result, "context"}
      /\ pc' \in {"closed?", "call"} \/ readErr' # "none" => fetched = <<>>
      /\ readErr' # "none" => pc' = "line"
      /\ readErr' = "failed" <=> readErr = "failed"
  BY <1>0 DEF CheckContext, NeedsMore, ReadEOF, ReadOn, ReadDone, Stops, BufferInv
<1>5. ParseInv'
  BY <1>0, <1>1, <1>2, <1>3, <1>4, Steady
<1>6. BufferInv'
  BY <1>0, <1>1, <1>2, <1>4 DEF BufferInv
<1>7. readErr' = "eof" => Ended'
  <2>1. CASE CheckContext \/ NeedsMore \/ ReadOn
    BY <1>0, <1>3, <2>1 DEF CheckContext, NeedsMore, ReadOn, EndInv
  <2>2. CASE ReadEOF \/ ReadDone
    BY <1>0, <1>1, <2>2 DEF ReadEOF, ReadDone, Ended, BufferInv
  <2> QED
    BY <2>1, <2>2
<1>8. EndInv'
  BY <1>0, <1>1, <1>2, <1>7
  DEF CheckContext, NeedsMore, ReadEOF, ReadOn, ReadDone, Stops, EndInv, Broken
<1>9. /\ UNCHANGED <<body, parser, opened, stream, struck, events>>
      /\ pc' \in {"line", "closed?", "call", "stopped"} /\ result' \in {result, "context"}
      /\ readErr' \in {readErr, "eof"}
  BY DEF CheckContext, NeedsMore, ReadEOF, ReadOn, ReadDone, Stops
<1>10. TypeOK'
  BY <1>0, <1>9 DEF TypeOK, body, parser, stream
<1> QED
  BY <1>5, <1>6, <1>8, <1>10

\* The invariant is inductive.
LEMMA StepInv == Inv /\ [Next]_vars => Inv'
<1> SUFFICES ASSUME Inv, [Next]_vars PROVE Inv'
  OBVIOUS
<1>0. TypeOK /\ CloseInv /\ BufferInv /\ ParseInv /\ EndInv
  BY DEF Inv
<1>1. CloseInv'
  BY <1>0, CloseStep
<1>2. CASE HandleLine
  BY <1>0, <1>1, <1>2, LineStep DEF Inv
<1>3. CASE TakePiece
  BY <1>0, <1>1, <1>3, TakeStep DEF Inv
<1>4. ASSUME NEW n \in 0..MaxPayload, HostAnswers(n) PROVE Inv'
  BY <1>0, <1>1, <1>4, AnswerStep DEF Inv
<1>5. ASSUME NEW n \in 0..MaxPayload, HostFails(n) PROVE Inv'
  BY <1>0, <1>1, <1>5, FailStep DEF Inv
<1>6. CASE CheckContext \/ NeedsMore \/ ReadEOF \/ ReadOn \/ ReadDone
  BY <1>1, <1>6, ReaderSteps DEF Inv
<1>7. CASE \/ Opening
           \/ Expires \/ Cancels \/ AfterFunc \/ Closing \/ Over \/ UNCHANGED vars
  BY <1>1, <1>7, OtherSteps DEF Inv, Opening
<1> QED
  BY <1>2, <1>3, <1>4, <1>5, <1>6, <1>7 DEF Next, Reader

-----------------------------------------------------------------------------
(* What the stream promises.                                                 *)

\* The inductive invariant holds of the stream, its host, its deadline and its closers.
THEOREM Invariance == Spec => []Inv
<1>1. Init => Inv
  BY InitInv
<1>2. Inv /\ [Next]_vars => Inv'
  BY StepInv
<1> QED
  BY <1>1, <1>2, PTL DEF Spec

\* The fields of the body, the parser and the stream keep their types.
THEOREM TypeCorrect == Spec => []TypeOK
<1>1. Inv => TypeOK
  BY DEF Inv
<1> QED
  BY <1>1, Invariance, PTL

\* Wherever the host cuts the wire into payloads, whichever of them it loses with a failure and
\* whenever the deadline passes, SSEParser returns the upstream's events in order, none twice,
\* and misses only those that a failed read struck.
THEOREM OnlyFailuresLose == Spec => []OnlyStruckAreMissed
<1>1. Inv => OnlyStruckAreMissed
  BY DEF Inv, ParseInv
<1> QED
  BY <1>1, Invariance, PTL

\* A stream that neither the host nor its deadline broke off, and of which no event was struck,
\* ends with its terminal event only: the parser never gives one up.
THEOREM HealthyEndsWell == Spec => []HealthyStreamCompletes
<1>1. ASSUME Inv PROVE HealthyStreamCompletes
  <2>1. Len(Wire) = 6 * NumEvents
    BY Places
  <2>2. result \notin {"reading", "terminal"} => Broken
    BY <1>1 DEF Inv, EndInv
  <2>3. ctx \in {"live", "done"}
    BY <1>1 DEF Inv, TypeOK
  <2> QED
    BY <2>1, <2>2, <2>3 DEF HealthyStreamCompletes, Broken
<1> QED
  BY <1>1, Invariance, PTL

\* hostStreamBody.Close closes the host's stream at most once, and has done so when it returns
\* to whichever of its two callers.
THEOREM CloseTold == Spec => []CancelMeansClosed
<1>1. ASSUME Inv PROVE CancelMeansClosed
  <2>1. TypeOK /\ CloseInv
    BY <1>1 DEF Inv
  <2>2. ASSUME NEW c \in Closers, closer[c] = "returned" PROVE once = "over"
    BY <2>1, <2>2 DEF TypeOK, CloseInv
  <2>3. hostCloses = (IF once = "over" /\ opened = "stream" THEN 1 ELSE 0)
    BY <2>1 DEF CloseInv
  <2> QED
    BY <2>2, <2>3 DEF CancelMeansClosed
<1> QED
  BY <1>1, Invariance, PTL
=============================================================================
