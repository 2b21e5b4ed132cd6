-------------------------- MODULE EventStreamProofs ---------------------------
(***************************************************************************)
(* Proofs about EventStream for every set of writers and streams, every    *)
(* number of events of each writer and every capacity of a channel.        *)
(***************************************************************************)
EXTENDS EventStream, SequenceTheorems, TLAPS

-----------------------------------------------------------------------------
(***************************************************************************)
(* The invariant.                                                          *)
(***************************************************************************)

\* Where Publish goes through the subscribers it copied, and where send has
\* found one of them full.
Sending == {"send", "blocked", "remove", "close"}
AtFull  == {"blocked", "remove", "close"}

\* The types, with what TypeOK follows from.
TypeInv ==
  /\ rows \subseteq Events /\ unsaved \subseteq Events
  /\ pc \in [Writers -> WriterPcs]
  /\ sent \in [Writers -> Nat]
  /\ todo \in [Writers -> SUBSET Streams]
  /\ on \in [Writers -> Streams \cup {Nobody}]
  /\ subs \subseteq Streams /\ closing \subseteq Streams
  /\ held \in BOOLEAN /\ hasDone \in BOOLEAN
  /\ registered \in BOOLEAN /\ rLock \in BOOLEAN
  /\ chan \in [Streams -> Seq(Events)]
  /\ \A s \in Streams : Len(chan[s]) <= Capacity
  /\ closed \in [Streams -> BOOLEAN]
  /\ sLock \in [Streams -> Writers \cup {Nobody}]
  /\ hpc \in [Streams -> HandlerPcs]
  /\ unread \in [Streams -> SUBSET Writers]
  /\ snap \in [Streams -> SUBSET Events]
  /\ got \in [Streams -> Seq(Events)]
  /\ blind \in [Streams -> BOOLEAN] /\ grace \in [Streams -> BOOLEAN]

\* A writer counts its events, and holds the mutex of the subscriber it
\* waits for.
WriterInv ==
  \A w \in Writers :
    /\ sent[w] <= Count[w]
    /\ pc[w] \in {"persist", "copy"} \cup Sending => sent[w] < Count[w]
    /\ pc[w] \notin Sending => todo[w] = {}
    /\ pc[w] \in AtFull => on[w] \in todo[w]
    /\ pc[w] = "blocked" => sLock[on[w]] = w /\ ~ closed[on[w]]

\* What is published was persisted before, or at least tried, and done only when the views were through.
Tried == rows \cup unsaved

RowsInv ==
  /\ \A w \in Writers : /\ \A n \in 1..sent[w] : Ev(w, n) \in Tried
                        /\ pc[w] \in {"copy"} \cup Sending => NextEv(w) \in Tried
  /\ DoneEv \in Tried => MayClose

\* Subscribers are those of an entry; a handler that has not subscribed is not
\* sent anything.
EntryInv ==
  /\ subs # {} => held
  /\ \A s \in Streams : hpc[s] = "start" =>
       /\ s \notin subs /\ \A w \in Writers : s \notin todo[w]
       /\ unread[s] = Writers
       /\ Carried(s) = <<>>

\* The number of events of w that are behind stream s: they were sent to it,
\* or it was not there to be sent to.
Reached(w, s) == IF pc[w] \in Sending /\ s \notin todo[w] THEN sent[w] + 1 ELSE sent[w]

\* A stream carries persisted events, none that w has not reached; as long as
\* it may be sent more by w, the last it carries is the last w has reached.
OrderInv(s) ==
  \A i \in 1..Len(Carried(s)) :
    LET e == Carried(s)[i] IN
    /\ e \in Tried
    /\ e.n <= Reached(e.by, s)
    /\ /\ \A k \in (i + 1)..Len(Carried(s)) : Carried(s)[k].by # e.by
       /\ ~ closed[s] /\ (s \in subs \/ s \in todo[e.by])
       => e.n = Reached(e.by, s)

\* What a client has been told or will be: by the snapshot as it stands, by the
\* stream, or by the rows the snapshot has still to read, unless its statement
\* failed.
ToldOf(s, e) == \/ e \in snap[s]
                \/ \E i \in 1..Len(Carried(s)) : Carried(s)[i] = e
                \/ e.by \in unread[s] /\ e \in rows
                \/ e \in unsaved

ToldInv(s) ==
  /\ hpc[s] = "stream" /\ ~ blind[s] => unread[s] = {}
  /\ hpc[s] \in {"snapshot", "stream"} /\ ~ blind[s] /\ s \in subs /\ ~ closed[s] =>
       \A w \in Writers : \A n \in 1..Reached(w, s) : ToldOf(s, Ev(w, n))

StreamInv == \A s \in Streams : OrderInv(s) /\ ToldInv(s)

IInv == TypeInv /\ WriterInv /\ RowsInv /\ EntryInv /\ StreamInv /\ NoGaps /\ DoneEndsStream

-----------------------------------------------------------------------------
(***************************************************************************)
(* Events and streams.                                                     *)
(***************************************************************************)

LEMMA EventFields ==
  ASSUME NEW e \in Events
  PROVE  /\ e = Ev(e.by, e.n)
         /\ e.by \in Writers /\ e.n \in 1..Count[e.by]
<1>1. PICK w \in Writers : \E n \in 1..Count[w] : e = Ev(w, n)
  BY DEF Events
<1>2. PICK n \in 1..Count[w] : e = Ev(w, n)
  BY <1>1
<1>3. QED
  BY <1>2 DEF Ev

LEMMA EvIsEvent ==
  ASSUME NEW w \in Writers, NEW n \in 1..Count[w]
  PROVE  Ev(w, n) \in Events
BY DEF Events

\* A writer that still publishes has an event at hand.
LEMMA NextIsEvent ==
  ASSUME TypeInv, WriterInv, NEW w \in Writers, pc[w] \in {"persist", "copy"} \cup Sending
  PROVE  NextEv(w) \in Events
<1>1. sent[w] \in Nat /\ sent[w] < Count[w] /\ Count[w] \in Nat
  BY StreamConstants DEF TypeInv, WriterInv
<1>2. sent[w] + 1 \in 1..Count[w]
  BY <1>1
<1>3. QED
  BY <1>2, EvIsEvent DEF NextEv

\* Carried is a sequence, and what a step does to it.
LEMMA CarriedIsSeq ==
  ASSUME TypeInv, NEW s \in Streams
  PROVE  /\ Carried(s) \in Seq(Events) /\ Len(Carried(s)) \in Nat
         /\ \A i \in 1..Len(Carried(s)) : Carried(s)[i] \in Events
<1>1. got[s] \in Seq(Events) /\ chan[s] \in Seq(Events)
  BY DEF TypeInv
<1>2. Carried(s) \in Seq(Events)
  BY <1>1, ConcatProperties DEF Carried
<1>3. QED
  BY <1>2, LenProperties, ElementOfSeq

LEMMA CarriedAppend ==
  ASSUME NEW g \in Seq(Events), NEW c \in Seq(Events), NEW e \in Events
  PROVE  g \o Append(c, e) = Append(g \o c, e)
<1>1. Append(c, e) = c \o <<e>> /\ <<e>> \in Seq(Events)
  BY AppendIsConcat
<1>2. g \o (c \o <<e>>) = (g \o c) \o <<e>>
  BY <1>1, ConcatAssociative
<1>3. g \o c \in Seq(Events)
  BY ConcatProperties
<1>4. Append(g \o c, e) = (g \o c) \o <<e>>
  BY <1>3, AppendIsConcat
<1>5. QED
  BY <1>1, <1>2, <1>4

LEMMA CarriedShift ==
  ASSUME NEW g \in Seq(Events), NEW c \in Seq(Events), c # <<>>
  PROVE  Append(g, Head(c)) \o Tail(c) = g \o c
<1>1. Head(c) \in Events /\ Tail(c) \in Seq(Events)
  BY HeadTailProperties
<1>2. Append(g, Head(c)) = g \o <<Head(c)>> /\ <<Head(c)>> \in Seq(Events)
  BY <1>1, AppendIsConcat
<1>3. (g \o <<Head(c)>>) \o Tail(c) = g \o (<<Head(c)>> \o Tail(c))
  BY <1>1, <1>2, ConcatAssociative
<1>4. <<Head(c)>> \o Tail(c) = c
  <2> DEFINE t == <<Head(c)>> \o Tail(c)
  <2>1. /\ t \in Seq(Events) /\ Len(t) = 1 + Len(Tail(c))
        /\ \A i \in 1..Len(<<Head(c)>>) + Len(Tail(c)) :
             t[i] = IF i <= Len(<<Head(c)>>) THEN <<Head(c)>>[i] ELSE Tail(c)[i - Len(<<Head(c)>>)]
    BY <1>1, <1>2, ConcatProperties
  <2>2. /\ Len(Tail(c)) = Len(c) - 1 /\ Len(c) \in Nat
        /\ \A i \in 1..Len(Tail(c)) : Tail(c)[i] = c[i + 1]
    BY HeadTailProperties, LenProperties
  <2>3. Len(<<Head(c)>>) = 1 /\ <<Head(c)>>[1] = c[1]
    OBVIOUS
  <2>4. Len(t) = Len(c)
    BY <2>1, <2>2
  <2>5. ASSUME NEW i \in 1..Len(t) PROVE t[i] = c[i]
    <3>1. i \in 1..(1 + Len(Tail(c)))
      BY <2>1
    <3>2. t[i] = IF i <= 1 THEN <<Head(c)>>[i] ELSE Tail(c)[i - 1]
      BY <2>1, <2>3, <3>1
    <3>3. CASE i = 1
      BY <2>3, <3>2, <3>3
    <3>4. CASE i # 1
      <4>1. i - 1 \in 1..Len(Tail(c)) /\ ~ (i <= 1) /\ (i - 1) + 1 = i
        BY <2>2, <3>1, <3>4
      <4>2. Tail(c)[i - 1] = c[(i - 1) + 1]
        BY <2>2, <4>1
      <4>3. QED
        BY <3>2, <4>1, <4>2
    <3>5. QED
      BY <3>3, <3>4
  <2> HIDE DEF t
  <2>6. t = c
    BY <2>1, <2>4, <2>5, SeqEqual
  <2>7. QED
    BY <2>6 DEF t
<1>5. QED
  BY <1>2, <1>3, <1>4

-----------------------------------------------------------------------------
(***************************************************************************)
(* Types.                                                                  *)
(***************************************************************************)

LEMMA TypeOfInv == TypeInv /\ WriterInv => TypeOK
<1> SUFFICES ASSUME TypeInv, WriterInv PROVE TypeOK
  OBVIOUS
<1>1. \A w \in Writers : sent[w] \in 0..Count[w]
  BY StreamConstants DEF TypeInv, WriterInv
<1>2. \A s \in Streams : ToSet(chan[s]) \cup ToSet(got[s]) \cup snap[s] \subseteq Events
  <2> TAKE s \in Streams
  <2>1. chan[s] \in Seq(Events) /\ got[s] \in Seq(Events) /\ snap[s] \subseteq Events
    BY DEF TypeInv
  <2>2. ToSet(chan[s]) \subseteq Events /\ ToSet(got[s]) \subseteq Events
    BY <2>1, LenProperties, ElementOfSeq DEF ToSet
  <2>3. QED
    BY <2>1, <2>2
<1>3. QED
  BY <1>1, <1>2 DEF TypeInv, TypeOK

LEMMA TypeInit == Init => TypeInv
<1> SUFFICES ASSUME Init PROVE TypeInv
  OBVIOUS
<1>1. <<>> \in Seq(Events) /\ Len(<<>>) = 0 /\ 0 <= Capacity
  BY StreamConstants
<1>2. QED
  BY <1>1 DEF Init, TypeInv, WriterPcs, HandlerPcs

\* The event that send delivers fits, and is one.
LEMMA DeliverTypes ==
  ASSUME TypeInv, WriterInv, NEW w \in Writers, NEW s \in Streams,
         pc[w] \in Sending, HasRoom(s), Deliver(w, s)
  PROVE  /\ chan' \in [Streams -> Seq(Events)]
         /\ \A x \in Streams : Len(chan'[x]) <= Capacity
<1>1. NextEv(w) \in Events /\ chan[s] \in Seq(Events)
  BY NextIsEvent DEF TypeInv
<1>2. /\ Append(chan[s], NextEv(w)) \in Seq(Events)
      /\ Len(Append(chan[s], NextEv(w))) = Len(chan[s]) + 1
  BY <1>1, AppendProperties
<1>3. Len(chan[s]) + 1 <= Capacity
  BY <1>1, LenProperties, StreamConstants DEF HasRoom
<1>4. QED
  BY <1>2, <1>3 DEF Deliver, TypeInv

LEMMA WriterTypes ==
  ASSUME TypeInv, WriterInv, NEW w \in Writers, Persist(w) \/ Publishing(w) \/ MarkDone
  PROVE  TypeInv'
<1>1. CASE Persist(w)
  <2>1. NextEv(w) \in Events
    BY <1>1, NextIsEvent DEF Persist
  <2>2. QED
    BY <1>1, <2>1 DEF Persist, TypeInv, WriterPcs, entryVars, chanVars, handlerVars
<1>2. CASE CopySubs(w)
  BY <1>2 DEF CopySubs, TypeInv, WriterPcs, entryVars, chanVars, handlerVars
<1>3. ASSUME NEW s \in Streams, Send(w, s) PROVE TypeInv'
  <2>1. /\ chan' \in [Streams -> Seq(Events)]
        /\ \A x \in Streams : Len(chan'[x]) <= Capacity
    BY <1>3, DeliverTypes DEF Send, Sending, TypeInv
  <2>2. QED
    BY <1>3, <2>1 DEF Send, TypeInv, entryVars, handlerVars
<1>4. ASSUME NEW s \in Streams, SendBlocks(w, s) PROVE TypeInv'
  BY <1>4 DEF SendBlocks, TypeInv, WriterPcs, entryVars, handlerVars
<1>5. CASE SendSpace(w)
  <2>1. on[w] \in Streams
    BY <1>5 DEF SendSpace, WriterInv, AtFull, TypeInv
  <2>2. /\ chan' \in [Streams -> Seq(Events)]
        /\ \A x \in Streams : Len(chan'[x]) <= Capacity
    BY <1>5, <2>1, DeliverTypes DEF SendSpace, Sending
  <2>3. QED
    BY <1>5, <2>1, <2>2 DEF SendSpace, TypeInv, WriterPcs, entryVars, handlerVars
<1>6. CASE SendTimeout(w)
  BY <1>6 DEF SendTimeout, TypeInv, WriterPcs, entryVars, handlerVars
<1>7. CASE RemoveSub(w)
  BY <1>7 DEF RemoveSub, TypeInv, WriterPcs, chanVars, handlerVars
<1>8. CASE CloseSlow(w)
  BY <1>8 DEF CloseSlow, CloseSub, TypeInv, WriterPcs, entryVars, handlerVars
<1>9. CASE PublishReturns(w)
  BY <1>9 DEF PublishReturns, TypeInv, WriterPcs, entryVars, chanVars, handlerVars
<1>10. CASE MarkDone
  BY <1>10 DEF MarkDone, TypeInv, WriterPcs, chanVars, handlerVars
<1>11. QED
  BY <1>1, <1>2, <1>3, <1>4, <1>5, <1>6, <1>7, <1>8, <1>9, <1>10 DEF Publishing

LEMMA EntryTypes ==
  ASSUME TypeInv, Register \/ Cleaner
  PROVE  TypeInv'
<1>1. CASE Register
  BY <1>1 DEF Register, TypeInv, writerVars, chanVars, handlerVars
<1>2. CASE CleanStart
  BY <1>2 DEF CleanStart, TypeInv, writerVars, chanVars, handlerVars
<1>3. CASE CleanEnd
  BY <1>3 DEF CleanEnd, TypeInv, writerVars, chanVars, handlerVars
<1>4. ASSUME NEW s \in Streams, CleanClose(s) PROVE TypeInv'
  BY <1>4 DEF CleanClose, CloseSub, TypeInv, writerVars, handlerVars
<1>5. QED
  BY <1>1, <1>2, <1>3, <1>4 DEF Cleaner

LEMMA HandlerTypes ==
  ASSUME TypeInv, NEW s \in Streams, Subscribe(s) \/ Handler(s) \/ Disconnect(s)
  PROVE  TypeInv'
<1>1. CASE Subscribe(s)
  BY <1>1 DEF Subscribe, TypeInv, HandlerPcs, writerVars, chanVars
<1>2. ASSUME NEW w \in Writers, ReadRows(s, w) PROVE TypeInv'
  BY <1>2 DEF ReadRows, TypeInv, writerVars, entryVars, chanVars
<1>3. CASE WriteSnapshot(s)
  BY <1>3 DEF WriteSnapshot, TypeInv, HandlerPcs, writerVars, entryVars, chanVars
<1>4. CASE Receive(s)
  <2>1. chan[s] \in Seq(Events) /\ got[s] \in Seq(Events) /\ chan[s] # <<>>
    BY <1>4 DEF Receive, TypeInv
  <2>2. /\ Head(chan[s]) \in Events /\ Tail(chan[s]) \in Seq(Events)
        /\ Len(Tail(chan[s])) = Len(chan[s]) - 1 /\ Len(chan[s]) \in Nat
    BY <2>1, HeadTailProperties, LenProperties
  <2>3. Append(got[s], Head(chan[s])) \in Seq(Events)
    BY <2>1, <2>2, AppendProperties
  <2>4. Len(Tail(chan[s])) <= Capacity
    BY <2>2, StreamConstants DEF TypeInv
  <2>5. (grace[s] \/ Head(chan[s]) = DoneEv) \in BOOLEAN
    BY DEF TypeInv
  <2>6. QED
    BY <1>4, <2>2, <2>3, <2>4, <2>5 DEF Receive, TypeInv, writerVars, entryVars
<1>5. CASE StreamEnds(s) \/ Disconnect(s)
  BY <1>5 DEF StreamEnds, Disconnect, TypeInv, HandlerPcs, writerVars, entryVars, chanVars
<1>6. CASE Unsubscribe(s)
  BY <1>6 DEF Unsubscribe, TypeInv, HandlerPcs, writerVars, chanVars
<1>7. CASE CloseOwn(s)
  <2>1. <<>> \in Seq(Events) /\ Len(<<>>) = 0 /\ 0 <= Capacity
    BY StreamConstants
  <2>2. QED
    BY <1>7, <2>1 DEF CloseOwn, CloseSub, TypeInv, HandlerPcs, writerVars, entryVars
<1>8. QED
  BY <1>1, <1>2, <1>3, <1>4, <1>5, <1>6, <1>7 DEF Handler

LEMMA TypeStep == TypeInv /\ WriterInv /\ [Next]_vars => TypeInv'
<1> SUFFICES ASSUME TypeInv, WriterInv, [Next]_vars PROVE TypeInv'
  OBVIOUS
<1>1. CASE UNCHANGED vars
  BY <1>1 DEF vars, writerVars, entryVars, chanVars, handlerVars, TypeInv
<1>2. QED
  BY <1>1, WriterTypes, EntryTypes, HandlerTypes, StreamConstants DEF Next

-----------------------------------------------------------------------------
(***************************************************************************)
(* Writers, and the subscriber's mutex.                                    *)
(***************************************************************************)

LEMMA WriterInit == Init => WriterInv
BY StreamConstants DEF Init, WriterInv, Sending, AtFull

\* subscriber.close waits for whoever is sending.
LEMMA CloseSpares ==
  ASSUME TypeInv, WriterInv, NEW s \in Streams, CloseSub(s),
         NEW w \in Writers, pc[w] = "blocked"
  PROVE  on[w] \in Streams /\ ~ closed'[on[w]]
<1>1. on[w] \in Streams /\ sLock[on[w]] = w /\ ~ closed[on[w]]
  BY DEF WriterInv, AtFull, TypeInv
<1>2. on[w] # s
  BY <1>1, StreamConstants DEF CloseSub, LockFree
<1>3. QED
  BY <1>1, <1>2 DEF CloseSub, TypeInv

\* A step that moves one writer and leaves the others their mutexes.
LEMMA WriterMoves ==
  ASSUME TypeInv, WriterInv, NEW w \in Writers, Publishing(w) \/ Persist(w) \/ (w = Closer /\ MarkDone),
         NEW x \in Writers \ {w}
  PROVE  /\ pc'[x] = pc[x] /\ sent'[x] = sent[x] /\ todo'[x] = todo[x] /\ on'[x] = on[x]
         /\ pc[x] = "blocked" => sLock'[on[x]] = x /\ ~ closed'[on[x]]
<1> USE DEF TypeInv
<1>0. pc[x] = "blocked" => on[x] \in Streams /\ sLock[on[x]] = x /\ ~ closed[on[x]]
  BY DEF WriterInv, AtFull
<1>1. CASE Persist(w) \/ CopySubs(w) \/ RemoveSub(w) \/ PublishReturns(w) \/ (w = Closer /\ MarkDone)
  BY <1>0, <1>1 DEF Persist, CopySubs, RemoveSub, PublishReturns, MarkDone, chanVars
<1>2. ASSUME NEW s \in Streams, Send(w, s) \/ SendBlocks(w, s)
      PROVE /\ pc'[x] = pc[x] /\ sent'[x] = sent[x] /\ todo'[x] = todo[x] /\ on'[x] = on[x]
            /\ pc[x] = "blocked" => sLock'[on[x]] = x /\ ~ closed'[on[x]]
  BY <1>0, <1>2, StreamConstants DEF Send, SendBlocks
<1>3. CASE SendSpace(w) \/ SendTimeout(w)
  <2>1. on[w] \in Streams /\ sLock[on[w]] = w
    BY <1>3 DEF SendSpace, SendTimeout, WriterInv, AtFull
  <2>2. pc[x] = "blocked" => on[x] # on[w]
    BY <1>0, <2>1
  <2>3. QED
    BY <1>0, <1>3, <2>1, <2>2 DEF SendSpace, SendTimeout
<1>4. CASE CloseSlow(w)
  <2>1. on[w] \in Streams /\ CloseSub(on[w])
    BY <1>4 DEF CloseSlow, WriterInv, AtFull
  <2>2. pc[x] = "blocked" => ~ closed'[on[x]]
    BY <2>1, CloseSpares
  <2>3. QED
    BY <1>0, <1>4, <2>1, <2>2 DEF CloseSlow
<1>5. QED
  BY <1>1, <1>2, <1>3, <1>4 DEF Publishing

\* The writer that moves keeps its own book.
LEMMA WriterKeeps ==
  ASSUME TypeInv, TypeInv', WriterInv, NEW w \in Writers,
         Publishing(w) \/ Persist(w) \/ (w = Closer /\ MarkDone)
  PROVE  /\ sent'[w] <= Count[w]
         /\ pc'[w] \in {"persist", "copy"} \cup Sending => sent'[w] < Count[w]
         /\ pc'[w] \notin Sending => todo'[w] = {}
         /\ pc'[w] \in AtFull => on'[w] \in todo'[w]
         /\ pc'[w] = "blocked" => sLock'[on'[w]] = w /\ ~ closed'[on'[w]]
<1> USE DEF TypeInv, WriterInv, Sending, AtFull
<1>0. Count[w] \in Nat /\ sent[w] \in Nat
  BY StreamConstants
<1>1. CASE Persist(w)
  BY <1>1 DEF Persist
<1>2. CASE CopySubs(w)
  BY <1>2 DEF CopySubs
<1>3. ASSUME NEW s \in Streams, Send(w, s) \/ SendBlocks(w, s)
      PROVE /\ sent'[w] <= Count[w]
            /\ pc'[w] \in {"persist", "copy"} \cup Sending => sent'[w] < Count[w]
            /\ pc'[w] \notin Sending => todo'[w] = {}
            /\ pc'[w] \in AtFull => on'[w] \in todo'[w]
            /\ pc'[w] = "blocked" => sLock'[on'[w]] = w /\ ~ closed'[on'[w]]
  <2>1. CASE Send(w, s)
    BY <1>3, <2>1 DEF Send
  <2>2. CASE SendBlocks(w, s)
    BY <1>3, <2>2 DEF SendBlocks
  <2>3. QED
    BY <1>3, <2>1, <2>2
<1>4. CASE SendSpace(w)
  BY <1>4 DEF SendSpace
<1>5. CASE SendTimeout(w)
  BY <1>5 DEF SendTimeout
<1>6. CASE RemoveSub(w)
  BY <1>6 DEF RemoveSub, chanVars
<1>7. CASE CloseSlow(w)
  BY <1>7 DEF CloseSlow
<1>8. CASE PublishReturns(w)
  <2>1. sent'[w] = sent[w] + 1 /\ sent[w] < Count[w] /\ todo'[w] = {}
    BY <1>8 DEF PublishReturns
  <2>2. /\ sent'[w] < Count[w] => pc'[w] = "persist"
        /\ ~ (sent'[w] < Count[w]) => pc'[w] \in {"mark", "exit"}
    BY <1>8 DEF PublishReturns
  <2>3. QED
    BY <1>0, <2>1, <2>2
<1>9. CASE w = Closer /\ MarkDone
  BY <1>9 DEF MarkDone, chanVars
<1>10. QED
  BY <1>1, <1>2, <1>3, <1>4, <1>5, <1>6, <1>7, <1>8, <1>9 DEF Publishing

LEMMA WriterStep == TypeInv /\ WriterInv /\ [Next]_vars => WriterInv'
<1> SUFFICES ASSUME TypeInv, WriterInv, [Next]_vars PROVE WriterInv'
  OBVIOUS
<1>1. TypeInv'
  BY TypeStep
<1>2. ASSUME NEW w \in Writers, Publishing(w) \/ Persist(w) \/ (w = Closer /\ MarkDone)
      PROVE  WriterInv'
  BY <1>1, <1>2, WriterMoves, WriterKeeps DEF WriterInv
<1>3. ASSUME NEW s \in Streams, CloseSub(s), UNCHANGED <<writerVars, sLock>>
      PROVE  WriterInv'
  BY <1>3, CloseSpares DEF WriterInv, writerVars
<1>4. CASE UNCHANGED <<writerVars, sLock, closed>>
  BY <1>4 DEF WriterInv, writerVars
<1>5. QED
  <2>1. CASE Register \/ MarkDone \/ Cleaner
    BY <1>2, <1>3, <1>4, <2>1, StreamConstants
       DEF Register, Cleaner, CleanStart, CleanEnd, CleanClose, chanVars
  <2>2. ASSUME NEW s \in Streams, Subscribe(s) \/ Handler(s) \/ Disconnect(s) PROVE WriterInv'
    BY <1>3, <1>4, <2>2 DEF Subscribe, Handler, ReadRows, WriteSnapshot, Receive, StreamEnds,
       Unsubscribe, CloseOwn, Disconnect, chanVars
  <2>3. CASE UNCHANGED vars
    BY <1>4, <2>3 DEF vars, chanVars
  <2>4. QED
    BY <1>2, <2>1, <2>2, <2>3 DEF Next

LEMMA Basics == Spec => [](TypeInv /\ WriterInv)
BY TypeInit, WriterInit, TypeStep, WriterStep, PTL DEF Spec

\* Every reachable state of the fan-out is well formed; a channel never holds
\* more than its capacity, however many writers send at once.
THEOREM TypeCorrect == Spec => []TypeOK
BY Basics, TypeOfInv, PTL

\* The mutex of a subscriber keeps its channel open for as long as a writer
\* waits in send: no unsubscribe, removal of a slow subscriber or cleaner
\* closes it under the writer.
THEOREM SendFindsItOpen == Spec => []NoSendOnClosed
<1>1. WriterInv => NoSendOnClosed
  BY DEF WriterInv, NoSendOnClosed
<1>2. QED
  BY <1>1, Basics, PTL

-----------------------------------------------------------------------------
(***************************************************************************)
(* Rows, and the entry of the registry.                                    *)
(***************************************************************************)

LEMMA RowsInit == Init => RowsInv
BY StreamConstants DEF Init, RowsInv, Tried, Sending

LEMMA NotAWriterStep ==
  ASSUME Register \/ Cleaner
         \/ \E s \in Streams : Subscribe(s) \/ Handler(s) \/ Disconnect(s)
  PROVE  UNCHANGED <<rows, unsaved, pc, sent, todo, on>>
BY DEF Register, Cleaner, CleanStart, CleanEnd, CleanClose, Subscribe, Handler, ReadRows,
       WriteSnapshot, Receive, StreamEnds, Unsubscribe, CloseOwn, Disconnect, writerVars

\* A publish under way: either it returns, or the count stays.
LEMMA PublishMoves ==
  ASSUME TypeInv, NEW w \in Writers, Publishing(w) \/ (w = Closer /\ MarkDone)
  PROVE  /\ Tried' = Tried /\ pc[w] # "exit"
         /\ \/ PublishReturns(w)
            \/ /\ sent'[w] = sent[w]
               /\ pc[w] \in {"copy", "mark"} \cup Sending
               /\ pc'[w] \in {"exit"} \cup Sending
               /\ pc[w] = "mark" <=> pc'[w] = "exit"
BY DEF TypeInv, Publishing, CopySubs, Send, SendBlocks, SendSpace, SendTimeout, RemoveSub,
       CloseSlow, PublishReturns, MarkDone, Sending, Tried

LEMMA RowsStep == TypeInv /\ WriterInv /\ RowsInv /\ [Next]_vars => RowsInv'
<1> SUFFICES ASSUME TypeInv, WriterInv, RowsInv, [Next]_vars PROVE RowsInv'
  OBVIOUS
<1>1. ASSUME NEW w \in Writers, Persist(w) PROVE RowsInv'
  <2>1. /\ Tried' = Tried \cup {NextEv(w)} /\ pc[w] = "persist"
        /\ pc' = [pc EXCEPT ![w] = "copy"] /\ sent' = sent
        /\ NextEv(w) = DoneEv => MayClose
    BY <1>1 DEF Persist, Tried
  <2>2. \A x \in Writers : \A n \in 1..sent'[x] : Ev(x, n) \in Tried'
    BY <2>1 DEF RowsInv
  <2>3. ASSUME NEW x \in Writers, pc'[x] \in {"copy"} \cup Sending PROVE NextEv(x)' \in Tried'
    <3>1. NextEv(x)' = NextEv(x)
      BY <2>1 DEF NextEv
    <3>2. CASE x = w
      BY <2>1, <3>1, <3>2
    <3>3. CASE x # w
      BY <2>1, <2>3, <3>1, <3>3 DEF RowsInv, TypeInv
    <3>4. QED
      BY <3>2, <3>3
  <2>4. ASSUME DoneEv \in Tried' PROVE MayClose'
    <3>1. MayClose
      BY <2>1, <2>4 DEF RowsInv
    <3>2. w \in Outsiders \cup {Closer}
      BY <2>1, <3>1 DEF MayClose
    <3>3. QED
      BY <2>1, <3>1, <3>2 DEF MayClose, TypeInv
  <2>5. QED
    BY <2>2, <2>3, <2>4 DEF RowsInv, DoneEv
<1>2. ASSUME NEW w \in Writers, Publishing(w) \/ (w = Closer /\ MarkDone) PROVE RowsInv'
  <2>1. /\ Tried' = Tried /\ pc[w] # "exit"
        /\ \A x \in Writers \ {w} : pc'[x] = pc[x] /\ sent'[x] = sent[x]
    BY <1>2, PublishMoves, WriterMoves
  <2>2. ASSUME NEW x \in Writers, NEW n \in 1..sent'[x] PROVE Ev(x, n) \in Tried'
    <3>1. CASE sent'[x] = sent[x]
      BY <2>1, <2>2, <3>1 DEF RowsInv
    <3>2. CASE x = w /\ PublishReturns(w)
      <4>1. sent'[w] = sent[w] + 1 /\ pc[w] = "send" /\ sent[w] \in Nat
        BY <3>2 DEF PublishReturns, TypeInv
      <4>2. NextEv(w) \in Tried
        BY <4>1 DEF RowsInv, Sending
      <4>3. n \in 1..sent[w] \/ n = sent[w] + 1
        BY <2>2, <3>2, <4>1
      <4>4. QED
        BY <2>1, <3>2, <4>2, <4>3 DEF RowsInv, NextEv
    <3>3. QED
      BY <1>2, <2>1, <3>1, <3>2, PublishMoves
  <2>3. ASSUME NEW x \in Writers, pc'[x] \in {"copy"} \cup Sending PROVE NextEv(x)' \in Tried'
    <3>1. sent'[x] = sent[x] /\ pc[x] \in {"copy"} \cup Sending
      <4>1. CASE x # w
        BY <2>1, <2>3, <4>1
      <4>2. CASE x = w
        <5>1. ~ PublishReturns(w)
          BY <2>3, <4>2 DEF PublishReturns, Sending, TypeInv
        <5>2. QED
          BY <1>2, <2>3, <4>2, <5>1, PublishMoves DEF Sending
      <4>3. QED
        BY <4>1, <4>2
    <3>2. QED
      BY <2>1, <3>1 DEF RowsInv, NextEv
  <2>4. DoneEv \in Tried' => MayClose'
    BY <2>1 DEF RowsInv, MayClose
  <2>5. QED
    BY <2>2, <2>3, <2>4 DEF RowsInv, DoneEv
<1>3. CASE UNCHANGED <<rows, unsaved, pc, sent>>
  BY <1>3 DEF RowsInv, Tried, MayClose, NextEv
<1>4. QED
  BY <1>1, <1>2, <1>3, NotAWriterStep, StreamConstants DEF Next, vars, writerVars

LEMMA EntryInit == Init => EntryInv
<1> SUFFICES ASSUME Init PROVE EntryInv
  OBVIOUS
<1>1. <<>> \o <<>> = <<>>
  OBVIOUS
<1>2. QED
  BY <1>1 DEF Init, EntryInv, Carried

\* What a writer still has to send to was subscribed when it copied.
LEMMA TodoGrows ==
  ASSUME TypeInv, WriterInv, [Next]_vars, NEW w \in Writers
  PROVE  todo'[w] \subseteq todo[w] \cup subs
<1>1. ASSUME NEW x \in Writers, Persist(x) \/ Publishing(x) PROVE todo'[w] \subseteq todo[w] \cup subs
  BY <1>1 DEF TypeInv, Persist, Publishing, CopySubs, Send, SendBlocks, SendSpace, SendTimeout,
              RemoveSub, CloseSlow, PublishReturns
<1>2. QED
  BY <1>1, NotAWriterStep DEF Next, MarkDone, vars, writerVars

\* Subscribers come by Subscribe only.
LEMMA SubsGrow ==
  ASSUME [Next]_vars, NEW s \in Streams, s \in subs', s \notin subs
  PROVE  Subscribe(s)
BY DEF Next, Register, MarkDone, Cleaner, CleanStart, CleanEnd, CleanClose, Persist, Publishing,
       CopySubs, Send, SendBlocks, SendSpace, SendTimeout, RemoveSub, CloseSlow, PublishReturns,
       Subscribe, Handler, ReadRows, WriteSnapshot, Receive, StreamEnds, Unsubscribe, CloseOwn,
       Disconnect, vars, entryVars

\* No step goes back to the start of a handler.
LEMMA StartIsOver ==
  ASSUME TypeInv, [Next]_vars, NEW s \in Streams, hpc'[s] = "start"
  PROVE  hpc[s] = "start" /\ ~ Subscribe(s) /\ unread'[s] = unread[s]
<1>1. ASSUME NEW x \in Streams, Subscribe(x) \/ Handler(x) \/ Disconnect(x)
      PROVE  hpc[s] = "start" /\ ~ Subscribe(s) /\ unread'[s] = unread[s]
  BY <1>1 DEF TypeInv, Subscribe, Handler, ReadRows, SnapshotStep, WriteSnapshot, Receive,
              StreamEnds, Unsubscribe, CloseOwn, Disconnect
<1>2. CASE UNCHANGED <<hpc, unread>>
  BY <1>2 DEF TypeInv, Subscribe
<1>3. QED
  BY <1>1, <1>2
     DEF Next, Register, MarkDone, Cleaner, CleanStart, CleanEnd, CleanClose, Persist, Publishing,
         CopySubs, Send, SendBlocks, SendSpace, SendTimeout, RemoveSub, CloseSlow, PublishReturns,
         vars, handlerVars

LEMMA EntryStep == TypeInv /\ WriterInv /\ EntryInv /\ [Next]_vars => (subs' # {} => held')
<1> SUFFICES ASSUME EntryInv, [Next]_vars, subs' # {} PROVE held'
  OBVIOUS
<1>1. CASE \E s \in Streams : Subscribe(s)
  BY <1>1 DEF Subscribe
<1>2. CASE ~ \E s \in Streams : Subscribe(s)
  BY <1>2 DEF EntryInv, Next, Register, MarkDone, Cleaner, CleanStart, CleanEnd, CleanClose,
       Persist, Publishing, CopySubs, Send, SendBlocks, SendSpace, SendTimeout, RemoveSub,
       CloseSlow, PublishReturns, Subscribe, Handler, ReadRows, WriteSnapshot, Receive,
       StreamEnds, Unsubscribe, CloseOwn, Disconnect, vars, entryVars
<1>3. QED
  BY <1>1, <1>2

-----------------------------------------------------------------------------
(***************************************************************************)
(* What a step does to a stream.                                           *)
(***************************************************************************)

\* The event of w goes into the channel of s, by Send or by SendSpace.
Sends(w, s) ==
  /\ pc[w] \in Sending /\ s \in todo[w] /\ ~ closed[s]
  /\ Deliver(w, s)
  /\ pc'[w] = "send" /\ todo'[w] = todo[w] \ {s}
  /\ \A x \in Writers \ {w} : pc'[x] = pc[x] /\ todo'[x] = todo[x]
  /\ UNCHANGED <<rows, unsaved, sent, closed, entryVars, handlerVars>>

LEMMA SendSends ==
  ASSUME TypeInv, WriterInv, NEW w \in Writers, NEW s \in Streams,
         \/ Send(w, s) /\ ~ closed[s]
         \/ SendSpace(w) /\ on[w] = s
  PROVE  Sends(w, s)
<1>1. CASE Send(w, s) /\ ~ closed[s]
  BY <1>1 DEF Send, Sends, Sending, TypeInv
<1>2. CASE SendSpace(w) /\ on[w] = s
  <2>1. s \in todo[w] /\ ~ closed[s]
    BY <1>2 DEF SendSpace, WriterInv, AtFull
  <2>2. QED
    BY <1>2, <2>1 DEF SendSpace, Sends, Sending, TypeInv
<1>3. QED
  BY <1>1, <1>2

LEMMA ReachedMoves ==
  ASSUME TypeInv, WriterInv, EntryInv, NEW w \in Writers, NEW s \in Streams, ~ Sends(w, s),
         Publishing(w) \/ Persist(w) \/ (w = Closer /\ MarkDone)
  PROVE  \/ Reached(w, s)' = Reached(w, s)
         \/ /\ Reached(w, s)' = Reached(w, s) + 1
            /\ closed'[s] \/ (s \notin subs' /\ s \notin todo'[w])
<1> USE DEF Reached, Sending, TypeInv
<1>1. CASE Persist(w)
  BY <1>1 DEF Persist
<1>2. CASE CopySubs(w)
  <2>1. /\ todo'[w] = (IF held THEN subs ELSE {}) /\ subs' = subs /\ sent' = sent
        /\ pc[w] = "copy" /\ pc'[w] = "send"
    BY <1>2 DEF CopySubs, entryVars
  <2>2. s \notin todo'[w] => s \notin subs'
    BY <2>1 DEF EntryInv
  <2>3. QED
    BY <2>1, <2>2
<1>3. ASSUME NEW y \in Streams, Send(w, y) \/ SendBlocks(w, y)
      PROVE \/ Reached(w, s)' = Reached(w, s)
            \/ /\ Reached(w, s)' = Reached(w, s) + 1
               /\ closed'[s] \/ (s \notin subs' /\ s \notin todo'[w])
  <2>1. CASE Send(w, y) /\ y # s
    BY <2>1 DEF Send
  <2>2. CASE Send(w, y) /\ y = s
    <3>1. closed[s]
      BY <2>2, SendSends
    <3>2. QED
      BY <2>2, <3>1 DEF Send
  <2>3. CASE SendBlocks(w, y)
    BY <2>3 DEF SendBlocks
  <2>4. QED
    BY <1>3, <2>1, <2>2, <2>3
<1>4. CASE SendSpace(w)
  <2>1. on[w] # s
    BY <1>4, SendSends
  <2>2. QED
    BY <1>4, <2>1 DEF SendSpace
<1>5. CASE SendTimeout(w)
  BY <1>5 DEF SendTimeout
<1>6. CASE RemoveSub(w)
  BY <1>6 DEF RemoveSub
<1>7. CASE CloseSlow(w)
  BY <1>7 DEF CloseSlow, CloseSub
<1>8. CASE PublishReturns(w)
  BY <1>8 DEF PublishReturns
<1>9. CASE w = Closer /\ MarkDone
  BY <1>9 DEF MarkDone
<1>10. QED
  BY <1>1, <1>2, <1>3, <1>4, <1>5, <1>6, <1>7, <1>8, <1>9 DEF Publishing

\* A writer gets past a stream by sending to it; without, only when the stream
\* is not subscribed or closed.
LEMMA ReachedStep ==
  ASSUME TypeInv, WriterInv, EntryInv, [Next]_vars, NEW w \in Writers, NEW s \in Streams,
         ~ Sends(w, s)
  PROVE  \/ Reached(w, s)' = Reached(w, s)
         \/ /\ Reached(w, s)' = Reached(w, s) + 1
            /\ closed'[s] \/ (s \notin subs' /\ s \notin todo'[w])
<1>1. CASE Publishing(w) \/ Persist(w) \/ (w = Closer /\ MarkDone)
  BY <1>1, ReachedMoves
<1>2. CASE pc'[w] = pc[w] /\ sent'[w] = sent[w] /\ todo'[w] = todo[w]
  BY <1>2 DEF Reached
<1>3. ASSUME NEW x \in Writers \ {w}, Publishing(x) \/ Persist(x) \/ (x = Closer /\ MarkDone)
      PROVE pc'[w] = pc[w] /\ sent'[w] = sent[w] /\ todo'[w] = todo[w]
  BY <1>3, WriterMoves
<1>4. QED
  BY <1>1, <1>2, <1>3, NotAWriterStep, StreamConstants DEF Next, vars, writerVars

\* A stream carries one event more by a send, nothing when its handler returns,
\* and the same after every other step.
LEMMA CarriedStep ==
  ASSUME TypeInv, WriterInv, [Next]_vars, NEW s \in Streams
  PROVE  \/ \E w \in Writers : Sends(w, s) /\ Carried(s)' = Append(Carried(s), NextEv(w))
         \/ /\ \A w \in Writers : ~ Sends(w, s)
            /\ \/ Carried(s)' = Carried(s)
               \/ Carried(s)' = <<>> /\ hpc'[s] = "ended" /\ closed'[s]
<1>1. got[s] \in Seq(Events) /\ chan[s] \in Seq(Events)
  BY DEF TypeInv
<1>2. ASSUME NEW w \in Writers, Sends(w, s)
      PROVE  Carried(s)' = Append(Carried(s), NextEv(w))
  <2>1. got'[s] = got[s] /\ chan'[s] = Append(chan[s], NextEv(w))
    BY <1>2 DEF Sends, Deliver, handlerVars, TypeInv
  <2>2. NextEv(w) \in Events
    BY <1>2, NextIsEvent DEF Sends
  <2>3. QED
    BY <1>1, <2>1, <2>2, CarriedAppend DEF Carried
<1>3. ASSUME NEW w \in Writers, Publishing(w) \/ Persist(w), \A v \in Writers : ~ Sends(v, s)
      PROVE  chan'[s] = chan[s] /\ got'[s] = got[s]
  <2>1. ASSUME NEW y \in Streams, Send(w, y) PROVE chan'[s] = chan[s] /\ got'[s] = got[s]
    <3>1. y = s => closed[y]
      BY <1>3, <2>1, SendSends
    <3>2. QED
      BY <2>1, <3>1 DEF Send, Deliver, handlerVars, TypeInv
  <2>2. CASE SendSpace(w)
    <3>1. on[w] # s
      BY <1>3, <2>2, SendSends
    <3>2. QED
      BY <2>2, <3>1 DEF SendSpace, Deliver, handlerVars, TypeInv
  <2>3. CASE ~ SendSpace(w) /\ ~ \E y \in Streams : Send(w, y)
    BY <1>3, <2>3 DEF Persist, Publishing, CopySubs, SendBlocks, SendTimeout, RemoveSub,
       CloseSlow, PublishReturns, chanVars, handlerVars
  <2>4. QED
    BY <2>1, <2>2, <2>3
<1>4. ASSUME NEW y \in Streams, Subscribe(y) \/ Handler(y) \/ Disconnect(y)
      PROVE  \/ chan'[s] = chan[s] /\ got'[s] = got[s]
             \/ Receive(s) \/ CloseOwn(s)
  BY <1>4 DEF Subscribe, Handler, ReadRows, WriteSnapshot, Receive, StreamEnds, Unsubscribe,
              CloseOwn, Disconnect, chanVars, TypeInv
<1>5. Receive(s) => Carried(s)' = Carried(s)
  BY <1>1, CarriedShift DEF Receive, Carried, TypeInv
<1>6. ASSUME CloseOwn(s) PROVE Carried(s)' = <<>> /\ hpc'[s] = "ended" /\ closed'[s]
  <2>1. Carried(s)' = <<>> \o <<>>
    BY <1>6 DEF CloseOwn, Carried, TypeInv
  <2>2. QED
    BY <1>6, <2>1 DEF CloseOwn, CloseSub, TypeInv
<1>7. chan'[s] = chan[s] /\ got'[s] = got[s] => Carried(s)' = Carried(s)
  BY DEF Carried
<1>8. Register \/ MarkDone \/ Cleaner \/ UNCHANGED vars => Carried(s)' = Carried(s)
  BY <1>7 DEF Register, MarkDone, Cleaner, CleanStart, CleanEnd, CleanClose, vars,
       chanVars, handlerVars
<1>9. CASE \E w \in Writers : Sends(w, s)
  BY <1>2, <1>9
<1>10. CASE \A w \in Writers : ~ Sends(w, s)
  BY <1>3, <1>4, <1>5, <1>6, <1>7, <1>8, <1>10 DEF Next
<1>11. QED
  BY <1>9, <1>10

\* Rows are only added and a channel is closed for good.
LEMMA OnlyGrows ==
  ASSUME TypeInv, [Next]_vars
  PROVE  /\ rows \subseteq rows' /\ unsaved \subseteq unsaved' /\ Tried \subseteq Tried'
         /\ \A s \in Streams : closed[s] => closed'[s]
BY DEF TypeInv, Next, Register, MarkDone, Cleaner, CleanStart, CleanEnd, CleanClose, CloseSub,
       Persist, Publishing, CopySubs, Send, SendBlocks, SendSpace, SendTimeout, RemoveSub,
       CloseSlow, PublishReturns, Subscribe, Handler, ReadRows, WriteSnapshot, Receive,
       StreamEnds, Unsubscribe, CloseOwn, Disconnect, vars, writerVars, chanVars, Tried

\* A send carries the event after the last that w has reached.
LEMMA SendReaches ==
  ASSUME TypeInv, WriterInv, NEW w \in Writers, NEW s \in Streams, Sends(w, s)
  PROVE  /\ Reached(w, s) = sent[w] /\ Reached(w, s)' = sent[w] + 1
         /\ sent[w] \in Nat /\ sent[w] < Count[w]
         /\ NextEv(w) \in Events /\ NextEv(w).by = w /\ NextEv(w).n = sent[w] + 1
         /\ \A x \in Writers \ {w} : Reached(x, s)' = Reached(x, s)
<1>1. NextEv(w) \in Events
  BY NextIsEvent DEF Sends
<1>2. QED
  BY <1>1 DEF Sends, Reached, Sending, TypeInv, WriterInv, NextEv, Ev

LEMMA ReachedIsNat ==
  ASSUME TypeInv, NEW w \in Writers, NEW s \in Streams
  PROVE  Reached(w, s) \in Nat
BY DEF TypeInv, Reached

\* The stream after a send.
LEMMA SendAppends ==
  ASSUME TypeInv, WriterInv, NEW w \in Writers, NEW s \in Streams, Sends(w, s),
         Carried(s)' = Append(Carried(s), NextEv(w))
  PROVE  /\ Len(Carried(s)) \in Nat /\ Len(Carried(s)') = Len(Carried(s)) + 1
         /\ \A i \in 1..Len(Carried(s)) : Carried(s)'[i] = Carried(s)[i]
         /\ Carried(s)'[Len(Carried(s)) + 1] = NextEv(w)
BY CarriedIsSeq, SendReaches, AppendProperties

LEMMA OrderStep ==
  ASSUME TypeInv, WriterInv, RowsInv, EntryInv, NEW s \in Streams, OrderInv(s), [Next]_vars
  PROVE  OrderInv(s)'
<1>c. PICK c : c = Carried(s)
  OBVIOUS
<1>d. PICK d : d = Carried(s)'
  OBVIOUS
<1>0. /\ Len(c) \in Nat /\ \A i \in 1..Len(c) : c[i] \in Events
      /\ Tried \subseteq Tried' /\ (closed[s] => closed'[s])
      /\ \A i \in 1..Len(c) : /\ c[i] \in Tried /\ c[i].by \in Writers /\ c[i].n \in Nat
                              /\ c[i].n <= Reached(c[i].by, s)
                              /\ Reached(c[i].by, s) \in Nat
  <2>1. \A i \in 1..Len(c) : c[i].by \in Writers /\ c[i].n \in Nat
    BY <1>c, CarriedIsSeq, EventFields, StreamConstants
  <2>2. QED
    BY <1>c, <2>1, CarriedIsSeq, OnlyGrows, ReachedIsNat DEF OrderInv
<1>1. ASSUME NEW w \in Writers, Sends(w, s), d = Append(c, NextEv(w))
      PROVE  OrderInv(s)'
  <2>1. /\ Len(d) = Len(c) + 1 /\ d[Len(c) + 1] = NextEv(w)
        /\ \A i \in 1..Len(c) : d[i] = c[i]
    BY <1>c, <1>d, <1>1, SendAppends
  <2>2. /\ subs' = subs /\ closed' = closed
        /\ \A x \in Writers \ {w} : todo'[x] = todo[x] /\ Reached(x, s)' = Reached(x, s)
    BY <1>1, SendReaches DEF Sends, entryVars
  <2>3. /\ NextEv(w) \in Tried' /\ NextEv(w).by = w
        /\ NextEv(w).n = Reached(w, s)' /\ Reached(w, s)' \in Nat
        /\ Reached(w, s) <= Reached(w, s)'
    BY <1>0, <1>1, SendReaches DEF Sends, RowsInv
  <2>4. ASSUME NEW i \in 1..Len(d)
        PROVE  /\ d[i] \in Tried'
               /\ d[i].n <= Reached(d[i].by, s)'
               /\ /\ \A k \in (i + 1)..Len(d) : d[k].by # d[i].by
                  /\ ~ closed'[s] /\ (s \in subs' \/ s \in todo'[d[i].by])
                  => d[i].n = Reached(d[i].by, s)'
    <3>1. CASE i = Len(c) + 1
      <4>1. d[i] = NextEv(w)
        BY <2>1, <3>1
      <4>2. QED
        BY <2>3, <4>1
    <3>2. CASE i # Len(c) + 1
      <4>1. i \in 1..Len(c) /\ d[i] = c[i] /\ Len(c) + 1 \in (i + 1)..Len(d)
        BY <1>0, <2>1, <2>4, <3>2
      <4>2. CASE c[i].by = w
        BY <1>0, <2>1, <2>3, <4>1, <4>2
      <4>3. CASE c[i].by # w
        <5>1. /\ c[i].by \in Writers \ {w} /\ Reached(c[i].by, s)' = Reached(c[i].by, s)
              /\ todo'[c[i].by] = todo[c[i].by]
          BY <1>0, <2>2, <4>1, <4>3
        <5>2. (\A k \in (i + 1)..Len(d) : d[k].by # c[i].by) =>
                \A k \in (i + 1)..Len(c) : c[k].by # c[i].by
          BY <1>0, <2>1, <4>1
        <5>3. QED
          BY <1>0, <1>c, <2>2, <4>1, <5>1, <5>2 DEF OrderInv
      <4>4. QED
        BY <4>2, <4>3
    <3>3. QED
      BY <3>1, <3>2
  <2>5. QED
    BY <1>d, <2>4 DEF OrderInv
<1>2. ASSUME \A w \in Writers : ~ Sends(w, s), d = c
      PROVE  OrderInv(s)'
  <2>1. ASSUME NEW i \in 1..Len(c)
        PROVE  /\ c[i] \in Tried'
               /\ c[i].n <= Reached(c[i].by, s)'
               /\ /\ \A k \in (i + 1)..Len(c) : c[k].by # c[i].by
                  /\ ~ closed'[s] /\ (s \in subs' \/ s \in todo'[c[i].by])
                  => c[i].n = Reached(c[i].by, s)'
    <3>1. \/ Reached(c[i].by, s)' = Reached(c[i].by, s)
          \/ /\ Reached(c[i].by, s)' = Reached(c[i].by, s) + 1
             /\ closed'[s] \/ (s \notin subs' /\ s \notin todo'[c[i].by])
      BY <1>0, <1>2, ReachedStep
    <3>2. s \in subs' \/ s \in todo'[c[i].by] => s \in subs \/ s \in todo[c[i].by]
      <4>1. hpc[s] # "start"
        BY <1>0, <1>c DEF EntryInv
      <4>2. s \in subs' => s \in subs
        BY <4>1, SubsGrow DEF Subscribe
      <4>3. QED
        BY <1>0, <4>2, TodoGrows
    <3>3. QED
      BY <1>0, <1>c, <3>1, <3>2 DEF OrderInv
  <2>2. QED
    BY <1>d, <1>2, <2>1 DEF OrderInv
<1>3. ASSUME d = <<>> PROVE OrderInv(s)'
  BY <1>d, <1>3 DEF OrderInv
<1>4. QED
  BY <1>c, <1>d, <1>1, <1>2, <1>3, CarriedStep

\* A handler that has not subscribed is sent nothing.
LEMMA StartStep ==
  ASSUME TypeInv, WriterInv, EntryInv, [Next]_vars, NEW s \in Streams, hpc'[s] = "start"
  PROVE  /\ s \notin subs' /\ \A w \in Writers : s \notin todo'[w]
         /\ unread'[s] = Writers
         /\ Carried(s)' = <<>>
<1>1. hpc[s] = "start" /\ ~ Subscribe(s) /\ unread'[s] = unread[s]
  BY StartIsOver
<1>2. /\ s \notin subs /\ unread[s] = Writers /\ Carried(s) = <<>>
      /\ \A w \in Writers : s \notin todo[w]
  BY <1>1 DEF EntryInv
<1>3. s \notin subs'
  BY <1>1, <1>2, SubsGrow
<1>4. \A w \in Writers : s \notin todo'[w]
  BY <1>2, TodoGrows
<1>5. Carried(s)' = <<>>
  BY <1>2, CarriedStep DEF Sends
<1>6. QED
  BY <1>1, <1>2, <1>3, <1>4, <1>5

LEMMA EntryInvStep == TypeInv /\ WriterInv /\ EntryInv /\ [Next]_vars => EntryInv'
BY EntryStep, StartStep DEF EntryInv

-----------------------------------------------------------------------------
(***************************************************************************)
(* Order on the stream.                                                    *)
(***************************************************************************)

LEMMA GapsStep ==
  ASSUME TypeInv, WriterInv, NEW s \in Streams, OrderInv(s), NoGaps, [Next]_vars,
         NEW i \in 1..Len(Carried(s)'), NEW j \in 1..Len(Carried(s)'), i < j,
         Carried(s)'[i].by = Carried(s)'[j].by,
         \A k \in (i + 1)..(j - 1) : Carried(s)'[k].by # Carried(s)'[i].by
  PROVE  Carried(s)'[j].n = Carried(s)'[i].n + 1
<1>c. PICK c : c = Carried(s)
  OBVIOUS
<1>d. PICK d : d = Carried(s)'
  OBVIOUS
<1>1. ASSUME NEW w \in Writers, Sends(w, s), d = Append(c, NextEv(w))
      PROVE  d[j].n = d[i].n + 1
  <2>1. /\ Len(d) = Len(c) + 1 /\ d[Len(c) + 1] = NextEv(w) /\ Len(c) \in Nat
        /\ \A x \in 1..Len(c) : d[x] = c[x]
    BY <1>c, <1>d, <1>1, SendAppends
  <2>2. i \in 1..Len(c) /\ d[i] = c[i]
    BY <1>d, <2>1
  <2>3. CASE j = Len(c) + 1
    <3>1. \A k \in (i + 1)..Len(c) : c[k].by # c[i].by
      BY <1>d, <2>1, <2>2, <2>3
    <3>2. c[i].by = w /\ d[j].n = sent[w] + 1 /\ Reached(w, s) = sent[w]
      BY <1>d, <1>1, <2>1, <2>2, <2>3, SendReaches
    <3>3. ~ closed[s] /\ s \in todo[w]
      BY <1>1 DEF Sends
    <3>4. c[i].n = Reached(w, s)
      BY <1>c, <2>2, <3>1, <3>2, <3>3 DEF OrderInv
    <3>5. QED
      BY <2>2, <3>2, <3>4
  <2>4. CASE j # Len(c) + 1
    <3>1. j \in 1..Len(c) /\ d[j] = c[j]
      BY <1>d, <2>1, <2>4
    <3>2. c[i].by = c[j].by /\ \A k \in (i + 1)..(j - 1) : c[k].by # c[i].by
      BY <1>d, <2>1, <2>2, <3>1
    <3>3. QED
      BY <1>c, <2>2, <3>1, <3>2 DEF NoGaps
  <2>5. QED
    BY <2>3, <2>4
<1>2. ASSUME d = c PROVE d[j].n = d[i].n + 1
  BY <1>c, <1>d, <1>2 DEF NoGaps
<1>3. ASSUME d = <<>> PROVE d[j].n = d[i].n + 1
  BY <1>d, <1>3
<1>4. QED
  BY <1>c, <1>d, <1>1, <1>2, <1>3, CarriedStep

\* Once done is on a stream, the writers of the run have nothing left to send.
LEMMA DoneStep ==
  ASSUME TypeInv, WriterInv, RowsInv, NEW s \in Streams, OrderInv(s), DoneEndsStream, [Next]_vars,
         NEW i \in 1..Len(Carried(s)'), NEW j \in 1..Len(Carried(s)'), i < j,
         Carried(s)'[i] = DoneEv
  PROVE  Carried(s)'[j].by \in Outsiders
<1>c. PICK c : c = Carried(s)
  OBVIOUS
<1>d. PICK d : d = Carried(s)'
  OBVIOUS
<1>1. ASSUME NEW w \in Writers, Sends(w, s), d = Append(c, NextEv(w))
      PROVE  d[j].by \in Outsiders
  <2>1. /\ Len(d) = Len(c) + 1 /\ d[Len(c) + 1] = NextEv(w) /\ Len(c) \in Nat
        /\ \A x \in 1..Len(c) : d[x] = c[x]
    BY <1>c, <1>d, <1>1, SendAppends
  <2>2. i \in 1..Len(c) /\ c[i] = DoneEv
    BY <1>d, <2>1
  <2>3. CASE j = Len(c) + 1
    <3>1. d[j].by = w /\ Reached(w, s) = sent[w] /\ sent[w] < Count[w] /\ sent[w] \in Nat
      BY <1>1, <2>1, <2>3, SendReaches
    <3>2. DoneEv \in Tried /\ DoneEv.n <= Reached(DoneEv.by, s)
      BY <1>c, <2>2 DEF OrderInv
    <3>3. w # Closer
      BY <3>1, <3>2, StreamConstants DEF DoneEv, Ev
    <3>4. MayClose /\ pc[w] # "exit"
      BY <1>1, <3>2 DEF RowsInv, Sends, Sending
    <3>5. QED
      BY <3>1, <3>3, <3>4 DEF MayClose
  <2>4. CASE j # Len(c) + 1
    <3>1. j \in 1..Len(c) /\ d[j] = c[j]
      BY <1>d, <2>1, <2>4
    <3>2. QED
      BY <1>c, <2>2, <3>1 DEF DoneEndsStream
  <2>5. QED
    BY <2>3, <2>4
<1>2. ASSUME d = c PROVE d[j].by \in Outsiders
  BY <1>c, <1>d, <1>2 DEF DoneEndsStream
<1>3. ASSUME d = <<>> PROVE d[j].by \in Outsiders
  BY <1>d, <1>3
<1>4. QED
  BY <1>c, <1>d, <1>1, <1>2, <1>3, CarriedStep

-----------------------------------------------------------------------------
(***************************************************************************)
(* What a client is told.                                                  *)
(***************************************************************************)

\* The handler between Subscribe and its end: the snapshot grows by the rows it
\* reads and is complete before it streams.
LEMMA HandlerView ==
  ASSUME TypeInv, [Next]_vars, NEW s \in Streams, ~ Subscribe(s),
         hpc'[s] \in {"snapshot", "stream"}, ~ blind'[s]
  PROVE  /\ hpc[s] \in {"snapshot", "stream"} /\ ~ blind[s]
         /\ snap[s] \subseteq snap'[s]
         /\ \A w \in unread[s] : w \in unread'[s] \/ {e \in rows : e.by = w} \subseteq snap'[s]
         /\ hpc'[s] = "stream" => \/ hpc[s] = "stream" /\ unread'[s] = unread[s]
                                  \/ unread'[s] = {}
<1> DEFINE P == /\ hpc[s] \in {"snapshot", "stream"} /\ ~ blind[s]
                /\ snap[s] \subseteq snap'[s]
                /\ \A w \in unread[s] : w \in unread'[s] \/ {e \in rows : e.by = w} \subseteq snap'[s]
                /\ hpc'[s] = "stream" => \/ hpc[s] = "stream" /\ unread'[s] = unread[s]
                                         \/ unread'[s] = {}
<1>1. CASE hpc'[s] = hpc[s] /\ unread'[s] = unread[s] /\ snap'[s] = snap[s] /\ blind'[s] = blind[s]
  BY <1>1
<1>2. ASSUME NEW v \in Writers, ReadRows(s, v) PROVE P
  BY <1>2 DEF ReadRows, SnapshotStep, TypeInv
<1>3. CASE WriteSnapshot(s)
  BY <1>3 DEF WriteSnapshot, TypeInv
<1>4. ASSUME NEW y \in Streams, Subscribe(y) \/ Handler(y) \/ Disconnect(y) PROVE P
  <2>1. CASE y # s
    BY <1>1, <1>4, <2>1 DEF TypeInv, Subscribe, Handler, ReadRows, WriteSnapshot, Receive,
       StreamEnds, Unsubscribe, CloseOwn, Disconnect
  <2>2. CASE y = s /\ (Receive(s) \/ StreamEnds(s) \/ Unsubscribe(s) \/ CloseOwn(s) \/ Disconnect(s))
    BY <1>1, <2>2 DEF TypeInv, Receive, StreamEnds, Unsubscribe, CloseOwn, Disconnect
  <2>3. QED
    BY <1>2, <1>3, <1>4, <2>1, <2>2 DEF Handler
<1>5. CASE UNCHANGED handlerVars
  BY <1>1, <1>5 DEF handlerVars
<1>6. QED
  BY <1>4, <1>5
     DEF Next, Register, MarkDone, Cleaner, CleanStart, CleanEnd, CleanClose, Persist, Publishing,
         CopySubs, Send, SendBlocks, SendSpace, SendTimeout, RemoveSub, CloseSlow, PublishReturns,
         vars

LEMMA ToldStep ==
  ASSUME TypeInv, WriterInv, RowsInv, EntryInv, NEW s \in Streams, ToldInv(s), [Next]_vars
  PROVE  ToldInv(s)'
<1>c. PICK c : c = Carried(s)
  OBVIOUS
<1>d. PICK d : d = Carried(s)'
  OBVIOUS
<1>0. Len(c) \in Nat
  BY <1>c, CarriedIsSeq
<1>1. ASSUME Subscribe(s) PROVE ToldInv(s)'
  <2>1. /\ hpc[s] = "start" /\ hpc'[s] = "snapshot" /\ unread' = unread
        /\ UNCHANGED <<rows, unsaved, pc, sent, todo>>
    BY <1>1 DEF Subscribe, TypeInv, writerVars
  <2>2. unread'[s] = Writers
    BY <2>1 DEF EntryInv
  <2>3. ASSUME NEW w \in Writers, NEW n \in 1..Reached(w, s)' PROVE Ev(w, n) \in Tried'
    <3>1. n \in 1..sent[w] \/ (n = sent[w] + 1 /\ pc[w] \in Sending)
      BY <2>1, <2>3 DEF Reached, TypeInv
    <3>2. QED
      BY <2>1, <3>1 DEF RowsInv, Tried, NextEv
  <2>4. \A w \in Writers : \A n \in 1..Reached(w, s)' : ToldOf(s, Ev(w, n))'
    BY <2>2, <2>3 DEF ToldOf, Tried, Ev
  <2>5. QED
    BY <2>1, <2>4 DEF ToldInv
<1>2. ASSUME ~ Subscribe(s), hpc'[s] \in {"snapshot", "stream"}, ~ blind'[s], s \in subs', ~ closed'[s],
             NEW w \in Writers, NEW n \in 1..Reached(w, s)'
      PROVE  ToldOf(s, Ev(w, n))'
  <2>1. /\ hpc[s] \in {"snapshot", "stream"} /\ ~ blind[s]
        /\ snap[s] \subseteq snap'[s]
        /\ \A v \in unread[s] : v \in unread'[s] \/ {e \in rows : e.by = v} \subseteq snap'[s]
    BY <1>2, HandlerView
  <2>2. s \in subs /\ ~ closed[s] /\ rows \subseteq rows' /\ unsaved \subseteq unsaved'
    BY <1>2, SubsGrow, OnlyGrows
  <2>3. \A i \in 1..Len(c) : \E k \in 1..Len(d) : d[k] = c[i]
    <3>1. ASSUME NEW v \in Writers, Sends(v, s), d = Append(c, NextEv(v))
          PROVE  \A i \in 1..Len(c) : \E k \in 1..Len(d) : d[k] = c[i]
      BY <1>0, <1>c, <1>d, <3>1, SendAppends
    <3>2. QED
      BY <1>2, <1>c, <1>d, <3>1, CarriedStep
  <2>4. CASE n \in 1..Reached(w, s)
    <3>1. ToldOf(s, Ev(w, n))
      BY <2>1, <2>2, <2>4 DEF ToldInv
    <3>2. CASE Ev(w, n) \in snap[s]
      BY <2>1, <3>2 DEF ToldOf, Ev
    <3>3. CASE \E i \in 1..Len(c) : c[i] = Ev(w, n)
      BY <1>d, <2>3, <3>3 DEF ToldOf, Ev
    <3>4. CASE Ev(w, n).by \in unread[s] /\ Ev(w, n) \in rows
      BY <2>1, <2>2, <3>4 DEF ToldOf, Ev
    <3>5. CASE Ev(w, n) \in unsaved
      BY <2>2, <3>5 DEF ToldOf
    <3>6. QED
      BY <1>c, <3>1, <3>2, <3>3, <3>4, <3>5 DEF ToldOf
  <2>5. CASE n \notin 1..Reached(w, s)
    <3>1. Sends(w, s) /\ n = Reached(w, s) + 1
      BY <1>2, <2>5, ReachedStep, ReachedIsNat, SendReaches
    <3>2. n = sent[w] + 1 /\ d = Append(c, NextEv(w))
      <4>1. PICK v \in Writers : Sends(v, s) /\ d = Append(c, NextEv(v))
        BY <1>c, <1>d, <3>1, CarriedStep
      <4>2. v = w
        BY <3>1, <4>1, StreamConstants DEF Sends, TypeInv
      <4>3. QED
        BY <3>1, <4>1, <4>2, SendReaches
    <3>3. d[Len(c) + 1] = Ev(w, n) /\ Len(c) + 1 \in 1..Len(d)
      BY <1>0, <1>c, <1>d, <3>1, <3>2, SendAppends DEF NextEv
    <3>4. QED
      BY <1>d, <3>3 DEF ToldOf, Ev
  <2>6. QED
    BY <2>4, <2>5
<1>3. ASSUME ~ Subscribe(s), hpc'[s] = "stream", ~ blind'[s] PROVE unread'[s] = {}
  BY <1>3, HandlerView DEF ToldInv
<1>4. QED
  BY <1>1, <1>2, <1>3 DEF ToldInv

-----------------------------------------------------------------------------
(***************************************************************************)
(* The theorems.                                                           *)
(***************************************************************************)

LEMMA StreamInit == Init => EntryInv /\ StreamInv /\ NoGaps /\ DoneEndsStream
<1> SUFFICES ASSUME Init PROVE EntryInv /\ StreamInv /\ NoGaps /\ DoneEndsStream
  OBVIOUS
<1>1. \A s \in Streams : Carried(s) = <<>> \o <<>>
  BY DEF Init, Carried
<1>2. \A s \in Streams : Carried(s) = <<>> /\ Len(Carried(s)) = 0
  BY <1>1
<1>3. StreamInv
  BY <1>2 DEF Init, StreamInv, OrderInv, ToldInv
<1>4. NoGaps /\ DoneEndsStream
  BY <1>2 DEF NoGaps, DoneEndsStream
<1>5. QED
  BY <1>3, <1>4, EntryInit

LEMMA InvStep == IInv /\ [Next]_vars => IInv'
<1> SUFFICES ASSUME IInv, [Next]_vars PROVE IInv'
  OBVIOUS
<1>1. TypeInv' /\ WriterInv' /\ RowsInv' /\ EntryInv'
  BY TypeStep, WriterStep, RowsStep, EntryInvStep DEF IInv
<1>2. StreamInv'
  BY OrderStep, ToldStep DEF IInv, StreamInv
<1>3. NoGaps'
  BY GapsStep DEF IInv, StreamInv, NoGaps
<1>4. DoneEndsStream'
  BY DoneStep DEF IInv, StreamInv, DoneEndsStream, DoneEv
<1>5. QED
  BY <1>1, <1>2, <1>3, <1>4 DEF IInv

LEMMA Invariant == Spec => []IInv
<1>1. Init => IInv
  BY TypeInit, WriterInit, RowsInit, StreamInit DEF IInv
<1>2. QED
  BY <1>1, InvStep, PTL DEF Spec

\* Subscribe, snapshot, stream: a client that is still subscribed is told of
\* every event whose Publish has returned and whose statement did not fail, for any number of writers and
\* clients, however they interleave and however small the channel is.
THEOREM ClientsMissNothing == Spec => []NothingMissed
<1>1. IInv => NothingMissed
  <2> SUFFICES ASSUME IInv, NEW s \in Streams,
                      hpc[s] = "stream" /\ ~ blind[s] /\ s \in subs /\ ~ closed[s],
                      NEW w \in Writers, NEW n \in 1..sent[w]
               PROVE  Ev(w, n) \in snap[s] \cup ToSet(Carried(s)) \cup unsaved
    BY DEF NothingMissed
  <2>1. sent[w] \in Nat
    BY DEF IInv, TypeInv
  <2>2. n \in 1..Reached(w, s)
    BY <2>1 DEF Reached
  <2>3. ToldInv(s)
    BY DEF IInv, StreamInv
  <2>4. unread[s] = {} /\ ToldOf(s, Ev(w, n))
    BY <2>2, <2>3 DEF ToldInv
  <2>5. CASE \E i \in 1..Len(Carried(s)) : Carried(s)[i] = Ev(w, n)
    BY <2>5, CarriedIsSeq, LenProperties DEF IInv, ToSet
  <2>6. QED
    BY <2>4, <2>5 DEF ToldOf
<1>2. QED
  BY <1>1, Invariant, PTL

\* A stream carries the events of each writer in order and without a gap: one
\* that did not fit ends it, and nothing is sent past the missing event.
THEOREM StreamsHaveNoGaps == Spec => []NoGaps
BY Invariant, PTL DEF IInv

\* Nothing of the run follows done on any stream, whichever goroutines
\* published the views and the verdict.
THEOREM DoneComesLast == Spec => []DoneEndsStream
BY Invariant, PTL DEF IInv
=============================================================================
