----------------------------- MODULE EventStream -----------------------------
(***************************************************************************)
(* Fan-out of the events of one request: the registry entry with its       *)
(* subscribers (internal/council/registry.go) and the SSE handlers that    *)
(* read them (handleEvents of internal/httpapi/server.go).                 *)
(*                                                                         *)
(* A step is what happens under one acquisition of Registry.mu or of one   *)
(* subscriber.mu.  Two holders keep a lock across steps: a writer waiting  *)
(* in send for space holds the subscriber's, and the cleaner closing       *)
(* subscribers holds the registry's.                                       *)
(*                                                                         *)
(* The goroutine of an event persists it before it publishes it, so a      *)
(* snapshot is the set of events whose rows it found; a statement that     *)
(* fails is logged, and the event is published all the same.               *)
(***************************************************************************)
EXTENDS Naturals, Sequences, SequencesExt

CONSTANTS
  Writers,    \* goroutines that publish: the run's own, and superseding runs
  Closer,     \* the judge goroutine: it publishes done, last
  Outsiders,  \* writers that are not part of the run (Run of a later request)
  Count,      \* number of events each writer publishes
  Streams,    \* SSE connections
  Capacity,   \* SubscriberBufferSize
  Fragile,    \* events whose statement may fail
  Nobody      \* no lock holder

ASSUME StreamConstants ==
  /\ Closer \in Writers \ Outsiders
  /\ Outsiders \subseteq Writers
  /\ Count \in [Writers -> Nat \ {0}]
  /\ Capacity \in Nat \ {0}
  /\ Nobody \notin Writers \cup Streams

VARIABLES
  rows,       \* events whose state is persisted
  unsaved,    \* events whose statement failed
  pc, sent,   \* per writer: next step, and number of events published
  todo, on,   \* per writer: subscribers still to be sent to, the one at hand
  held,       \* the registry has an entry for the request
  subs,       \* its subscribers
  hasDone,    \* it is marked done
  registered, \* Register was called
  rLock,      \* the cleaner holds Registry.mu across steps
  closing,    \* subscribers the cleaner has still to close
  chan,       \* per stream: the buffered channel
  closed,     \* the channel is closed
  sLock,      \* the writer that holds subscriber.mu across steps
  hpc,        \* per handler: next step
  unread,     \* writers whose rows its snapshot query has still to read
  snap, got,  \* what the client was told: the snapshot, the events since
  blind,      \* the snapshot failed and was sent empty
  grace       \* the grace timer runs: done was written

writerVars  == <<rows, unsaved, pc, sent, todo, on>>
entryVars   == <<held, subs, hasDone, registered, rLock, closing>>
chanVars    == <<chan, closed, sLock>>
handlerVars == <<hpc, unread, snap, got, blind, grace>>
vars == <<writerVars, entryVars, chanVars, handlerVars>>

Ev(w, n) == [by |-> w, n |-> n]
Events   == UNION {{Ev(w, n) : n \in 1..Count[w]} : w \in Writers}
DoneEv   == Ev(Closer, Count[Closer])
NextEv(w) == Ev(w, sent[w] + 1)

Init ==
  /\ rows = {} /\ unsaved = {}
  /\ pc   = [w \in Writers |-> "persist"]
  /\ sent = [w \in Writers |-> 0]
  /\ todo = [w \in Writers |-> {}]
  /\ on   = [w \in Writers |-> Nobody]
  /\ held = FALSE /\ subs = {} /\ hasDone = FALSE /\ registered = FALSE
  /\ rLock = FALSE /\ closing = {}
  /\ chan   = [s \in Streams |-> <<>>]
  /\ closed = [s \in Streams |-> FALSE]
  /\ sLock  = [s \in Streams |-> Nobody]
  /\ hpc    = [s \in Streams |-> "start"]
  /\ unread = [s \in Streams |-> Writers]
  /\ snap   = [s \in Streams |-> {}]
  /\ got    = [s \in Streams |-> <<>>]
  /\ blind  = [s \in Streams |-> FALSE]
  /\ grace  = [s \in Streams |-> FALSE]

\* Register keeps the subscribers of a stream that came first.
Register ==
  /\ ~registered /\ ~rLock
  /\ registered' = TRUE /\ held' = TRUE
  /\ UNCHANGED <<subs, hasDone, rLock, closing, writerVars, chanVars, handlerVars>>

-----------------------------------------------------------------------------
(* Writers.                                                                *)

\* Mutant: done is published without waiting for the stragglers.
MayCloseAnyTime == TRUE

\* done is persisted and published after every view (execute's drain).
MayClose == \A w \in Writers \ (Outsiders \cup {Closer}) : pc[w] = "exit"

\* A statement that fails is logged, and the event published all the same.
Persist(w) ==
  /\ pc[w] = "persist"
  /\ registered \/ w \in Outsiders
  /\ NextEv(w) = DoneEv => MayClose
  /\ \/ rows' = rows \cup {NextEv(w)} /\ UNCHANGED unsaved
     \/ /\ NextEv(w) \in Fragile
        /\ unsaved' = unsaved \cup {NextEv(w)} /\ UNCHANGED rows
  /\ pc' = [pc EXCEPT ![w] = "copy"]
  /\ UNCHANGED <<sent, todo, on, entryVars, chanVars, handlerVars>>

\* Publish copies the subscribers under Registry.mu; without an entry the
\* event goes nowhere.
CopySubs(w) ==
  /\ pc[w] = "copy" /\ ~rLock
  /\ todo' = [todo EXCEPT ![w] = IF held THEN subs ELSE {}]
  /\ pc' = [pc EXCEPT ![w] = "send"]
  /\ UNCHANGED <<rows, unsaved, sent, on, entryVars, chanVars, handlerVars>>

Deliver(w, s) == chan' = [chan EXCEPT ![s] = Append(@, NextEv(w))]

HasRoom(s) == Len(chan[s]) < Capacity

\* send to a subscriber that is closed, or has room.
Send(w, s) ==
  /\ pc[w] = "send" /\ s \in todo[w] /\ sLock[s] = Nobody
  /\ closed[s] \/ HasRoom(s)
  /\ IF closed[s] THEN UNCHANGED chan ELSE Deliver(w, s)
  /\ todo' = [todo EXCEPT ![w] = @ \ {s}]
  /\ UNCHANGED <<rows, unsaved, pc, sent, on, closed, sLock, entryVars, handlerVars>>

\* send to a full one waits, holding subscriber.mu, ...
SendBlocks(w, s) ==
  /\ pc[w] = "send" /\ s \in todo[w] /\ sLock[s] = Nobody
  /\ ~closed[s] /\ ~HasRoom(s)
  /\ sLock' = [sLock EXCEPT ![s] = w]
  /\ on' = [on EXCEPT ![w] = s]
  /\ pc' = [pc EXCEPT ![w] = "blocked"]
  /\ UNCHANGED <<rows, unsaved, sent, todo, chan, closed, entryVars, handlerVars>>

\* ... for space ...
SendSpace(w) ==
  LET s == on[w] IN
  /\ pc[w] = "blocked" /\ HasRoom(s)
  /\ Deliver(w, s)
  /\ sLock' = [sLock EXCEPT ![s] = Nobody]
  /\ todo' = [todo EXCEPT ![w] = @ \ {s}]
  /\ on' = [on EXCEPT ![w] = Nobody]
  /\ pc' = [pc EXCEPT ![w] = "send"]
  /\ UNCHANGED <<rows, unsaved, sent, closed, entryVars, handlerVars>>

\* Mutant: the event that did not fit is dropped, the subscriber kept.
SendTimeoutDrops(w) ==
  LET s == on[w] IN
  /\ pc[w] = "blocked"
  /\ sLock' = [sLock EXCEPT ![s] = Nobody]
  /\ todo' = [todo EXCEPT ![w] = @ \ {s}]
  /\ on' = [on EXCEPT ![w] = Nobody]
  /\ pc' = [pc EXCEPT ![w] = "send"]
  /\ UNCHANGED <<rows, unsaved, sent, chan, closed, entryVars, handlerVars>>

\* Mutant: Publish waits for space as long as it takes.
SendTimeoutNever(w) == FALSE /\ UNCHANGED vars

\* ... but at most SubscriberBlockTimeout; then the subscriber is removed
\* from the entry, if there still is one, ...
SendTimeout(w) ==
  LET s == on[w] IN
  /\ pc[w] = "blocked"
  /\ sLock' = [sLock EXCEPT ![s] = Nobody]
  /\ pc' = [pc EXCEPT ![w] = "remove"]
  /\ UNCHANGED <<rows, unsaved, sent, todo, on, chan, closed, entryVars, handlerVars>>

RemoveSub(w) ==
  /\ pc[w] = "remove" /\ ~rLock
  /\ subs' = subs \ {on[w]}
  /\ pc' = [pc EXCEPT ![w] = "close"]
  /\ UNCHANGED <<rows, unsaved, sent, todo, on, held, hasDone, registered, rLock, closing,
                 chanVars, handlerVars>>

\* Mutant: subscriber.close does not take subscriber.mu.
LockFreeAlways(s) == TRUE

LockFree(s) == sLock[s] = Nobody

\* subscriber.close
CloseSub(s) == LockFree(s) /\ closed' = [closed EXCEPT ![s] = TRUE]

\* ... and closed.
CloseSlow(w) ==
  /\ pc[w] = "close"
  /\ CloseSub(on[w])
  /\ todo' = [todo EXCEPT ![w] = @ \ {on[w]}]
  /\ on' = [on EXCEPT ![w] = Nobody]
  /\ pc' = [pc EXCEPT ![w] = "send"]
  /\ UNCHANGED <<rows, unsaved, sent, chan, sLock, entryVars, handlerVars>>

PublishReturns(w) ==
  /\ pc[w] = "send" /\ todo[w] = {}
  /\ sent' = [sent EXCEPT ![w] = @ + 1]
  /\ pc' = [pc EXCEPT ![w] = IF sent'[w] < Count[w] THEN "persist"
                             ELSE IF w = Closer THEN "mark" ELSE "exit"]
  /\ UNCHANGED <<rows, unsaved, todo, on, entryVars, chanVars, handlerVars>>

\* Mutant: the entry is not marked, so the cleaner never finds it.
MarkDoneForgets ==
  /\ pc[Closer] = "mark" /\ ~rLock
  /\ pc' = [pc EXCEPT ![Closer] = "exit"]
  /\ UNCHANGED <<rows, unsaved, sent, todo, on, entryVars, chanVars, handlerVars>>

MarkDone ==
  /\ pc[Closer] = "mark" /\ ~rLock
  /\ held' = TRUE /\ hasDone' = TRUE
  /\ pc' = [pc EXCEPT ![Closer] = "exit"]
  /\ UNCHANGED <<rows, unsaved, sent, todo, on, subs, registered, rLock, closing,
                 chanVars, handlerVars>>

-----------------------------------------------------------------------------
(* The cleaner, removeAfter past done.                                     *)

CleanStart ==
  /\ ~rLock /\ held /\ hasDone
  /\ rLock' = TRUE /\ closing' = subs
  /\ UNCHANGED <<held, subs, hasDone, registered, writerVars, chanVars, handlerVars>>

CleanClose(s) ==
  /\ rLock /\ s \in closing
  /\ CloseSub(s)
  /\ closing' = closing \ {s}
  /\ UNCHANGED <<held, subs, hasDone, registered, rLock, chan, sLock,
                 writerVars, handlerVars>>

CleanEnd ==
  /\ rLock /\ closing = {}
  /\ rLock' = FALSE
  /\ held' = FALSE /\ hasDone' = FALSE /\ subs' = {}
  /\ UNCHANGED <<registered, closing, writerVars, chanVars, handlerVars>>

-----------------------------------------------------------------------------
(* handleEvents.                                                           *)

\* Subscribe makes an entry when there is none, whatever became of the run.
Subscribe(s) ==
  /\ hpc[s] = "start" /\ ~rLock
  /\ held' = TRUE /\ subs' = subs \cup {s}
  /\ hpc' = [hpc EXCEPT ![s] = "snapshot"]
  /\ UNCHANGED <<hasDone, registered, rLock, closing, unread, snap, got, blind, grace,
                 writerVars, chanVars>>

\* Mutant: the snapshot may be read as soon as the request comes in.
SnapshotSteps == {"start", "snapshot"}

\* Where requestState runs: after Subscribe.
SnapshotStep == {"snapshot"}

\* requestState: one query per table, each seeing what is persisted by then.
ReadRows(s, w) ==
  /\ hpc[s] \in SnapshotStep /\ w \in unread[s]
  /\ unread' = [unread EXCEPT ![s] = @ \ {w}]
  /\ snap' = [snap EXCEPT ![s] = @ \cup {e \in rows : e.by = w}]
  /\ UNCHANGED <<hpc, got, blind, grace, writerVars, entryVars, chanVars>>

\* The snapshot is written, without its state when a query failed: the queries
\* after that one are not made.
WriteSnapshot(s) ==
  /\ hpc[s] = "snapshot"
  /\ \/ unread[s] = {} /\ UNCHANGED <<unread, snap, blind>>
     \/ /\ unread' = [unread EXCEPT ![s] = {}]
        /\ snap' = [snap EXCEPT ![s] = {}]
        /\ blind' = [blind EXCEPT ![s] = TRUE]
  /\ hpc' = [hpc EXCEPT ![s] = "stream"]
  /\ UNCHANGED <<got, grace, writerVars, entryVars, chanVars>>

\* An event is taken from the channel and written; done starts the grace timer.
Receive(s) ==
  /\ hpc[s] = "stream" /\ chan[s] # <<>>
  /\ got' = [got EXCEPT ![s] = Append(@, Head(chan[s]))]
  /\ chan' = [chan EXCEPT ![s] = Tail(@)]
  /\ grace' = [grace EXCEPT ![s] = @ \/ Head(chan[s]) = DoneEv]
  /\ UNCHANGED <<hpc, unread, snap, blind, closed, sLock, writerVars, entryVars>>

\* The channel was closed, or the grace period is over.
StreamEnds(s) ==
  /\ hpc[s] = "stream"
  /\ (closed[s] /\ chan[s] = <<>>) \/ grace[s]
  /\ hpc' = [hpc EXCEPT ![s] = "unsubscribe"]
  /\ UNCHANGED <<unread, snap, got, blind, grace, writerVars, entryVars, chanVars>>

\* The client goes away: the context ends or a write fails.
Disconnect(s) ==
  /\ hpc[s] \in {"snapshot", "stream"}
  /\ hpc' = [hpc EXCEPT ![s] = "unsubscribe"]
  /\ UNCHANGED <<unread, snap, got, blind, grace, writerVars, entryVars, chanVars>>

Unsubscribe(s) ==
  /\ hpc[s] = "unsubscribe" /\ ~rLock
  /\ subs' = subs \ {s}
  /\ hpc' = [hpc EXCEPT ![s] = "close"]
  /\ UNCHANGED <<held, hasDone, registered, rLock, closing, unread, snap, got, blind,
                 grace, writerVars, chanVars>>

\* The handler returns: its variables and what is left in the channel go.
CloseOwn(s) ==
  /\ hpc[s] = "close"
  /\ CloseSub(s)
  /\ hpc'    = [hpc    EXCEPT ![s] = "ended"]
  /\ chan'   = [chan   EXCEPT ![s] = <<>>]
  /\ unread' = [unread EXCEPT ![s] = {}]
  /\ snap'   = [snap   EXCEPT ![s] = {}]
  /\ got'    = [got    EXCEPT ![s] = <<>>]
  /\ blind'  = [blind  EXCEPT ![s] = FALSE]
  /\ grace'  = [grace  EXCEPT ![s] = FALSE]
  /\ UNCHANGED <<sLock, writerVars, entryVars>>

-----------------------------------------------------------------------------
Publishing(w) == \/ CopySubs(w) \/ SendSpace(w) \/ SendTimeout(w)
                 \/ RemoveSub(w) \/ CloseSlow(w) \/ PublishReturns(w)
                 \/ \E s \in Streams : Send(w, s) \/ SendBlocks(w, s)

Cleaner == CleanStart \/ CleanEnd \/ \E s \in Streams : CleanClose(s)

\* The handler's own steps, which wait for nothing but locks.
Handler(s) == \/ \E w \in Writers : ReadRows(s, w)
              \/ WriteSnapshot(s) \/ Receive(s) \/ StreamEnds(s)
              \/ Unsubscribe(s) \/ CloseOwn(s)

Next == \/ Register \/ MarkDone \/ Cleaner
        \/ \E w \in Writers : Persist(w) \/ Publishing(w)
        \/ \E s \in Streams : Subscribe(s) \/ Handler(s) \/ Disconnect(s)

Spec == Init /\ [][Next]_vars

\* Goroutines run, timers fire, locks are granted (a mutex in Go is not
\* starved).  Nothing makes a client read or go away.
Fairness ==
  /\ WF_vars(Register) /\ WF_vars(MarkDone)
  /\ SF_vars(CleanStart) /\ WF_vars(CleanEnd)
  /\ \A w \in Writers : /\ WF_vars(Persist(w)) /\ SF_vars(Publishing(w))
  /\ \A s \in Streams : /\ SF_vars(CleanClose(s))
                        /\ SF_vars(Unsubscribe(s)) /\ SF_vars(CloseOwn(s))

FairSpec == Spec /\ Fairness

\* Clients that read what they are sent until their stream ends.
Readers == \A s \in Streams :
  WF_vars((\E w \in Writers : ReadRows(s, w)) \/ WriteSnapshot(s) \/ Receive(s) \/ StreamEnds(s))

\* Clients that read, and leave sooner or later.
LeaveSpec == FairSpec /\ Readers /\ \A s \in Streams : WF_vars(Disconnect(s))

-----------------------------------------------------------------------------
WriterPcs  == {"persist", "copy", "send", "blocked", "remove", "close", "mark", "exit"}
HandlerPcs == {"start", "snapshot", "stream", "unsubscribe", "close", "ended"}

\* Every variable has its type; in particular a channel never holds more than
\* its capacity.
TypeOK ==
  /\ rows \cup unsaved \subseteq Events
  /\ pc \in [Writers -> WriterPcs]
  /\ \A w \in Writers : sent[w] \in 0..Count[w]
  /\ todo \in [Writers -> SUBSET Streams]
  /\ on \in [Writers -> Streams \cup {Nobody}]
  /\ subs \subseteq Streams /\ closing \subseteq Streams
  /\ {held, hasDone, registered, rLock} \subseteq BOOLEAN
  /\ \A s \in Streams : /\ Len(chan[s]) <= Capacity
                        /\ ToSet(chan[s]) \cup ToSet(got[s]) \cup snap[s] \subseteq Events
  /\ closed \in [Streams -> BOOLEAN]
  /\ sLock \in [Streams -> Writers \cup {Nobody}]
  /\ hpc \in [Streams -> HandlerPcs]
  /\ unread \in [Streams -> SUBSET Writers]
  /\ blind \in [Streams -> BOOLEAN] /\ grace \in [Streams -> BOOLEAN]

\* What a stream carries: written to the client already, or in the channel.
Carried(s) == got[s] \o chan[s]

\* A client that is still subscribed was told, or is being told, of every event
\* whose Publish has returned: what came before Subscribe is in the snapshot,
\* what came after is in the channel, and nothing falls in between, but for an
\* event whose statement failed, which only those can tell who heard it.
NothingMissed ==
  \A s \in Streams :
    hpc[s] = "stream" /\ ~blind[s] /\ s \in subs /\ ~closed[s] =>
      \A w \in Writers : \A n \in 1..sent[w] :
        Ev(w, n) \in snap[s] \cup ToSet(Carried(s)) \cup unsaved

\* "never drops messages silently": a stream carries the events of one
\* goroutine in order and without a gap, up to the point where it ends.
NoGaps ==
  \A s \in Streams : \A i, j \in 1..Len(Carried(s)) :
    LET c == Carried(s) IN
    /\ i < j /\ c[i].by = c[j].by
    /\ \A k \in (i + 1)..(j - 1) : c[k].by # c[i].by
    => c[j].n = c[i].n + 1

\* After done a stream carries nothing of the run any more, for every
\* subscriber and although other goroutines published the views.
DoneEndsStream ==
  \A s \in Streams : \A i, j \in 1..Len(Carried(s)) :
    Carried(s)[i] = DoneEv /\ i < j => Carried(s)[j].by \in Outsiders

\* No goroutine is sending on a channel that is closed, which would panic.
NoSendOnClosed ==
  \A w \in Writers : pc[w] = "blocked" => ~closed[on[w]]

\* "Publish never blocks forever": every writer gets through its events and
\* the run is marked done even when no client ever reads.
WritersFinish == \A w \in Writers : registered ~> pc[w] = "exit"

\* A stream that was open before the run was marked done ends by itself for a
\* client that reads, even when it came too late to be sent done.
LiveStreamsEnd ==
  Readers => \A s \in Streams :
    hpc[s] = "stream" /\ pc[Closer] # "exit" ~> hpc[s] \in {"unsubscribe", "close", "ended"}

\* "Entries are removed removeAfter after done."
EntriesAreRemoved == pc[Closer] = "exit" ~> [](~held)
=============================================================================
