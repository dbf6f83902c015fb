-------------------------------- MODULE Run --------------------------------
(***************************************************************************)
(* One Run of pkg/runhub: the bounded event ring, its sequence numbers,    *)
(* the subscribers and the fan-out (run.go, subscribe.go), for a run with  *)
(* no persistence sink attached.                                           *)
(*                                                                         *)
(* r.mu protects the ring, nextSeq, subscribers and closed, so everything  *)
(* done between Lock and Unlock is one step.  What the code does after the *)
(* Unlock is a step of its own: the sends of the fan-out, one subscriber   *)
(* at a time, and each close of a channel.                                 *)
(*                                                                         *)
(* An event is its Seq.  The order in which one Publish serves different   *)
(* subscribers is left open (the code uses the order of the slice): no     *)
(* subscriber can see the channel of another.                              *)
(***************************************************************************)
EXTENDS Integers, Sequences, FiniteSets

CONSTANTS
  Publishers,   \* goroutines that call Publish: producer and ask callbacks
  Subs,         \* subscriber objects, one per Subscribe/SubscribeSince call
  RingSize,     \* len(r.ring)
  ChanCap,      \* capacity of a subscriber channel
  MaxSeq        \* bound: number of events ever published

ASSUME RingSizeAssumption == RingSize \in Nat \ {0}
ASSUME ChanCapAssumption == ChanCap \in Nat \ {0}
ASSUME MaxSeqAssumption == MaxSeq \in Nat
ASSUME DisjointAssumption == Publishers \cap Subs = {}

VARIABLES
  ring,         \* r.ring: slot -> Seq of the event in it, 0 when unused
  ringHead,     \* r.ringHead: next slot to write
  ringFull,     \* r.ringFull
  nextSeq,      \* r.nextSeq
  closed,       \* r.closed
  subscribers,  \* r.subscribers
  evt,          \* publisher -> the event of its last Publish
  targets,      \* publisher -> subscribers that Publish has yet to serve
  st,           \* subscriber -> where its handler is
  mode,         \* subscriber -> which call registered it
  since,        \* subscriber -> Seq after which its stream starts
  got,          \* subscriber -> events its handler has, backfill first
  chan,         \* subscriber -> buffered events of s.ch
  chanOpen,     \* subscriber -> s.ch is made and not closed
  toClose,      \* detached subscribers some goroutine will call closeChan on
  idle,         \* subscribers with lastReadAt older than the idle timeout
  panicked,     \* a send on a closed channel happened: the process is gone
  author,       \* ghost: Seq -> the publisher of the event
  dropped       \* ghost: subscriber -> events counted in s.dropped

logVars == <<ring, ringHead, ringFull, nextSeq, author>>
pubVars == <<evt, targets>>
readerVars == <<st, mode, since, got>>
vars == <<logVars, pubVars, readerVars, closed, subscribers, chan, chanOpen,
          toClose, idle, panicked, dropped>>

-----------------------------------------------------------------------------
(* The ring.                                                               *)

Slots == 0 .. RingSize - 1

\* Length and k-th element (k from 1, oldest first) of snapshotLocked().
SnapshotLen == IF ringFull THEN RingSize ELSE ringHead

SnapshotAt(k) ==
  IF ~ringFull THEN ring[k - 1]
  ELSE IF ringHead + k - 1 < RingSize THEN ring[ringHead + k - 1]
  ELSE ring[ringHead + k - 1 - RingSize]

\* Mutant: a full ring is copied from slot 0 instead of from ringHead.
snapshotUnrotated == [k \in 1 .. SnapshotLen |-> ring[k - 1]]

snapshotLocked == [k \in 1 .. SnapshotLen |-> SnapshotAt(k)]

\* Mutant: the wrap test comes before the increment.
RingWriteWrapsLate(e) ==
  /\ ring' = [ring EXCEPT ![ringHead] = e]
  /\ ringHead' = IF ringHead >= RingSize THEN 0 ELSE ringHead + 1
  /\ ringFull' = IF ringHead >= RingSize THEN TRUE ELSE ringFull

\* Mutant: the wrap forgets to mark the ring as full.
RingWriteNeverFull(e) ==
  /\ ring' = [ring EXCEPT ![ringHead] = e]
  /\ ringHead' = IF ringHead + 1 >= RingSize THEN 0 ELSE ringHead + 1
  /\ ringFull' = ringFull

\* Overwrite the slot at ringHead with event e and advance, wrapping.
RingWrite(e) ==
  /\ ring' = [ring EXCEPT ![ringHead] = e]
  /\ ringHead' = IF ringHead + 1 >= RingSize THEN 0 ELSE ringHead + 1
  /\ ringFull' = IF ringHead + 1 >= RingSize THEN TRUE ELSE ringFull

\* SnapshotSince without a sink: the events of a snapshot after seq (it is
\* sorted, so the filter drops a prefix), and whether the ring covers seq.
SinceOf(snap, seq) ==
  SubSeq(snap, 1 + Cardinality({i \in DOMAIN snap: snap[i] <= seq}), Len(snap))

Recoverable(snap, seq) == snap # << >> => seq + 1 >= snap[1]

-----------------------------------------------------------------------------
(* Publishing.                                                             *)

\* The locked half of Publish: assign the Seq, write the ring, copy the
\* subscribers.  An oversized payload or a closed run returns 0 and changes
\* nothing.
Publish(p) ==
  /\ targets[p] = {}
  /\ ~closed
  /\ nextSeq <= MaxSeq
  /\ nextSeq' = nextSeq + 1
  /\ author' = Append(author, p)
  /\ RingWrite(nextSeq)
  /\ evt' = [evt EXCEPT ![p] = nextSeq]
  /\ targets' = [targets EXCEPT ![p] = subscribers]
  /\ UNCHANGED <<readerVars, closed, subscribers, chan, chanOpen, toClose, idle,
                 panicked, dropped>>

\* Mutant: the select has no default, so the send waits for room.
FanoutSendBlocks(p, s) ==
  /\ s \in targets[p]
  /\ chanOpen[s]
  /\ Len(chan[s]) < ChanCap
  /\ targets' = [targets EXCEPT ![p] = @ \ {s}]
  /\ chan' = [chan EXCEPT ![s] = Append(@, evt[p])]
  /\ idle' = idle \ {s}
  /\ UNCHANGED <<logVars, evt, readerVars, closed, subscribers, chanOpen, toClose,
                 panicked, dropped>>

\* Mutant: a send that found the channel full is counted as dropped and tried
\* again.
FanoutSendRetries(p, s) ==
  /\ s \in targets[p]
  /\ chanOpen[s]
  /\ \/ /\ Len(chan[s]) < ChanCap
        /\ targets' = [targets EXCEPT ![p] = @ \ {s}]
        /\ chan' = [chan EXCEPT ![s] = Append(@, evt[p])]
        /\ idle' = idle \ {s}
        /\ UNCHANGED dropped
     \/ /\ Len(chan[s]) >= ChanCap
        /\ dropped' = [dropped EXCEPT ![s] = @ \cup {evt[p]}]
        /\ UNCHANGED <<targets, chan, idle>>
  /\ UNCHANGED <<logVars, evt, readerVars, closed, subscribers, chanOpen, toClose,
                 panicked>>

\* The non-blocking send of fanout: delivered, or dropped on a full channel.
FanoutSend(p, s) ==
  /\ s \in targets[p]
  /\ chanOpen[s]
  /\ targets' = [targets EXCEPT ![p] = @ \ {s}]
  /\ \/ /\ Len(chan[s]) < ChanCap
        /\ chan' = [chan EXCEPT ![s] = Append(@, evt[p])]
        /\ idle' = idle \ {s}
        /\ UNCHANGED dropped
     \/ /\ Len(chan[s]) >= ChanCap
        /\ dropped' = [dropped EXCEPT ![s] = @ \cup {evt[p]}]
        /\ UNCHANGED <<chan, idle>>
  /\ UNCHANGED <<logVars, evt, readerVars, closed, subscribers, chanOpen, toClose,
                 panicked>>

\* A send on a channel that was closed after the snapshot panics.
FanoutPanic(p, s) ==
  /\ s \in targets[p]
  /\ ~chanOpen[s]
  /\ panicked' = TRUE
  /\ UNCHANGED <<logVars, pubVars, readerVars, closed, subscribers, chan, chanOpen,
                 toClose, idle, dropped>>

-----------------------------------------------------------------------------
(* Subscribing.                                                            *)

\* Mutant: registration without the test of r.closed.
RegisterOnClosed(s) ==
  /\ subscribers' = subscribers \cup {s}
  /\ chanOpen' = [chanOpen EXCEPT ![s] = TRUE]

\* Join the fan-out with an open, empty channel; a closed run hands out a
\* closed channel instead.
Register(s) ==
  /\ subscribers' = IF closed THEN subscribers ELSE subscribers \cup {s}
  /\ chanOpen' = [chanOpen EXCEPT ![s] = ~closed]

\* Mutant: Subscribe unlocks between the snapshot and the registration.
SubscribeTwoLocks(s) ==
  /\ st[s] = "new"
  /\ st' = [st EXCEPT ![s] = "joining"]
  /\ mode' = [mode EXCEPT ![s] = "all"]
  /\ since' = [since EXCEPT ![s] = nextSeq - 1 - SnapshotLen]
  /\ got' = [got EXCEPT ![s] = snapshotLocked]
  /\ UNCHANGED <<logVars, pubVars, closed, subscribers, chan, chanOpen, toClose, idle,
                 panicked, dropped>>

\* Subscribe: snapshot and registration in one critical section.
Subscribe(s) ==
  /\ st[s] = "new"
  /\ st' = [st EXCEPT ![s] = "reading"]
  /\ mode' = [mode EXCEPT ![s] = "all"]
  /\ since' = [since EXCEPT ![s] = nextSeq - 1 - SnapshotLen]
  /\ got' = [got EXCEPT ![s] = snapshotLocked]
  /\ Register(s)
  /\ UNCHANGED <<logVars, pubVars, closed, chan, toClose, idle, panicked, dropped>>

\* SubscribeSince, first half: SnapshotSince under its own lock.  seq is the
\* Last-Event-ID of a client of this run, or 0.  Out of the ring: 410 Gone.
SubscribeSinceSnapshot(s, seq) ==
  /\ st[s] = "new"
  /\ \/ /\ Recoverable(snapshotLocked, seq)
        /\ st' = [st EXCEPT ![s] = "joining"]
        /\ mode' = [mode EXCEPT ![s] = "since"]
        /\ since' = [since EXCEPT ![s] = seq]
        /\ got' = [got EXCEPT ![s] = SinceOf(snapshotLocked, seq)]
     \/ /\ ~Recoverable(snapshotLocked, seq)
        /\ st' = [st EXCEPT ![s] = "done"]
        /\ UNCHANGED <<mode, since, got>>
  /\ UNCHANGED <<logVars, pubVars, closed, subscribers, chan, chanOpen, toClose,
                 idle, panicked, dropped>>

\* SubscribeSince, second half: lock again and register.
SubscribeSinceRegister(s) ==
  /\ st[s] = "joining"
  /\ st' = [st EXCEPT ![s] = "reading"]
  /\ Register(s)
  /\ UNCHANGED <<logVars, pubVars, mode, since, got, closed, chan, toClose, idle,
                 panicked, dropped>>

\* The handler receives the next event from its channel.
Receive(s) ==
  /\ st[s] = "reading"
  /\ chan[s] # << >>
  /\ got' = [got EXCEPT ![s] = Append(@, Head(chan[s]))]
  /\ chan' = [chan EXCEPT ![s] = Tail(@)]
  /\ UNCHANGED <<logVars, pubVars, st, mode, since, closed, subscribers, chanOpen,
                 toClose, idle, panicked, dropped>>

\* The handler finds the channel closed and drained, and ends its stream.
\* Its deferred unsub then changes nothing.
ReceiveClosed(s) ==
  /\ st[s] = "reading"
  /\ chan[s] = << >>
  /\ ~chanOpen[s]
  /\ st' = [st EXCEPT ![s] = "done"]
  /\ UNCHANGED <<logVars, pubVars, mode, since, got, closed, subscribers, chan,
                 chanOpen, toClose, idle, panicked, dropped>>

\* The client goes away and the handler's deferred unsub runs: detach under
\* the lock, closeChan after it.
Unsub(s) ==
  /\ st[s] = "reading"
  /\ st' = [st EXCEPT ![s] = "done"]
  /\ subscribers' = subscribers \ {s}
  /\ toClose' = IF chanOpen[s] THEN toClose \cup {s} ELSE toClose
  /\ UNCHANGED <<logVars, pubVars, mode, since, got, closed, chan, chanOpen, idle,
                 panicked, dropped>>

-----------------------------------------------------------------------------
(* Teardown.                                                               *)

\* Mutant: the list is cleared before it is copied for closing.
closeAllForgets ==
  /\ closed' = TRUE
  /\ subscribers' = {}
  /\ UNCHANGED <<logVars, pubVars, readerVars, chan, chanOpen, toClose, idle, panicked,
                 dropped>>

\* closeAllSubscribers, its critical section.
closeAllSubscribers ==
  /\ closed' = TRUE
  /\ toClose' = toClose \cup subscribers
  /\ subscribers' = {}
  /\ UNCHANGED <<logVars, pubVars, readerVars, chan, chanOpen, idle, panicked, dropped>>

\* Mutant: the evicted entries stay in r.subscribers.
evictIdleKeepsEntry ==
  /\ ~closed
  /\ toClose' = toClose \cup (subscribers \cap idle)
  /\ UNCHANGED <<logVars, pubVars, readerVars, closed, subscribers, chan, chanOpen,
                 idle, panicked, dropped>>

\* evictIdleSubscribers, its critical section.
evictIdleSubscribers ==
  /\ ~closed
  /\ toClose' = toClose \cup (subscribers \cap idle)
  /\ subscribers' = subscribers \ idle
  /\ UNCHANGED <<logVars, pubVars, readerVars, closed, chan, chanOpen, idle, panicked,
                 dropped>>

\* close(s.ch); closeOnce makes every later call a no-op.
closeChan(s) ==
  /\ s \in toClose
  /\ toClose' = toClose \ {s}
  /\ chanOpen' = [chanOpen EXCEPT ![s] = FALSE]
  /\ UNCHANGED <<logVars, pubVars, readerVars, closed, subscribers, chan, idle,
                 panicked, dropped>>

\* SubscriberIdleTimeout passes without a delivery to s.
IdleTimeout(s) ==
  /\ s \in subscribers \ idle
  /\ idle' = idle \cup {s}
  /\ UNCHANGED <<logVars, pubVars, readerVars, closed, subscribers, chan, chanOpen,
                 toClose, panicked, dropped>>

-----------------------------------------------------------------------------
\* newRun.
Init ==
  /\ ring = [i \in Slots |-> 0]
  /\ ringHead = 0
  /\ ringFull = FALSE
  /\ nextSeq = 1
  /\ closed = FALSE
  /\ subscribers = {}
  /\ evt = [p \in Publishers |-> 0]
  /\ targets = [p \in Publishers |-> {}]
  /\ st = [s \in Subs |-> "new"]
  /\ mode = [s \in Subs |-> "none"]
  /\ since = [s \in Subs |-> 0]
  /\ got = [s \in Subs |-> << >>]
  /\ chan = [s \in Subs |-> << >>]
  /\ chanOpen = [s \in Subs |-> FALSE]
  /\ toClose = {}
  /\ idle = {}
  /\ panicked = FALSE
  /\ author = << >>
  /\ dropped = [s \in Subs |-> {}]

PublisherStep(p) ==
  \/ Publish(p)
  \/ \E s \in Subs: FanoutSend(p, s) \/ FanoutPanic(p, s)

SubscriberStep(s) ==
  \/ Subscribe(s)
  \/ \E seq \in 0 .. nextSeq - 1: SubscribeSinceSnapshot(s, seq)
  \/ SubscribeSinceRegister(s)
  \/ Receive(s)
  \/ ReceiveClosed(s)
  \/ Unsub(s)

HubStep ==
  \/ closeAllSubscribers
  \/ evictIdleSubscribers
  \/ \E s \in Subs: closeChan(s) \/ IdleTimeout(s)

\* An unrecovered panic ends the process.
Next ==
  /\ ~panicked
  /\ \/ \E p \in Publishers: PublisherStep(p)
     \/ \E s \in Subs: SubscriberStep(s)
     \/ HubStep

Spec == Init /\ [][Next]_vars

\* Goroutines are scheduled: a publisher inside Publish and a goroutine that
\* still has a channel to close get to run.  Nothing is assumed of consumers.
Fairness ==
  /\ \A p \in Publishers: 
       WF_vars(~panicked /\ \E s \in Subs: FanoutSend(p, s) \/ FanoutPanic(p, s))
  /\ \A s \in Subs: WF_vars(~panicked /\ closeChan(s))

FairSpec == Spec /\ Fairness

\* A handler keeps ranging over its channel: a write to its client completes,
\* or fails and then the handler is gone.  Leaving (Unsub) is never forced.
ConsumerFairness ==
  \A s \in Subs: WF_vars(~panicked /\ (Receive(s) \/ ReceiveClosed(s)))

-----------------------------------------------------------------------------
(* Properties.                                                             *)

Elems(seq) == {seq[i]: i \in DOMAIN seq}

\* The stream of s: what its consumer has, then what waits in its channel.
Stream(s) == got[s] \o chan[s]

Streamed(s) == Elems(got[s]) \cup Elems(chan[s])

\* Events whose Publish has s among the targets it has yet to serve.
InFlight(s) == {evt[p]: p \in {q \in Publishers: s \in targets[q]}}

\* Type invariant of the run's fields, its channels and its goroutines.
TypeOK ==
  /\ ring \in [Slots -> Nat]
  /\ ringHead \in Slots
  /\ ringFull \in BOOLEAN
  /\ nextSeq \in Nat \ {0}
  /\ closed \in BOOLEAN
  /\ subscribers \subseteq Subs
  /\ evt \in [Publishers -> Nat]
  /\ targets \in [Publishers -> SUBSET Subs]
  /\ st \in [Subs -> {"new", "joining", "reading", "done"}]
  /\ mode \in [Subs -> {"none", "all", "since"}]
  /\ since \in [Subs -> Nat]
  /\ got \in [Subs -> Seq(Nat)]
  /\ chan \in [Subs -> Seq(Nat)]
  /\ chanOpen \in [Subs -> BOOLEAN]
  /\ toClose \subseteq Subs
  /\ idle \subseteq Subs
  /\ panicked \in BOOLEAN
  /\ author \in Seq(Publishers)
  /\ dropped \in [Subs -> SUBSET Nat]

\* Replay window: whatever the position of ringHead and however often the
\* ring has wrapped, snapshotLocked returns the newest events, oldest first,
\* without a hole, and as many as the ring can hold.
ReplayWindow ==
  /\ SnapshotLen = IF nextSeq - 1 < RingSize THEN nextSeq - 1 ELSE RingSize
  /\ \A k \in 1 .. SnapshotLen: SnapshotAt(k) = nextSeq - 1 - SnapshotLen + k

\* No gap after Subscribe: every event from the start of the backfill to the
\* last one published has reached a registered subscriber, is in flight to
\* it, or was counted in its dropped counter.
SubscribeHasNoGap ==
  \A s \in subscribers: mode[s] = "all" =>
    Streamed(s) \cup InFlight(s) \cup dropped[s] = since[s] + 1 .. nextSeq - 1

\* No duplicate: backfill and live delivery never hand the same event to a
\* subscriber twice, and an event counted as dropped is not also delivered.
NoDuplicates ==
  \A s \in Subs:
    /\ \A i, j \in DOMAIN Stream(s): Stream(s)[i] = Stream(s)[j] => i = j
    /\ Streamed(s) \cap dropped[s] = {}
    /\ InFlight(s) \cap (Streamed(s) \cup dropped[s]) = {}

\* The events of one publisher reach every subscriber in Seq order, across
\* the border between backfill and channel too.
PublisherOrder ==
  \A s \in Subs: \A i, j \in DOMAIN Stream(s):
    /\ i < j
    /\ author[Stream(s)[i]] = author[Stream(s)[j]]
    => Stream(s)[i] < Stream(s)[j]

\* No leaked stream: every open channel belongs to a subscriber that is in
\* the fan-out list of a run that is not closed, or that some goroutine is
\* about to close.  In particular a Subscribe that races with
\* closeAllSubscribers cannot leave a channel nobody closes.
NoLeakedChannel ==
  /\ closed => subscribers = {}
  /\ \A s \in Subs: chanOpen[s] => s \in subscribers \cup toClose

\* A channel is closed only after its subscriber has left the fan-out list,
\* so a Publish that starts now cannot meet a closed channel.
RegisteredAreOpen == \A s \in subscribers: chanOpen[s] /\ s \notin toClose

\* Publish never waits for a consumer: without any fairness on consumers
\* every Publish that has started returns (or the process has panicked).
PublishReturns ==
  \A p \in Publishers: targets[p] # {} ~> (targets[p] = {} \/ panicked)

\* "so the SSE writers exit their for-range loops cleanly": a handler whose
\* subscriber has left the fan-out list, by closeAllSubscribers or by idle
\* eviction, gets out of its loop (or the process has panicked), as long as
\* handlers keep reading.
DetachedStreamEnds ==
  ConsumerFairness =>
    \A s \in Subs: (st[s] = "reading" /\ s \notin subscribers) ~> (st[s] = "done" \/ panicked)

-----------------------------------------------------------------------------
(* What comments of the repository say and the code does not do.           *)

\* closeChan's comment: "in practice the subscribers slice has already
\* dropped the entry by the time the channel is closed, so the producer
\* never sees it".
ProducerNeverPanics == ~panicked

\* handleRunsEvents: "the server replays events with seq strictly greater
\* than this value".  What SubscribeHasNoGap says, for SubscribeSince.
SubscribeSinceHasNoGap ==
  \A s \in subscribers: mode[s] = "since" =>
    since[s] + 1 .. nextSeq - 1 \subseteq Streamed(s) \cup InFlight(s) \cup dropped[s]
=============================================================================
