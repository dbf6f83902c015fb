---------------------------- MODULE BatchWriter ----------------------------
(***************************************************************************)
(* The asynchronous event writer of pkg/runhub/persistent_writer.go with   *)
(* its circuit breaker: Publish calls put events on a bounded channel and  *)
(* never wait, one goroutine takes them off, and inserts them in batches;  *)
(* flushSync is a fence, shutdown drains and stops.                        *)
(*                                                                         *)
(* An event stands for one envelope and is written by one call of write.   *)
(* The store is external: an insert succeeds, fails, or fails (a timeout)  *)
(* after the rows were committed.                                          *)
(***************************************************************************)
EXTENDS SinkBreaker, Sequences, SequencesExt

CONSTANTS
  Events,      \* the events that are ever written
  Fences,      \* the callers of flushSync
  BufferSize,  \* cap of the enqueue channel
  BatchSize    \* w.size

ASSUME WriterAssumption == BufferSize \in Nat \ {0} /\ BatchSize \in Nat \ {0}

VARIABLES
  call,      \* where the write of an event is
  queue,     \* w.enqueue
  buf,       \* the writer's buffer
  rows,      \* the events in the store
  dropped,   \* events counted by OnBatchDrop
  skipped,   \* events counted by OnSinkBreakerSkipped
  failed,    \* events of an insert that reported an error
  loop,      \* where the writer goroutine is
  after,     \* where it goes when the flush is over
  stop,      \* w.stop is closed
  flushCh,   \* w.flushCh, capacity 1
  serving,   \* the fences taken off flushCh by the writer
  fence,     \* where a flushSync call is
  before     \* events accepted, and not dropped, when it was called

callVars == <<call, queue, dropped>>
lossVars == <<rows, skipped, failed>>
fenceVars == <<flushCh, serving, fence, before>>
vars == <<callVars, buf, lossVars, loop, after, stop, fenceVars, breakerVars>>

-----------------------------------------------------------------------------
(* write: three non-blocking channel operations.                           *)

\* The first select.
WriteSend(e) ==
  /\ call[e] = "none"
  /\ IF Len(queue) < BufferSize
     THEN queue' = Append(queue, e) /\ call' = [call EXCEPT ![e] = "accepted"]
     ELSE call' = [call EXCEPT ![e] = "evict"] /\ UNCHANGED queue
  /\ UNCHANGED <<dropped, buf, lossVars, loop, after, stop, fenceVars, breakerVars>>

\* Mutant: the evicted event is not counted.
WriteEvictSilently(e) ==
  /\ call[e] = "evict"
  /\ call' = [call EXCEPT ![e] = "retry"]
  /\ queue' = IF queue = <<>> THEN queue ELSE Tail(queue)
  /\ UNCHANGED <<dropped, buf, lossVars, loop, after, stop, fenceVars, breakerVars>>

\* The second: drop the oldest, unless the writer has emptied the queue.
WriteEvict(e) ==
  /\ call[e] = "evict"
  /\ call' = [call EXCEPT ![e] = "retry"]
  /\ \/ queue = <<>> /\ UNCHANGED <<queue, dropped>>
     \/ /\ queue # <<>>
        /\ queue' = Tail(queue)
        /\ dropped' = dropped \cup {Head(queue)}
  /\ UNCHANGED <<buf, lossVars, loop, after, stop, fenceVars, breakerVars>>

\* The third: other writers may have filled the place again.
WriteRetry(e) ==
  /\ call[e] = "retry"
  /\ IF Len(queue) < BufferSize
     THEN /\ queue' = Append(queue, e)
          /\ call' = [call EXCEPT ![e] = "accepted"]
          /\ UNCHANGED dropped
     ELSE /\ dropped' = dropped \cup {e}
          /\ call' = [call EXCEPT ![e] = "rejected"]
          /\ UNCHANGED queue
  /\ UNCHANGED <<buf, lossVars, loop, after, stop, fenceVars, breakerVars>>

-----------------------------------------------------------------------------
(* run: the select loop.                                                   *)

TakeTo(next) ==
  /\ queue # <<>>
  /\ queue' = Tail(queue)
  /\ buf' = Append(buf, Head(queue))
  /\ next
  /\ UNCHANGED <<call, dropped, lossVars, stop, fenceVars, breakerVars>>

\* flush() of the loop, then go on at pc.
FlushThen(pc) ==
  IF buf = <<>> THEN loop' = pc /\ UNCHANGED after
                ELSE loop' = "flush" /\ after' = pc

\* case env := <-w.enqueue, in the main loop and in the drain after stop.
Take ==
  /\ loop \in {"select", "drain"}
  /\ TakeTo(IF Len(buf) + 1 >= BatchSize
            THEN loop' = "flush" /\ after' = loop
            ELSE UNCHANGED <<loop, after>>)

\* Mutant: a tick waits for a full batch.
TickFullOnly ==
  /\ loop = "select" /\ Len(buf) >= BatchSize
  /\ FlushThen("select")
  /\ UNCHANGED <<callVars, buf, lossVars, stop, fenceVars, breakerVars>>

Tick ==
  /\ loop = "select" /\ buf # <<>>
  /\ FlushThen("select")
  /\ UNCHANGED <<callVars, buf, lossVars, stop, fenceVars, breakerVars>>

\* Mutant: the fence flushes the buffer without draining the queue.
FenceTakeNoDrain ==
  /\ loop = "select" /\ flushCh # <<>>
  /\ flushCh' = Tail(flushCh)
  /\ serving' = <<Head(flushCh)>>
  /\ FlushThen("signal")
  /\ UNCHANGED <<callVars, buf, lossVars, stop, fence, before, breakerVars>>

\* case done := <-w.flushCh.
FenceTake ==
  /\ loop = "select" /\ flushCh # <<>>
  /\ flushCh' = Tail(flushCh)
  /\ serving' = <<Head(flushCh)>>
  /\ loop' = "fence"
  /\ UNCHANGED <<callVars, buf, lossVars, after, stop, fence, before, breakerVars>>

\* Its drain loop, which does not look at the batch size.
FenceDrain == loop = "fence" /\ TakeTo(UNCHANGED <<loop, after>>)

FenceFlush ==
  /\ loop = "fence" /\ queue = <<>>
  /\ FlushThen("signal")
  /\ UNCHANGED <<callVars, buf, lossVars, stop, fenceVars, breakerVars>>

\* close(done).
FenceSignal ==
  /\ loop = "signal"
  /\ fence' = [c \in Fences |-> IF c \in ToSet(serving) /\ fence[c] = "wait"
                                THEN "signalled" ELSE fence[c]]
  /\ serving' = <<>>
  /\ loop' = "select"
  /\ UNCHANGED <<callVars, buf, lossVars, after, stop, flushCh, before, breakerVars>>

\* case <-w.stop, and the end of its drain.
StopSeen ==
  /\ loop = "select" /\ stop
  /\ loop' = "drain"
  /\ UNCHANGED <<callVars, buf, lossVars, after, stop, fenceVars, breakerVars>>

\* Mutant: the return only leaves the drain, not the loop around it.
DrainEndsInLoop ==
  /\ loop = "drain" /\ queue = <<>>
  /\ FlushThen("select")
  /\ UNCHANGED <<callVars, buf, lossVars, stop, fenceVars, breakerVars>>

DrainEnds ==
  /\ loop = "drain" /\ queue = <<>>
  /\ FlushThen("exited")
  /\ UNCHANGED <<callVars, buf, lossVars, stop, fenceVars, breakerVars>>

-----------------------------------------------------------------------------
(* flush.                                                                  *)

FlushSkipped ==
  /\ loop = "flush" /\ ~Allowed
  /\ skipped' = skipped \cup ToSet(buf)
  /\ buf' = <<>> /\ loop' = after
  /\ UNCHANGED <<callVars, rows, failed, after, stop, fenceVars, breakerVars>>

FlushAdmitted ==
  /\ loop = "flush" /\ Allowed
  /\ Admit
  /\ loop' = "insert"
  /\ UNCHANGED <<callVars, buf, lossVars, after, stop, fenceVars>>

InsertSucceeds ==
  /\ loop = "insert"
  /\ rows' = rows \cup ToSet(buf)
  /\ recordSuccess
  /\ buf' = <<>> /\ loop' = after
  /\ UNCHANGED <<callVars, skipped, failed, after, stop, fenceVars>>

InsertFails ==
  /\ loop = "insert"
  /\ rows' \in {rows, rows \cup ToSet(buf)}
  /\ failed' = failed \cup ToSet(buf)
  /\ recordFailure
  /\ buf' = <<>> /\ loop' = after
  /\ UNCHANGED <<callVars, skipped, after, stop, fenceVars>>

-----------------------------------------------------------------------------
(* flushSync and shutdown.                                                 *)

\* Events that a write has put on the queue, and no later write pushed out.
Accepted == {e \in Events: call[e] = "accepted"} \ dropped

FlushSyncCall(c) ==
  /\ fence[c] = "idle"
  /\ fence' = [fence EXCEPT ![c] = "offer"]
  /\ before' = [before EXCEPT ![c] = Accepted]
  /\ UNCHANGED <<callVars, buf, lossVars, loop, after, stop, flushCh, serving, breakerVars>>

\* Mutant: the request channel holds two requests.
FlushSyncOfferDeep(c) ==
  /\ fence[c] = "offer"
  /\ Len(flushCh) < 2
  /\ flushCh' = Append(flushCh, c)
  /\ fence' = [fence EXCEPT ![c] = "wait"]
  /\ UNCHANGED <<callVars, buf, lossVars, loop, after, stop, serving, before, breakerVars>>

FlushSyncOffer(c) ==
  /\ fence[c] = "offer"
  /\ flushCh = <<>>
  /\ flushCh' = <<c>>
  /\ fence' = [fence EXCEPT ![c] = "wait"]
  /\ UNCHANGED <<callVars, buf, lossVars, loop, after, stop, serving, before, breakerVars>>

\* Mutant: a caller whose request is on the channel waits for the answer only.
FlushSyncStoppedOffer(c) ==
  /\ fence[c] = "offer" /\ stop
  /\ fence' = [fence EXCEPT ![c] = "stopped"]
  /\ UNCHANGED <<callVars, buf, lossVars, loop, after, stop, flushCh, serving, before,
                 breakerVars>>

\* case <-w.stop of either select.
FlushSyncStopped(c) ==
  /\ fence[c] \in {"offer", "wait"} /\ stop
  /\ fence' = [fence EXCEPT ![c] = "stopped"]
  /\ UNCHANGED <<callVars, buf, lossVars, loop, after, stop, flushCh, serving, before,
                 breakerVars>>

Shutdown ==
  /\ ~stop
  /\ stop' = TRUE
  /\ UNCHANGED <<callVars, buf, lossVars, loop, after, fenceVars, breakerVars>>

-----------------------------------------------------------------------------
Init ==
  /\ call = [e \in Events |-> "none"]
  /\ queue = <<>> /\ buf = <<>>
  /\ rows = {} /\ dropped = {} /\ skipped = {} /\ failed = {}
  /\ loop = "select" /\ after = "select" /\ stop = FALSE
  /\ flushCh = <<>> /\ serving = <<>>
  /\ fence = [c \in Fences |-> "idle"]
  /\ before = [c \in Fences |-> {}]
  /\ BreakerInit

WriteStep(e) == WriteSend(e) \/ WriteEvict(e) \/ WriteRetry(e)

\* One turn of the writer goroutine that is not the choice of a select case.
FlushStep == FlushSkipped \/ FlushAdmitted \/ InsertSucceeds \/ InsertFails

LoopStep ==
  \/ Take \/ Tick \/ FenceTake \/ FenceDrain \/ FenceFlush \/ FenceSignal
  \/ StopSeen \/ DrainEnds
  \/ FlushStep

Cooldown ==
  /\ CooldownElapses
  /\ UNCHANGED <<callVars, buf, lossVars, loop, after, stop, fenceVars>>

Next ==
  \/ \E e \in Events: WriteStep(e)
  \/ LoopStep
  \/ \E c \in Fences: FlushSyncCall(c) \/ FlushSyncOffer(c) \/ FlushSyncStopped(c)
  \/ Shutdown
  \/ Cooldown

Spec == Init /\ [][Next]_vars

\* The goroutine runs on; Go's select picks among ready cases at random, so no
\* case that stays ready is passed over for ever.  The callers of flushSync
\* run on as well.  Nothing is assumed of the store, nor that anybody writes.
Fairness ==
  /\ WF_vars(LoopStep)
  /\ SF_vars(StopSeen) /\ SF_vars(Tick) /\ SF_vars(FenceTake)
  /\ \A c \in Fences: SF_vars(FlushSyncOffer(c)) /\ WF_vars(FlushSyncStopped(c))

FairSpec == Spec /\ Fairness

-----------------------------------------------------------------------------
(* Properties.                                                             *)

\* Type invariant.
TypeOK ==
  /\ call \in [Events -> {"none", "evict", "retry", "accepted", "rejected"}]
  /\ queue \in Seq(Events) /\ Len(queue) <= BufferSize
  /\ buf \in Seq(Events)
  /\ rows \subseteq Events /\ dropped \subseteq Events
  /\ skipped \subseteq Events /\ failed \subseteq Events
  /\ loop \in {"select", "fence", "signal", "drain", "exited", "flush", "insert"}
  /\ after \in {"select", "signal", "drain", "exited"}
  /\ stop \in BOOLEAN
  /\ flushCh \in Seq(Fences) /\ Len(flushCh) <= 1
  /\ serving \in Seq(Fences)
  /\ fence \in [Fences -> {"idle", "offer", "wait", "signalled", "stopped"}]
  /\ before \in [Fences -> SUBSET Events]
  /\ BreakerTypeOK

\* An event whose fate is known.
Decided(e) == e \in rows \cup dropped \cup skipped \cup failed

\* No event vanishes and none is handled twice: an event whose write is over
\* is in exactly one of the queue, the buffer and the decided ones, whatever
\* evictions, fences, failing inserts and the shutdown drain do.
NoSilentLoss ==
  /\ \A e \in Events: call[e] \in {"accepted", "rejected"} =>
       (e \in ToSet(queue) \cup ToSet(buf)) # Decided(e)
  /\ ToSet(queue) \cap ToSet(buf) = {}
  /\ dropped \cap (rows \cup skipped \cup failed) = {}

\* A fence is a fence: when the writer answers flushSync, every event accepted
\* before the call has been through an insert, a skip or an eviction.
FenceMeansDecided ==
  \A c \in Fences: fence[c] = "signalled" => \A e \in before[c]: Decided(e)

\* recordSuccess: "Open is impossible at record-time".  And a probe always ends:
\* outside an insert the breaker is never half open, where it would refuse
\* every later flush.
ProbeEnds ==
  /\ loop = "insert" => state # "open"
  /\ loop # "insert" => state # "half_open" /\ ~probeInUse

\* A run of Threshold failures opens the breaker: a closed one has seen fewer.
ClosedMeansBelowThreshold == Enabled /\ state = "closed" => consecFail < Threshold

\* Every event accepted while the writer runs is decided in the end, a lone one
\* in a partial batch included.
EventuallyDecided ==
  \A e \in Events: call[e] = "accepted" ~> (Decided(e) \/ loop = "exited")

\* flushSync returns, also when shutdown races it.
FlushSyncReturns ==
  \A c \in Fences: fence[c] # "idle" ~> fence[c] \in {"signalled", "stopped"}

\* shutdown returns: the goroutine leaves its loop.
ShutdownReturns == stop ~> loop = "exited"
=============================================================================
