------------------------- MODULE BatchWriterProofs -------------------------
(***************************************************************************)
(* Proofs about BatchWriter, for any number of events and flushSync        *)
(* callers, any queue and batch size and any breaker configuration.        *)
(***************************************************************************)
EXTENDS BatchWriter, TLAPS

(* The breaker alone: its fields keep their types.                         *)
LEMMA BreakerTypes ==
  ASSUME BreakerTypeOK, recordSuccess \/ recordFailure \/ Admit \/ CooldownElapses
         \/ UNCHANGED breakerVars
  PROVE  BreakerTypeOK'
<1>1. consecFail' \in Nat
  BY DEF BreakerTypeOK, breakerVars, recordSuccess, recordFailure, Admit, CooldownElapses
<1>2. state' \in {"closed", "half_open", "open"}
  BY DEF BreakerTypeOK, breakerVars, recordSuccess, recordFailure, Admit, CooldownElapses
<1>3. probeInUse' \in BOOLEAN /\ cooled' \in BOOLEAN
  BY DEF BreakerTypeOK, breakerVars, recordSuccess, recordFailure, Admit, CooldownElapses
<1>4. QED BY <1>1, <1>2, <1>3 DEF BreakerTypeOK

(* A queue that one channel operation changes stays within its capacity.   *)
LEMMA QueueBound ==
  ASSUME NEW S, NEW q \in Seq(S), NEW e \in S, NEW n \in Nat, Len(q) <= n
  PROVE  /\ Len(q) < n => Append(q, e) \in Seq(S) /\ Len(Append(q, e)) <= n
         /\ q # << >> => Tail(q) \in Seq(S) /\ Len(Tail(q)) <= n /\ Head(q) \in S
OBVIOUS

LEMMA TypeStep == TypeOK /\ [Next]_vars => TypeOK'
<1> SUFFICES ASSUME TypeOK, [Next]_vars PROVE TypeOK'
  OBVIOUS
<1> USE DEF TypeOK, callVars, lossVars, fenceVars
<1>1. ASSUME NEW e \in Events, WriteStep(e) PROVE TypeOK'
  <2>1. CASE WriteSend(e)
    <3>1. queue' \in Seq(Events) /\ Len(queue') <= BufferSize
      <4>1. queue \in Seq(Events) /\ BufferSize \in Nat /\ Len(queue) <= BufferSize
        BY WriterAssumption
      <4>2. \/ queue' = queue
            \/ queue # << >> /\ queue' = Tail(queue)
            \/ Len(queue) < BufferSize /\ queue' = Append(queue, e)
        BY <2>1 DEF WriteSend
      <4> HIDE DEF TypeOK
      <4>3. QED BY <4>1, <4>2, QueueBound
    <3>2. call' \in [Events -> {"none", "evict", "retry", "accepted", "rejected"}]
      BY <2>1 DEF WriteSend
    <3>3. dropped' \subseteq Events
      BY <2>1 DEF WriteSend
    <3>4. QED BY <2>1, <3>1, <3>2, <3>3, BreakerTypes DEF WriteSend
  <2>2. CASE WriteEvict(e)
    <3>1. queue' \in Seq(Events) /\ Len(queue') <= BufferSize
      <4>1. queue \in Seq(Events) /\ BufferSize \in Nat /\ Len(queue) <= BufferSize
        BY WriterAssumption
      <4>2. \/ queue' = queue
            \/ queue # << >> /\ queue' = Tail(queue)
            \/ Len(queue) < BufferSize /\ queue' = Append(queue, e)
        BY <2>2 DEF WriteEvict
      <4> HIDE DEF TypeOK
      <4>3. QED BY <4>1, <4>2, QueueBound
    <3>2. call' \in [Events -> {"none", "evict", "retry", "accepted", "rejected"}]
      BY <2>2 DEF WriteEvict
    <3>3. dropped' \subseteq Events
      BY <2>2 DEF WriteEvict
    <3>4. QED BY <2>2, <3>1, <3>2, <3>3, BreakerTypes DEF WriteEvict
  <2>3. CASE WriteRetry(e)
    <3>1. queue' \in Seq(Events) /\ Len(queue') <= BufferSize
      <4>1. queue \in Seq(Events) /\ BufferSize \in Nat /\ Len(queue) <= BufferSize
        BY WriterAssumption
      <4>2. \/ queue' = queue
            \/ queue # << >> /\ queue' = Tail(queue)
            \/ Len(queue) < BufferSize /\ queue' = Append(queue, e)
        BY <2>3 DEF WriteRetry
      <4> HIDE DEF TypeOK
      <4>3. QED BY <4>1, <4>2, QueueBound
    <3>2. call' \in [Events -> {"none", "evict", "retry", "accepted", "rejected"}]
      BY <2>3 DEF WriteRetry
    <3>3. dropped' \subseteq Events
      BY <2>3 DEF WriteRetry
    <3>4. QED BY <2>3, <3>1, <3>2, <3>3, BreakerTypes DEF WriteRetry
  <2>4. QED BY <1>1, <2>1, <2>2, <2>3 DEF WriteStep
<1>2. CASE Take
  BY <1>2, BreakerTypes, WriterAssumption DEF Take, TakeTo
<1>3. CASE Tick \/ StopSeen \/ DrainEnds \/ FenceFlush
  BY <1>3, BreakerTypes DEF Tick, StopSeen, DrainEnds, FenceFlush, FlushThen
<1>4. CASE FenceTake
  BY <1>4, BreakerTypes DEF FenceTake
<1>5. CASE FenceDrain
  BY <1>5, BreakerTypes, WriterAssumption DEF FenceDrain, TakeTo
<1>6. CASE FenceSignal
  BY <1>6, BreakerTypes DEF FenceSignal
<1>7. CASE FlushSkipped
  BY <1>7, BreakerTypes DEF FlushSkipped, ToSet
<1>8. CASE FlushAdmitted
  BY <1>8, BreakerTypes DEF FlushAdmitted
<1>9. CASE InsertSucceeds
  BY <1>9, BreakerTypes DEF InsertSucceeds, ToSet
<1>10. CASE InsertFails
  BY <1>10, BreakerTypes DEF InsertFails, ToSet
<1>11. ASSUME NEW c \in Fences,
              FlushSyncCall(c) \/ FlushSyncOffer(c) \/ FlushSyncStopped(c)
       PROVE  TypeOK'
  <2>1. CASE FlushSyncCall(c)
    BY <2>1, BreakerTypes DEF FlushSyncCall, Accepted
  <2>2. CASE FlushSyncOffer(c)
    BY <2>2, BreakerTypes DEF FlushSyncOffer
  <2>3. CASE FlushSyncStopped(c)
    BY <2>3, BreakerTypes DEF FlushSyncStopped
  <2>4. QED BY <1>11, <2>1, <2>2, <2>3
<1>12. CASE Shutdown
  BY <1>12, BreakerTypes DEF Shutdown
<1>13. CASE Cooldown
  BY <1>13, BreakerTypes DEF Cooldown
<1>14. CASE UNCHANGED vars
  BY <1>14, BreakerTypes DEF vars
<1> HIDE DEF TypeOK, callVars, lossVars, fenceVars
<1>15. QED
  BY <1>1, <1>2, <1>3, <1>4, <1>5, <1>6, <1>7, <1>8, <1>9, <1>10, <1>11, <1>12, <1>13,
     <1>14 DEF Next, LoopStep, FlushStep

-----------------------------------------------------------------------------
(* Sequences without repetition, as Append and Tail change them.           *)

Distinct(q) == \A i, j \in 1 .. Len(q): q[i] = q[j] => i = j

LEMMA SetAppend ==
  ASSUME NEW S, NEW q \in Seq(S), NEW e \in S
  PROVE  /\ ToSet(Append(q, e)) = ToSet(q) \cup {e}
         /\ Distinct(q) /\ e \notin ToSet(q) => Distinct(Append(q, e))
<1>1. ASSUME NEW x \in ToSet(Append(q, e)) PROVE x \in ToSet(q) \cup {e}
  BY DEF ToSet
<1>2. ASSUME NEW x \in ToSet(q) PROVE x \in ToSet(Append(q, e))
  <2>1. PICK i \in 1 .. Len(q): x = q[i] BY DEF ToSet
  <2>2. i \in DOMAIN Append(q, e) /\ Append(q, e)[i] = x BY <2>1
  <2>3. QED BY <2>2 DEF ToSet
<1>3. e \in ToSet(Append(q, e))
  <2>1. Len(q) + 1 \in DOMAIN Append(q, e) /\ Append(q, e)[Len(q) + 1] = e OBVIOUS
  <2>2. QED BY <2>1 DEF ToSet
<1>4. ASSUME Distinct(q), e \notin ToSet(q) PROVE Distinct(Append(q, e))
  BY <1>4 DEF Distinct, ToSet
<1>5. QED BY <1>1, <1>2, <1>3, <1>4

LEMMA SetTail ==
  ASSUME NEW S, NEW q \in Seq(S), q # << >>
  PROVE  /\ Head(q) \in S /\ Tail(q) \in Seq(S)
         /\ ToSet(q) = {Head(q)} \cup ToSet(Tail(q))
         /\ Distinct(q) => Distinct(Tail(q)) /\ Head(q) \notin ToSet(Tail(q))
<1>0. Len(q) \in Nat /\ Len(q) > 0 /\ Head(q) = q[1] /\ Head(q) \in S /\ Tail(q) \in Seq(S)
  OBVIOUS
<1>1. ASSUME NEW x \in ToSet(q) PROVE x \in {Head(q)} \cup ToSet(Tail(q))
  <2>1. PICK i \in 1 .. Len(q): x = q[i] BY DEF ToSet
  <2>2. CASE i = 1 BY <1>0, <2>1, <2>2
  <2>3. CASE i # 1
    <3>1. i - 1 \in DOMAIN Tail(q) /\ Tail(q)[i - 1] = x BY <1>0, <2>1, <2>3
    <3>2. QED BY <3>1 DEF ToSet
  <2>4. QED BY <2>2, <2>3
<1>2. ASSUME NEW x \in ToSet(Tail(q))
      PROVE  x \in ToSet(q) /\ (Distinct(q) => x # Head(q))
  <2>1. PICK i \in DOMAIN Tail(q): x = Tail(q)[i] BY DEF ToSet
  <2>2. i + 1 \in 1 .. Len(q) /\ i + 1 # 1 /\ q[i + 1] = x BY <1>0, <2>1
  <2>3. QED BY <1>0, <2>2 DEF ToSet, Distinct
<1>3. Head(q) \in ToSet(q)
  <2>1. 1 \in DOMAIN q BY <1>0
  <2>2. QED BY <1>0, <2>1 DEF ToSet
<1>4. Distinct(q) => Distinct(Tail(q))
  BY <1>0 DEF Distinct
<1>5. QED BY <1>0, <1>1, <1>2, <1>3, <1>4

-----------------------------------------------------------------------------
(* Conservation of events.                                                 *)

Fate == rows \cup dropped \cup skipped \cup failed

\* Where every event is.  The queue and the buffer hold each event at most
\* once: otherwise moving or evicting its head would leave a second copy.
FlowInv ==
  /\ Distinct(queue) /\ Distinct(buf)
  /\ ToSet(queue) \cap ToSet(buf) = {}
  /\ \A e \in ToSet(queue) \cup ToSet(buf): call[e] = "accepted"
  /\ (ToSet(queue) \cup ToSet(buf)) \cap Fate = {}
  /\ \A e \in Events: call[e] \in {"none", "evict", "retry"} => e \notin Fate
  /\ \A e \in Events: call[e] \in {"accepted", "rejected"} =>
       e \in ToSet(queue) \cup ToSet(buf) \cup Fate
  /\ dropped \cap (rows \cup skipped \cup failed) = {}

(* What a step does to the events: one goes onto the queue, waits for a    *)
(* place, pushes the oldest out, is rejected; the oldest goes to the       *)
(* buffer; or the whole buffer meets its fate.                             *)
FlowEnter(e) ==
  /\ call[e] \in {"none", "retry"}
  /\ queue' = Append(queue, e)
  /\ call' = [call EXCEPT ![e] = "accepted"]
  /\ UNCHANGED <<buf, rows, dropped, skipped, failed>>

FlowWait(e) ==
  /\ \/ call[e] = "none" /\ call' = [call EXCEPT ![e] = "evict"]
     \/ call[e] = "evict" /\ call' = [call EXCEPT ![e] = "retry"]
  /\ UNCHANGED <<queue, buf, rows, dropped, skipped, failed>>

FlowEvict(e) ==
  /\ call[e] = "evict" /\ call' = [call EXCEPT ![e] = "retry"]
  /\ queue # << >> /\ queue' = Tail(queue)
  /\ dropped' = dropped \cup {Head(queue)}
  /\ UNCHANGED <<buf, rows, skipped, failed>>

FlowReject(e) ==
  /\ call[e] = "retry" /\ call' = [call EXCEPT ![e] = "rejected"]
  /\ dropped' = dropped \cup {e}
  /\ UNCHANGED <<queue, buf, rows, skipped, failed>>

FlowBuffer ==
  /\ queue # << >> /\ queue' = Tail(queue)
  /\ buf' = Append(buf, Head(queue))
  /\ UNCHANGED <<call, rows, dropped, skipped, failed>>

FlowSettle ==
  /\ buf' = << >>
  /\ rows' \in {rows, rows \cup ToSet(buf)}
  /\ skipped' \in {skipped, skipped \cup ToSet(buf)}
  /\ failed' \in {failed, failed \cup ToSet(buf)}
  /\ Fate' = Fate \cup ToSet(buf)
  /\ UNCHANGED <<call, queue, dropped>>

Flow ==
  \/ \E e \in Events: FlowEnter(e) \/ FlowWait(e) \/ FlowEvict(e) \/ FlowReject(e)
  \/ FlowBuffer \/ FlowSettle
  \/ UNCHANGED <<call, queue, buf, rows, dropped, skipped, failed>>

LEMMA FlowStep == [Next]_vars => Flow
<1> SUFFICES ASSUME [Next]_vars PROVE Flow
  OBVIOUS
<1> USE DEF callVars, lossVars
<1>1. ASSUME NEW e \in Events, WriteStep(e) PROVE Flow
  <2>1. CASE WriteSend(e) BY <2>1 DEF WriteSend, Flow, FlowEnter, FlowWait
  <2>2. CASE WriteEvict(e) BY <2>2 DEF WriteEvict, Flow, FlowWait, FlowEvict
  <2>3. CASE WriteRetry(e) BY <2>3 DEF WriteRetry, Flow, FlowEnter, FlowReject
  <2>4. QED BY <1>1, <2>1, <2>2, <2>3 DEF WriteStep
<1>2. CASE Take \/ FenceDrain
  BY <1>2 DEF Take, FenceDrain, TakeTo, Flow, FlowBuffer
<1>3. CASE Tick \/ StopSeen \/ DrainEnds \/ FenceFlush \/ FenceTake \/ FenceSignal
  BY <1>3 DEF Tick, StopSeen, DrainEnds, FenceFlush, FenceTake, FenceSignal, Flow
<1>4. CASE FlushSkipped
  BY <1>4 DEF FlushSkipped, Flow, FlowSettle, Fate
<1>5. CASE FlushAdmitted
  BY <1>5 DEF FlushAdmitted, Flow
<1>6. CASE InsertSucceeds
  BY <1>6 DEF InsertSucceeds, Flow, FlowSettle, Fate
<1>7. CASE InsertFails
  BY <1>7 DEF InsertFails, Flow, FlowSettle, Fate
<1>8. ASSUME NEW c \in Fences,
             FlushSyncCall(c) \/ FlushSyncOffer(c) \/ FlushSyncStopped(c)
      PROVE  Flow
  BY <1>8 DEF FlushSyncCall, FlushSyncOffer, FlushSyncStopped, Flow
<1>9. CASE Shutdown \/ Cooldown \/ UNCHANGED vars
  BY <1>9 DEF Shutdown, Cooldown, vars, Flow
<1> HIDE DEF callVars, lossVars
<1>10. QED
  BY <1>1, <1>2, <1>3, <1>4, <1>5, <1>6, <1>7, <1>8, <1>9 DEF Next, LoopStep, FlushStep

LEMMA FlowInvStep == TypeOK /\ FlowInv /\ [Next]_vars => FlowInv'
<1> SUFFICES ASSUME TypeOK, FlowInv, Flow PROVE FlowInv'
  BY FlowStep
<1>0. /\ queue \in Seq(Events) /\ buf \in Seq(Events)
      /\ call \in [Events -> {"none", "evict", "retry", "accepted", "rejected"}]
      /\ ToSet(queue) \subseteq Events /\ ToSet(buf) \subseteq Events
  BY DEF TypeOK, ToSet
<1>1. ASSUME NEW e \in Events, FlowEnter(e) PROVE FlowInv'
  <2>1. e \notin ToSet(queue) \cup ToSet(buf) \cup Fate BY <1>0, <1>1 DEF FlowInv, FlowEnter
  <2>2. ToSet(queue') = ToSet(queue) \cup {e} /\ Distinct(queue')
    BY <1>0, <1>1, <2>1, SetAppend DEF FlowInv, FlowEnter
  <2>3. QED BY <1>0, <1>1, <2>1, <2>2 DEF FlowInv, FlowEnter, Fate
<1>2. ASSUME NEW e \in Events, FlowWait(e) PROVE FlowInv'
  BY <1>0, <1>2 DEF FlowInv, FlowWait, Fate
<1>3. ASSUME NEW e \in Events, FlowEvict(e) PROVE FlowInv'
  <2>1. /\ ToSet(queue) = {Head(queue)} \cup ToSet(queue')
        /\ Distinct(queue') /\ Head(queue) \notin ToSet(queue')
    BY <1>0, <1>3, SetTail DEF FlowInv, FlowEvict
  <2>2. call[Head(queue)] = "accepted" /\ Head(queue) \notin ToSet(buf) \cup Fate
    BY <2>1 DEF FlowInv
  <2>3. QED BY <1>0, <1>3, <2>1, <2>2 DEF FlowInv, FlowEvict, Fate
<1>4. ASSUME NEW e \in Events, FlowReject(e) PROVE FlowInv'
  <2>1. e \notin ToSet(queue) \cup ToSet(buf) \cup Fate BY <1>0, <1>4 DEF FlowInv, FlowReject
  <2>2. QED BY <1>0, <1>4, <2>1 DEF FlowInv, FlowReject, Fate
<1>5. CASE FlowBuffer
  <2>1. /\ ToSet(queue) = {Head(queue)} \cup ToSet(queue')
        /\ Distinct(queue') /\ Head(queue) \notin ToSet(queue') /\ Head(queue) \in Events
    BY <1>0, <1>5, SetTail DEF FlowInv, FlowBuffer
  <2>2. call[Head(queue)] = "accepted" /\ Head(queue) \notin ToSet(buf) \cup Fate
    BY <2>1 DEF FlowInv
  <2>3. ToSet(buf') = ToSet(buf) \cup {Head(queue)} /\ Distinct(buf')
    BY <1>0, <1>5, <2>1, <2>2, SetAppend DEF FlowInv, FlowBuffer
  <2>4. QED BY <1>0, <1>5, <2>1, <2>2, <2>3 DEF FlowInv, FlowBuffer, Fate
<1>6. CASE FlowSettle
  <2>1. ToSet(buf') = {} /\ Distinct(buf') BY <1>6 DEF FlowSettle, ToSet, Distinct
  <2>2. dropped' \cap (rows' \cup skipped' \cup failed') = {}
    BY <1>6 DEF FlowInv, FlowSettle, Fate
  <2>3. queue' = queue /\ call' = call /\ Fate' = Fate \cup ToSet(buf)
    BY <1>6 DEF FlowSettle
  <2>4. QED BY <1>0, <2>1, <2>2, <2>3 DEF FlowInv
<1>7. CASE UNCHANGED <<call, queue, buf, rows, dropped, skipped, failed>>
  BY <1>7 DEF FlowInv, Fate
<1>8. QED BY <1>1, <1>2, <1>3, <1>4, <1>5, <1>6, <1>7 DEF Flow

-----------------------------------------------------------------------------
(* The fence.                                                              *)

LEMMA FlowMono ==
  ASSUME TypeOK, Flow
  PROVE  /\ Fate \subseteq Fate'
         /\ ToSet(buf) \subseteq ToSet(buf') \cup Fate'
         /\ \A e \in Events: call[e] = "accepted" => call'[e] = "accepted"
<1>0. /\ buf \in Seq(Events) /\ queue \in Seq(Events)
      /\ call \in [Events -> {"none", "evict", "retry", "accepted", "rejected"}]
  BY DEF TypeOK
<1>1. Fate \subseteq Fate'
  BY DEF Flow, FlowEnter, FlowWait, FlowEvict, FlowReject, FlowBuffer, FlowSettle, Fate
<1>2. ToSet(buf) \subseteq ToSet(buf') \cup Fate'
  <2>1. CASE FlowBuffer BY <1>0, <2>1, SetAppend, SetTail DEF FlowBuffer
  <2>2. CASE FlowSettle BY <2>2 DEF FlowSettle
  <2>3. CASE buf' = buf BY <2>3
  <2>4. QED BY <2>1, <2>2, <2>3 DEF Flow, FlowEnter, FlowWait, FlowEvict, FlowReject
<1>3. \A e \in Events: call[e] = "accepted" => call'[e] = "accepted"
  BY <1>0 DEF Flow, FlowEnter, FlowWait, FlowEvict, FlowReject, FlowBuffer, FlowSettle
<1>4. QED BY <1>1, <1>2, <1>3

\* While a fence is served, what was accepted before it moves from the queue to
\* the buffer, and from there to its fate before the answer.
FenceInv ==
  /\ \A c \in ToSet(flushCh) \cup ToSet(serving): fence[c] # "idle"
  /\ \A c \in Fences: \A e \in before[c]: call[e] = "accepted"
  /\ loop \in {"flush", "insert"} /\ after = "signal" =>
       \A c \in ToSet(serving): before[c] \subseteq ToSet(buf) \cup Fate
  /\ loop = "signal" => \A c \in ToSet(serving): before[c] \subseteq Fate
  /\ \A c \in Fences: fence[c] = "signalled" => before[c] \subseteq Fate

(* A step that leaves the callers of flushSync alone keeps the invariant   *)
(* if it keeps its two conjuncts about the writer's position.              *)
LEMMA FenceFrame ==
  ASSUME TypeOK, FenceInv, Flow, UNCHANGED <<flushCh, serving, fence, before>>,
         loop' \in {"flush", "insert"} /\ after' = "signal" =>
           \A c \in ToSet(serving): before[c] \subseteq ToSet(buf') \cup Fate',
         loop' = "signal" => \A c \in ToSet(serving): before[c] \subseteq Fate'
  PROVE  FenceInv'
<1>1. before \in [Fences -> SUBSET Events] BY DEF TypeOK
<1>2. QED BY <1>1, FlowMono DEF FenceInv

LEMMA FenceStep == TypeOK /\ FlowInv /\ FenceInv /\ [Next]_vars => FenceInv'
<1> SUFFICES ASSUME TypeOK, FlowInv, FenceInv, [Next]_vars PROVE FenceInv'
  OBVIOUS
<1>a. Flow BY FlowStep
<1>b. /\ ToSet(serving) \subseteq Fences /\ ToSet(flushCh) \subseteq Fences
      /\ flushCh \in Seq(Fences) /\ fence \in [Fences -> {"idle", "offer", "wait", "signalled", "stopped"}]
      /\ before \in [Fences -> SUBSET Events]
      /\ loop \in {"select", "fence", "signal", "drain", "exited", "flush", "insert"}
  BY DEF TypeOK, ToSet
<1>c. queue = << >> => \A c \in Fences: before[c] \subseteq ToSet(buf) \cup Fate
  BY <1>b DEF FenceInv, FlowInv, ToSet
<1>d. ToSet(<< >>) = {} BY DEF ToSet
<1>1. ASSUME NEW e \in Events, WriteStep(e) PROVE FenceInv'
  <2>1. UNCHANGED <<flushCh, serving, fence, before, loop, after, buf>>
    BY <1>1 DEF WriteStep, WriteSend, WriteEvict, WriteRetry, fenceVars
  <2>2. QED BY <1>a, <1>b, <2>1, FlowMono, FenceFrame DEF FenceInv
<1>2. CASE Take \/ FenceDrain \/ Tick \/ StopSeen \/ DrainEnds
  BY <1>a, <1>2, FenceFrame DEF Take, FenceDrain, TakeTo, Tick, StopSeen, DrainEnds,
     FlushThen, fenceVars
<1>3. CASE FenceFlush
  <2>1. UNCHANGED <<flushCh, serving, fence, before, buf>> /\ Fate' = Fate
    BY <1>3 DEF FenceFlush, fenceVars, callVars, lossVars, Fate
  <2>2. \A c \in Fences: before[c] \subseteq ToSet(buf) \cup Fate
    BY <1>3, <1>c DEF FenceFlush
  <2>3. loop' = "signal" => buf = << >> BY <1>3 DEF FenceFlush, FlushThen
  <2>4. QED BY <1>a, <1>b, <1>d, <2>1, <2>2, <2>3, FenceFrame
<1>4. CASE FenceTake
  <2>1. PICK c \in Fences: flushCh = <<c>>
    BY <1>4, <1>b DEF FenceTake, TypeOK
  <2>2. ToSet(flushCh) = {c} /\ ToSet(flushCh') = {} /\ ToSet(serving') = {c}
    BY <1>4, <2>1 DEF FenceTake, ToSet
  <2>3. UNCHANGED <<fence, before, call, rows, dropped, skipped, failed>> /\ loop' = "fence"
    BY <1>4 DEF FenceTake, callVars, lossVars
  <2>4. QED BY <2>2, <2>3 DEF FenceInv, Fate
<1>5. CASE FenceSignal
  <2>1. /\ UNCHANGED <<flushCh, before, call, rows, dropped, skipped, failed>>
        /\ loop' = "select" /\ ToSet(serving') = {}
        /\ fence' = [c \in Fences |-> IF c \in ToSet(serving) /\ fence[c] = "wait"
                                      THEN "signalled" ELSE fence[c]]
    BY <1>5, <1>d DEF FenceSignal, callVars, lossVars
  <2>2. \A c \in ToSet(serving): before[c] \subseteq Fate BY <1>5 DEF FenceSignal, FenceInv
  <2>3. QED BY <1>b, <2>1, <2>2 DEF FenceInv, Fate
<1>6. CASE FlushSkipped
  <2>1. /\ loop = "flush" /\ loop' = after /\ after' = after
        /\ UNCHANGED <<flushCh, serving, fence, before>>
        /\ Fate' = Fate \cup ToSet(buf)
    BY <1>6 DEF FlushSkipped, fenceVars, callVars, Fate
  <2>2. QED BY <1>a, <2>1, FenceFrame DEF FenceInv, TypeOK
<1>7. CASE FlushAdmitted
  <2>1. /\ loop = "flush" /\ loop' = "insert"
        /\ UNCHANGED <<flushCh, serving, fence, before, after, buf>> /\ Fate' = Fate
    BY <1>7 DEF FlushAdmitted, fenceVars, callVars, lossVars, Fate
  <2>2. QED BY <1>a, <2>1, FenceFrame DEF FenceInv
<1>8. CASE InsertSucceeds \/ InsertFails
  <2>1. /\ loop = "insert" /\ loop' = after /\ after' = after
        /\ UNCHANGED <<flushCh, serving, fence, before>>
        /\ Fate' = Fate \cup ToSet(buf)
    BY <1>8 DEF InsertSucceeds, InsertFails, fenceVars, callVars, Fate
  <2>2. QED BY <1>a, <2>1, FenceFrame DEF FenceInv, TypeOK
<1>9. ASSUME NEW c \in Fences, FlushSyncCall(c) PROVE FenceInv'
  <2>1. /\ fence[c] = "idle" /\ fence' = [fence EXCEPT ![c] = "offer"]
        /\ before' = [before EXCEPT ![c] = Accepted]
        /\ UNCHANGED <<flushCh, serving, loop, after, buf, call>> /\ Fate' = Fate
    BY <1>9 DEF FlushSyncCall, callVars, lossVars, Fate
  <2>2. \A e \in Accepted: call[e] = "accepted" BY DEF Accepted
  <2>3. QED BY <1>b, <2>1, <2>2 DEF FenceInv
<1>10. ASSUME NEW c \in Fences, FlushSyncOffer(c) PROVE FenceInv'
  <2>1. /\ fence[c] = "offer" /\ fence' = [fence EXCEPT ![c] = "wait"]
        /\ flushCh' = <<c>>
        /\ UNCHANGED <<before, serving, loop, after, buf, call>> /\ Fate' = Fate
    BY <1>10 DEF FlushSyncOffer, callVars, lossVars, Fate
  <2>2. ToSet(flushCh') = {c} BY <2>1 DEF ToSet
  <2>3. QED BY <1>b, <2>1, <2>2 DEF FenceInv
<1>11. ASSUME NEW c \in Fences, FlushSyncStopped(c) PROVE FenceInv'
  <2>1. /\ fence' = [fence EXCEPT ![c] = "stopped"]
        /\ UNCHANGED <<flushCh, before, serving, loop, after, buf, call>> /\ Fate' = Fate
    BY <1>11 DEF FlushSyncStopped, callVars, lossVars, Fate
  <2>2. QED BY <1>b, <2>1 DEF FenceInv
<1>12. CASE Shutdown \/ Cooldown \/ UNCHANGED vars
  <2>1. UNCHANGED <<flushCh, serving, fence, before, loop, after, buf>>
    BY <1>12 DEF Shutdown, Cooldown, vars, fenceVars
  <2>2. QED BY <1>a, <1>b, <2>1, FlowMono, FenceFrame DEF FenceInv
<1>13. QED
  BY <1>1, <1>2, <1>3, <1>4, <1>5, <1>6, <1>7, <1>8, <1>9, <1>10, <1>11, <1>12
     DEF Next, LoopStep, FlushStep

-----------------------------------------------------------------------------
(* The breaker under its only caller.                                      *)

ProbeInv ==
  /\ ProbeEnds
  /\ probeInUse => state = "half_open"
  /\ ~Enabled => state = "closed"
  /\ ClosedMeansBelowThreshold

LEMMA ProbeStep == TypeOK /\ ProbeInv /\ [Next]_vars => ProbeInv'
<1> SUFFICES ASSUME TypeOK, ProbeInv, [Next]_vars PROVE ProbeInv'
  OBVIOUS
<1>0. /\ BreakerTypeOK /\ Threshold \in Nat
      /\ after \in {"select", "signal", "drain", "exited"}
  BY BreakerAssumption DEF TypeOK
<1>1. CASE UNCHANGED breakerVars /\ (loop = "insert" <=> loop' = "insert")
  BY <1>1 DEF ProbeInv, ProbeEnds, ClosedMeansBelowThreshold, breakerVars, Enabled
<1>2. CASE FlushAdmitted
  <2>1. loop = "flush" /\ loop' = "insert" /\ Allowed /\ Admit BY <1>2 DEF FlushAdmitted
  <2>2. CASE Enabled /\ state = "open"
    BY <2>1, <2>2 DEF Admit, ProbeInv, ProbeEnds, ClosedMeansBelowThreshold
  <2>3. CASE ~(Enabled /\ state = "open")
    BY <1>0, <2>1, <2>3
       DEF Admit, ProbeInv, ProbeEnds, ClosedMeansBelowThreshold, breakerVars, BreakerTypeOK
  <2>4. QED BY <2>2, <2>3
<1>3. CASE InsertSucceeds
  <2>1. loop = "insert" /\ loop' = after /\ recordSuccess BY <1>3 DEF InsertSucceeds
  <2>2. loop' # "insert" BY <1>0, <2>1
  <2>3. state # "open" /\ state \in {"closed", "half_open", "open"}
    BY <1>0, <2>1 DEF ProbeInv, ProbeEnds, BreakerTypeOK
  <2>4. state' = "closed"
    BY <2>1, <2>3 DEF recordSuccess, ProbeInv, breakerVars
  <2>5. ~probeInUse' BY <2>1, <2>3, <1>0 DEF recordSuccess, ProbeInv, breakerVars, BreakerTypeOK
  <2>6. Enabled => consecFail' < Threshold BY <1>0, <2>1 DEF recordSuccess, Enabled
  <2>7. QED BY <2>2, <2>4, <2>5, <2>6 DEF ProbeInv, ProbeEnds, ClosedMeansBelowThreshold, Enabled
<1>4. CASE InsertFails
  <2>1. loop = "insert" /\ loop' = after /\ recordFailure BY <1>4 DEF InsertFails
  <2>2. loop' # "insert" BY <1>0, <2>1
  <2>3. state \in {"closed", "half_open"}
    BY <1>0, <2>1 DEF ProbeInv, ProbeEnds, BreakerTypeOK
  <2>4. CASE state = "half_open"
    <3>1. Enabled BY <2>4 DEF ProbeInv
    <3>2. state' = "open" /\ ~probeInUse' BY <2>1, <2>4, <3>1 DEF recordFailure
    <3>3. QED BY <2>2, <3>1, <3>2 DEF ProbeInv, ProbeEnds, ClosedMeansBelowThreshold, Enabled
  <2>5. CASE state = "closed" /\ Enabled
    <3>1. ~probeInUse' BY <2>1, <2>5 DEF recordFailure, ProbeInv
    <3>2. state' = "open" \/ (state' = "closed" /\ consecFail' < Threshold)
      <4>1. /\ consecFail' = consecFail + 1
            /\ state' = IF consecFail + 1 >= Threshold THEN "open" ELSE "closed"
        BY <2>1, <2>5 DEF recordFailure
      <4>2. consecFail \in Nat BY <1>0 DEF BreakerTypeOK
      <4>3. QED BY <1>0, <4>1, <4>2
    <3>3. QED BY <2>2, <2>5, <3>1, <3>2 DEF ProbeInv, ProbeEnds, ClosedMeansBelowThreshold, Enabled
  <2>6. CASE state = "closed" /\ ~Enabled
    <3>1. UNCHANGED breakerVars BY <2>1, <2>6 DEF recordFailure
    <3>2. QED BY <2>2, <2>6, <3>1
            DEF ProbeInv, ProbeEnds, ClosedMeansBelowThreshold, Enabled, breakerVars
  <2>7. QED BY <2>3, <2>4, <2>5, <2>6
<1>5. CASE Cooldown
  BY <1>5 DEF Cooldown, CooldownElapses, ProbeInv, ProbeEnds, ClosedMeansBelowThreshold, Enabled
<1>6. ASSUME NEW e \in Events, WriteStep(e) PROVE ProbeInv'
  BY <1>1, <1>6 DEF WriteStep, WriteSend, WriteEvict, WriteRetry
<1>7. CASE Take \/ Tick \/ FenceTake \/ FenceDrain \/ FenceFlush \/ FenceSignal \/ StopSeen
           \/ DrainEnds
  BY <1>1, <1>7 DEF Take, TakeTo, Tick, FenceTake, FenceDrain, FenceFlush, FenceSignal,
     StopSeen, DrainEnds, FlushThen
<1>8. CASE FlushSkipped
  BY <1>0, <1>1, <1>8 DEF FlushSkipped
<1>9. ASSUME NEW c \in Fences,
             FlushSyncCall(c) \/ FlushSyncOffer(c) \/ FlushSyncStopped(c)
      PROVE  ProbeInv'
  BY <1>1, <1>9 DEF FlushSyncCall, FlushSyncOffer, FlushSyncStopped
<1>10. CASE Shutdown \/ UNCHANGED vars
  BY <1>1, <1>10 DEF Shutdown, vars
<1>11. QED
  BY <1>2, <1>3, <1>4, <1>5, <1>6, <1>7, <1>8, <1>9, <1>10 DEF Next, LoopStep, FlushStep

-----------------------------------------------------------------------------
(* The inductive invariant and the theorems.                               *)

IInv == TypeOK /\ FlowInv /\ FenceInv /\ ProbeInv

LEMMA InitIInv == Init => IInv
<1> SUFFICES ASSUME Init PROVE IInv
  OBVIOUS
<1>0. ToSet(<< >>) = {} /\ Distinct(<< >>) /\ Fate = {} BY DEF ToSet, Distinct, Fate, Init
<1>1. TypeOK
  <2>1. BreakerTypeOK BY DEF Init, BreakerInit, BreakerTypeOK
  <2>2. /\ queue \in Seq(Events) /\ Len(queue) <= BufferSize /\ buf \in Seq(Events)
        /\ flushCh \in Seq(Fences) /\ Len(flushCh) <= 1 /\ serving \in Seq(Fences)
    BY WriterAssumption DEF Init
  <2>3. QED BY <2>1, <2>2 DEF Init, TypeOK
<1>2. FlowInv BY <1>0 DEF Init, FlowInv
<1>3. FenceInv BY <1>0 DEF Init, FenceInv
<1>4. ProbeInv
  BY BreakerAssumption
     DEF Init, BreakerInit, ProbeInv, ProbeEnds, ClosedMeansBelowThreshold, Enabled
<1>5. QED BY <1>1, <1>2, <1>3, <1>4 DEF IInv

LEMMA StepIInv == IInv /\ [Next]_vars => IInv'
BY TypeStep, FlowInvStep, FenceStep, ProbeStep DEF IInv

(* The fields of the writer keep their types and the channels their        *)
(* capacities, for any sizes.                                              *)
THEOREM WriterTypeOK == Spec => []TypeOK
<1>1. IInv => TypeOK BY DEF IInv
<1>2. QED BY InitIInv, StepIInv, <1>1, PTL DEF Spec

(* No event vanishes and none is handled twice between Publish and the     *)
(* store: write, the select loop, flush and the shutdown drain lose        *)
(* nothing without counting it.                                            *)
THEOREM WriterNoSilentLoss == Spec => []NoSilentLoss
<1>1. IInv => NoSilentLoss
  BY DEF IInv, FlowInv, NoSilentLoss, Decided, Fate
<1>2. QED BY InitIInv, StepIInv, <1>1, PTL DEF Spec

(* When flushSync is answered, everything accepted before it has been      *)
(* inserted, skipped, failed or dropped.                                   *)
THEOREM WriterFenceMeansDecided == Spec => []FenceMeansDecided
<1>1. IInv => FenceMeansDecided
  BY DEF IInv, FenceInv, FenceMeansDecided, Decided, Fate
<1>2. QED BY InitIInv, StepIInv, <1>1, PTL DEF Spec

(* A breaker probe always ends, and a closed breaker has seen fewer than   *)
(* Threshold failures in a row.                                            *)
THEOREM WriterProbeEnds == Spec => [](ProbeEnds /\ ClosedMeansBelowThreshold)
<1>1. IInv => ProbeEnds /\ ClosedMeansBelowThreshold BY DEF IInv, ProbeInv
<1>2. QED BY InitIInv, StepIInv, <1>1, PTL DEF Spec
=============================================================================
