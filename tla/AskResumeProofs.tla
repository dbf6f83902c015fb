-------------------------- MODULE AskResumeProofs --------------------------
(***************************************************************************)
(* Proofs about AskResume, for any number of agents, resuming requests and *)
(* asks.                                                                   *)
(***************************************************************************)
EXTENDS AskResume, TLAPS

\* From Register to Remove.
Registered == {"registered", "marked", "signalling", "waiting", "answered", "aborted"}

\* A callback in progress has an ask, and the registry's entry belongs to one
\* between Register and Remove.
PendInv ==
  /\ \A g \in Agents: cur[g] <= ask /\ (fn[g] \in InCallback => cur[g] > 0)
  /\ byRun # 0 => \E g \in Agents: cur[g] = byRun /\ fn[g] \in Registered
  /\ producer = "cancelling" => leftover > 0

\* Answers are in the channel of the ask they were meant for.
MatchInv ==
  /\ \A h \in Resumes: hs[h] \in {"looked", "reset"} =>
       pa[h] \in 1 .. MaxAsks /\ req[h] = pa[h]
  /\ \A a \in 1 .. MaxAsks: answerCh[a] \in {0, a}
  /\ \A a \in 1 .. MaxAsks: used[a] \in {0, a}

\* While only the main agent asks, the entry is its ask from Register to
\* Remove, the cleanup finds none, and only a cancelled run keeps
\* requires_action outside the callback.
MainInv ==
  /\ cur[Main] = ask
  /\ byRun = IF fn[Main] \in Registered THEN ask ELSE 0
  /\ fn[Main] = "aborted" => Main \in cancelled
  /\ status = "requires_action" =>
       \/ fn[Main] \in {"marked", "signalling", "waiting", "answered", "aborted", "removed"}
       \/ Main \in cancelled
  /\ producer \notin {"cancelling", "removing"}

Quiet == {"none", "paused", "refused"}

SomePaused == \E h \in Handlers: hs[h] = "paused"

\* Channels are numbered in the order they are made.
ChanInv ==
  /\ \A c \in signalled: c <= ch
  /\ \A h \in Handlers: watch[h] <= ch

\* A stream that has not been paused holds the current channel until it ends.
HoldInv ==
  /\ ~SomePaused => ch = 0 /\ \A h \in Resumes: hs[h] = "none"
  /\ SomePaused => hs[First] # "none"
  /\ ch \notin signalled /\ SomePaused =>
       \E h \in Handlers: hs[h] \notin Quiet /\ (watch[h] = ch \/ hs[h] \in {"ended", "left"})

\* The main agent's context is cancelled, so that it asks no more.
AsksNoMore == Main \in cancelled /\ fn[Main] \in {"aborted", "running", "done"}

\* The current channel is closed only while its ask waits, or when no ask can
\* follow.
FreshInv ==
  /\ ch \in signalled => fn[Main] = "waiting" \/ AsksNoMore
  /\ fn[Main] = "signalling" => sigCh[Main] = ch
  /\ fn[Main] \in {"registered", "marked", "signalling"} => answerCh[ask] = 0
  /\ ch \in signalled /\ fn[Main] \in {"waiting", "aborted"} => answerCh[ask] = 0

\* A request on its way to deliver is alone, and its ask waits or is over.
SoleInv ==
  \A h \in Resumes: hs[h] \in {"looked", "reset"} =>
    /\ SomePaused
    /\ \A k \in Handlers \ {h}: hs[k] \in Quiet
    /\ answerCh[pa[h]] = 0
    /\ hs[h] = "looked" => ch \in signalled
    /\ hs[h] = "reset" => ch \notin signalled /\ watch[h] = ch
    /\ (fn[Main] = "waiting" /\ pa[h] = ask) \/ AsksNoMore

OrderInv == ~panicked /\ ChanInv /\ HoldInv /\ FreshInv /\ SoleInv

IInv ==
  /\ TypeOK /\ PendInv /\ MatchInv
  /\ OneAsker => MainInv
  /\ OneAsker /\ orderly => OrderInv

-----------------------------------------------------------------------------
(* Types, the registry and the answers, whichever agents ask.              *)

\* The ask of a callback in progress is one of the run's.
LEMMA CallbackHasAsk ==
  ASSUME TypeOK, PendInv, NEW g \in Agents, fn[g] \in InCallback
  PROVE  cur[g] \in 1 .. ask /\ cur[g] \in 1 .. MaxAsks
  BY AskBound, TypeOK, PendInv DEF TypeOK, PendInv

\* The locals of a handler that returns keep their types.
LEMMA ReturnTypes ==
  ASSUME TypeOK, NEW h \in Handlers, NEW from, NEW to, Return(h, from, to)
  PROVE  /\ req' \in [Handlers -> 0 .. MaxAsks] /\ pa' \in [Handlers -> 0 .. MaxAsks]
         /\ watch' \in [Handlers -> Nat] /\ unread' \in [Handlers -> Nat]
<1>1. 0 \in 0 .. MaxAsks /\ 0 \in Nat
  BY AskBound
<1>2. QED
  BY Zenon, <1>1, TypeOK DEF TypeOK, Return

\* A step keeps the types: an answer goes to the channel of an ask.
LEMMA TypeStep ==
  ASSUME TypeOK, PendInv, MatchInv, Next
  PROVE  TypeOK'
<1> USE AskBound DEF agentVars, askVars, pauseVars, producerVars, handlerVars
<1>0. /\ Main \in Agents /\ Subagents \subseteq Agents
      /\ First \in Handlers /\ Resumes \subseteq Handlers
  BY DEF Agents, Handlers
<1>1. ASSUME NEW g \in Agents, AskPublish(g) PROVE TypeOK'
  <2>1. ask' \in 0 .. MaxAsks /\ byRun' \in 0 .. ask' /\ ask + 1 \in 0 .. MaxAsks
    BY <1>1, TypeOK DEF TypeOK, AskPublish
  <2>2. unread' \in [Handlers -> Nat]
    BY <1>1, TypeOK DEF TypeOK, AskPublish
  <2>3. cur' \in [Agents -> 0 .. MaxAsks]
    BY <1>1, <2>1, TypeOK DEF TypeOK, AskPublish
  <2>4. fn' \in [Agents -> InCallback \cup {"running", "done"}]
    BY <1>1, TypeOK DEF TypeOK, AskPublish, GoTo, InCallback
  <2>5. QED
    BY Zenon, <1>1, <2>1, <2>2, <2>3, <2>4, TypeOK DEF TypeOK, AskPublish
<1>2. ASSUME NEW g \in Agents, AskRegister(g) PROVE TypeOK'
  <2>1. fn' \in [Agents -> InCallback \cup {"running", "done"}]
    BY Zenon, <1>2, TypeOK DEF TypeOK, AskRegister, GoTo, InCallback
  <2>2. cur[g] \in 1 .. ask /\ cur[g] \in 1 .. MaxAsks
    BY <1>2, CallbackHasAsk, TypeOK, PendInv DEF AskRegister, GoTo, InCallback
  <2>3. byRun' \in 0 .. ask' /\ answerCh' \in [1 .. MaxAsks -> 0 .. MaxAsks]
    BY <1>2, <2>2, TypeOK DEF TypeOK, AskRegister
  <2>4. QED
    BY Zenon, <1>2, <2>1, <2>3, TypeOK DEF TypeOK, AskRegister
<1>3. ASSUME NEW g \in Agents, AskMark(g) PROVE TypeOK'
  <2>1. fn' \in [Agents -> InCallback \cup {"running", "done"}]
    BY Zenon, <1>3, TypeOK DEF TypeOK, AskMark, GoTo, InCallback
  <2>2. QED
    BY Zenon, <1>3, <2>1, TypeOK DEF TypeOK, AskMark
<1>4. ASSUME NEW g \in Agents, AskSignalRead(g) PROVE TypeOK'
  <2>1. fn' \in [Agents -> InCallback \cup {"running", "done"}]
    BY Zenon, <1>4, TypeOK DEF TypeOK, AskSignalRead, GoTo, InCallback
  <2>2. sigCh' \in [Agents -> Nat] /\ signalled' \subseteq Nat /\ panicked' \in BOOLEAN
    BY <1>4, TypeOK DEF TypeOK, AskSignalRead
  <2>3. QED
    BY Zenon, <1>4, <2>1, <2>2, TypeOK DEF TypeOK, AskSignalRead
<1>5. ASSUME NEW g \in Agents, AskSignalClose(g) PROVE TypeOK'
  <2>1. fn' \in [Agents -> InCallback \cup {"running", "done"}]
    BY Zenon, <1>5, TypeOK DEF TypeOK, AskSignalClose, GoTo, InCallback
  <2>2. sigCh[g] \in Nat /\ 0 \in Nat
    BY TypeOK DEF TypeOK
  <2>3. sigCh' \in [Agents -> Nat]
    BY Zenon, <1>5, <2>2, TypeOK DEF TypeOK, AskSignalClose
  <2>4. signalled' \subseteq Nat
    BY <1>5, <2>2, TypeOK DEF TypeOK, AskSignalClose
  <2>5. panicked' = (sigCh[g] \in signalled)
    BY Zenon, <1>5 DEF AskSignalClose
  <2>6. panicked' \in BOOLEAN
    BY SMT, <2>5
  <2>7. QED
    BY Zenon, <1>5, <2>1, <2>3, <2>4, <2>6, TypeOK DEF TypeOK, AskSignalClose
<1>6. ASSUME NEW g \in Agents, AskAnswered(g) PROVE TypeOK'
  <2>1. fn' \in [Agents -> InCallback \cup {"running", "done"}]
    BY Zenon, <1>6, TypeOK DEF TypeOK, AskAnswered, GoTo, InCallback
  <2>2. cur[g] \in 1 .. MaxAsks
    BY <1>6, CallbackHasAsk, TypeOK, PendInv DEF AskAnswered, GoTo, InCallback
  <2>3. answerCh' \in [1 .. MaxAsks -> 0 .. MaxAsks] /\ used' \in [1 .. MaxAsks -> 0 .. MaxAsks]
    BY <1>6, <2>2, TypeOK DEF TypeOK, AskAnswered
  <2>4. QED
    BY Zenon, <1>6, <2>1, <2>3, TypeOK DEF TypeOK, AskAnswered
<1>7. ASSUME NEW g \in Agents, AskAborted(g) PROVE TypeOK'
  <2>1. fn' \in [Agents -> InCallback \cup {"running", "done"}]
    BY Zenon, <1>7, TypeOK DEF TypeOK, AskAborted, GoTo, InCallback
  <2>2. QED
    BY Zenon, <1>7, <2>1, TypeOK DEF TypeOK, AskAborted
<1>8. ASSUME NEW g \in Agents, AskRemove(g) PROVE TypeOK'
  <2>1. fn' \in [Agents -> InCallback \cup {"running", "done"}]
    BY Zenon, <1>8, TypeOK DEF TypeOK, AskRemove, GoTo, InCallback
  <2>2. byRun' \in 0 .. ask'
    BY <1>8, TypeOK DEF TypeOK, AskRemove
  <2>3. QED
    BY Zenon, <1>8, <2>1, <2>2, TypeOK DEF TypeOK, AskRemove
<1>9. ASSUME NEW g \in Agents, AskReturn(g) PROVE TypeOK'
  <2>1. fn' \in [Agents -> InCallback \cup {"running", "done"}]
    BY Zenon, <1>9, TypeOK DEF TypeOK, AskReturn, GoTo, InCallback
  <2>2. QED
    BY Zenon, <1>9, <2>1, TypeOK DEF TypeOK, AskReturn
<1>10. ASSUME AgentEnds PROVE TypeOK'
  BY Zenon, <1>10, <1>0, TypeOK DEF TypeOK, AgentEnds, GoTo, InCallback
<1>11. ASSUME CleanupLookup PROVE TypeOK'
  <2>1. leftover' \in 0 .. MaxAsks
    BY <1>11, TypeOK DEF TypeOK, CleanupLookup
  <2>2. QED
    BY Zenon, <1>11, <2>1, TypeOK DEF TypeOK, CleanupLookup, ProducerAt
<1>12. ASSUME CleanupCancel PROVE TypeOK'
  <2>1. answerCh' \in [1 .. MaxAsks -> 0 .. MaxAsks]
    BY <1>12, TypeOK DEF TypeOK, CleanupCancel
  <2>2. QED
    BY Zenon, <1>12, <2>1, TypeOK DEF TypeOK, CleanupCancel, ProducerAt
<1>13. ASSUME CleanupRemove PROVE TypeOK'
  <2>1. byRun' \in 0 .. ask' /\ leftover' \in 0 .. MaxAsks
    BY <1>13, TypeOK DEF TypeOK, CleanupRemove
  <2>2. QED
    BY Zenon, <1>13, <2>1, TypeOK DEF TypeOK, CleanupRemove, ProducerAt
<1>14. ASSUME ProducerFinish \/ ProducerReturns PROVE TypeOK'
  BY Zenon, <1>14, TypeOK DEF TypeOK, ProducerFinish, ProducerReturns, ProducerAt
<1>15. ASSUME ContextCancelled \/ \E g \in Subagents: SubagentCancelled(g) PROVE TypeOK'
  BY Zenon, <1>15, <1>0, TypeOK DEF TypeOK, ContextCancelled, SubagentCancelled
<1>16. ASSUME NEW h \in Resumes, NEW a \in 1 .. MaxAsks, Lookup(h, a) PROVE TypeOK'
  <2>1. hs' \in [Handlers -> {"none", "looked", "reset", "watching", "open", "paused",
                              "ended", "left", "refused"}]
    BY Zenon, <1>16, <1>0, TypeOK DEF TypeOK, Lookup, At
  <2>2. req' \in [Handlers -> 0 .. MaxAsks] /\ pa' \in [Handlers -> 0 .. MaxAsks]
    BY <1>16, <1>0, TypeOK DEF TypeOK, Lookup
  <2>3. QED
    BY Zenon, <1>16, <2>1, <2>2, TypeOK DEF TypeOK, Lookup
<1>17. ASSUME NEW h \in Resumes, NEW a \in 1 .. MaxAsks, Refuse(h, a) PROVE TypeOK'
  <2>1. hs' \in [Handlers -> {"none", "looked", "reset", "watching", "open", "paused",
                              "ended", "left", "refused"}]
    BY Zenon, <1>17, <1>0, TypeOK DEF TypeOK, Refuse, Return, At
  <2>2. /\ req' \in [Handlers -> 0 .. MaxAsks] /\ pa' \in [Handlers -> 0 .. MaxAsks]
        /\ watch' \in [Handlers -> Nat] /\ unread' \in [Handlers -> Nat]
    BY <1>17, ReturnTypes, <1>0, TypeOK DEF Refuse
  <2>3. QED
    BY Zenon, <1>17, <2>1, <2>2, TypeOK DEF TypeOK, Refuse
<1>18. ASSUME NEW h \in Resumes, Reset(h) PROVE TypeOK'
  <2>1. hs' \in [Handlers -> {"none", "looked", "reset", "watching", "open", "paused",
                              "ended", "left", "refused"}]
    BY Zenon, <1>18, <1>0, TypeOK DEF TypeOK, Reset, At
  <2>2. ch + 1 \in Nat
    BY TypeOK DEF TypeOK
  <2>3. ch' \in Nat /\ watch' \in [Handlers -> Nat]
    BY Zenon, <1>18, <2>2, TypeOK DEF TypeOK, Reset
  <2>4. QED
    BY Zenon, <1>18, <2>1, <2>3, TypeOK DEF TypeOK, Reset
<1>19. ASSUME NEW h \in Resumes, Deliver(h) PROVE TypeOK'
  <2>1. hs' \in [Handlers -> {"none", "looked", "reset", "watching", "open", "paused",
                              "ended", "left", "refused"}]
    BY Zenon, <1>19, <1>0, TypeOK DEF TypeOK, Deliver, At
  <2>2. answerCh' \in [1 .. MaxAsks -> 0 .. MaxAsks]
    BY <1>19, <1>0, TypeOK DEF TypeOK, Deliver
  <2>3. QED
    BY Zenon, <1>19, <2>1, <2>2, TypeOK DEF TypeOK, Deliver
<1>20. ASSUME FirstWatch PROVE TypeOK'
  <2>1. hs' \in [Handlers -> {"none", "looked", "reset", "watching", "open", "paused",
                              "ended", "left", "refused"}]
    BY Zenon, <1>20, <1>0, TypeOK DEF TypeOK, FirstWatch, At
  <2>2. watch' \in [Handlers -> Nat]
    BY <1>20, TypeOK DEF TypeOK, FirstWatch
  <2>3. QED
    BY Zenon, <1>20, <2>1, <2>2, TypeOK DEF TypeOK, FirstWatch
<1>21. ASSUME NEW h \in Handlers, StreamOpens(h) PROVE TypeOK'
  BY Zenon, <1>21, TypeOK DEF TypeOK, StreamOpens, At
<1>22. ASSUME NEW h \in Handlers, StreamWrites(h) PROVE TypeOK'
  <2>1. unread' \in [Handlers -> Nat]
    BY <1>22, TypeOK DEF TypeOK, StreamWrites
  <2>2. QED
    BY Zenon, <1>22, <2>1, TypeOK DEF TypeOK, StreamWrites
<1>23. ASSUME NEW h \in Handlers, StreamPauses(h) PROVE TypeOK'
  <2>1. hs' \in [Handlers -> {"none", "looked", "reset", "watching", "open", "paused",
                              "ended", "left", "refused"}]
    BY Zenon, <1>23, <1>0, TypeOK DEF TypeOK, StreamPauses, Return, At
  <2>2. /\ req' \in [Handlers -> 0 .. MaxAsks] /\ pa' \in [Handlers -> 0 .. MaxAsks]
        /\ watch' \in [Handlers -> Nat] /\ unread' \in [Handlers -> Nat]
    BY <1>23, ReturnTypes, <1>0, TypeOK DEF StreamPauses
  <2>3. QED
    BY Zenon, <1>23, <2>1, <2>2, TypeOK DEF TypeOK, StreamPauses
<1>24. ASSUME NEW h \in Handlers, StreamEnds(h) PROVE TypeOK'
  <2>1. hs' \in [Handlers -> {"none", "looked", "reset", "watching", "open", "paused",
                              "ended", "left", "refused"}]
    BY Zenon, <1>24, <1>0, TypeOK DEF TypeOK, StreamEnds, Return, At
  <2>2. /\ req' \in [Handlers -> 0 .. MaxAsks] /\ pa' \in [Handlers -> 0 .. MaxAsks]
        /\ watch' \in [Handlers -> Nat] /\ unread' \in [Handlers -> Nat]
    BY <1>24, ReturnTypes, <1>0, TypeOK DEF StreamEnds
  <2>3. QED
    BY Zenon, <1>24, <2>1, <2>2, TypeOK DEF TypeOK, StreamEnds
<1>25. ASSUME NEW h \in Handlers, ClientLeaves(h) PROVE TypeOK'
  <2>1. hs' \in [Handlers -> {"none", "looked", "reset", "watching", "open", "paused",
                              "ended", "left", "refused"}]
    BY Zenon, <1>25, <1>0, TypeOK DEF TypeOK, ClientLeaves, Return, At
  <2>2. /\ req' \in [Handlers -> 0 .. MaxAsks] /\ pa' \in [Handlers -> 0 .. MaxAsks]
        /\ watch' \in [Handlers -> Nat] /\ unread' \in [Handlers -> Nat]
    BY <1>25, ReturnTypes, TypeOK DEF ClientLeaves
  <2>3. cancelled' \subseteq Agents
    BY Zenon, <1>25, TypeOK DEF TypeOK, ClientLeaves
  <2>4. QED
    BY Zenon, <1>25, <2>1, <2>2, <2>3, TypeOK DEF TypeOK, ClientLeaves
<1>26. QED
  BY <1>1, <1>2, <1>3, <1>4, <1>5, <1>6, <1>7, <1>8, <1>9, <1>10, <1>11, <1>12, <1>13,
     <1>14, <1>15, <1>16, <1>17, <1>18, <1>19, <1>20, <1>21, <1>22, <1>23, <1>24, <1>25
     DEF Next, CallbackStep, ProducerStep, ResumeStep, StreamStep

\* The steps of the requests and their streams, and those of the agents and the
\* producer.
RequestStep ==
  \/ \E h \in Resumes: ResumeStep(h)
  \/ FirstWatch
  \/ \E h \in Handlers: StreamStep(h) \/ ClientLeaves(h)

RunStep ==
  \/ \E g \in Agents: AskPublish(g) \/ CallbackStep(g)
  \/ AgentEnds \/ ProducerStep \/ ContextCancelled
  \/ \E g \in Subagents: SubagentCancelled(g)

\* What a request leaves alone; a context stays cancelled.
LEMMA RequestFrame ==
  ASSUME TypeOK, RequestStep
  PROVE  /\ UNCHANGED <<orderly, fn, cur, ask, status, byRun, used, sigCh, signalled, panicked,
                        producer, leftover>>
         /\ cancelled \subseteq cancelled'
<1> USE DEF agentVars, askVars, pauseVars, producerVars
<1>1. ASSUME NEW h \in Handlers, ClientLeaves(h)
      PROVE  /\ UNCHANGED <<orderly, fn, cur, ask, status, byRun, used, sigCh, signalled,
                            panicked, producer, leftover>>
             /\ cancelled \subseteq cancelled'
  BY Zenon, <1>1, TypeOK DEF TypeOK, ClientLeaves
<1>2. QED
  BY ZenonT(60), <1>1, RequestStep DEF RequestStep, ResumeStep, StreamStep, Lookup, Refuse, Reset,
     Deliver, FirstWatch, StreamOpens, StreamWrites, StreamPauses, StreamEnds

\* What the agents and the producer leave alone.
LEMMA RunFrame ==
  ASSUME TypeOK, RunStep
  PROVE  /\ UNCHANGED <<orderly, ch, hs, req, pa, watch>>
         /\ cancelled \subseteq cancelled'
<1> USE DEF agentVars, askVars, pauseVars, producerVars, handlerVars
<1>1. ASSUME ProducerStep \/ ContextCancelled \/ \E g \in Subagents: SubagentCancelled(g)
      PROVE  UNCHANGED <<orderly, ch, hs, req, pa, watch>> /\ cancelled \subseteq cancelled'
  BY ZenonT(60), <1>1, TypeOK DEF TypeOK, ProducerStep, CleanupLookup, CleanupCancel,
     CleanupRemove, ProducerFinish, ProducerReturns, ContextCancelled, SubagentCancelled
<1>2. QED
  BY ZenonT(60), <1>1, RunStep DEF RunStep, CallbackStep, AskPublish, AskRegister, AskMark,
     AskSignalRead, AskSignalClose, AskAnswered, AskAborted, AskRemove, AskReturn, AgentEnds

\* A step keeps the registry's entry with a callback that awaits its answer.
LEMMA PendStep ==
  ASSUME TypeOK, PendInv, Next
  PROVE  PendInv'
<1> USE AskBound DEF agentVars, askVars, pauseVars, producerVars
<1>1. ASSUME NEW g \in Agents, AskPublish(g) PROVE PendInv'
  <2>1. /\ fn[g] = "running" /\ fn' = [fn EXCEPT ![g] = "published"]
        /\ ask' = ask + 1 /\ cur' = [cur EXCEPT ![g] = ask + 1]
        /\ UNCHANGED <<byRun, producer, leftover>>
    BY <1>1 DEF AskPublish, GoTo
  <2>2. \A k \in Agents: cur'[k] <= ask' /\ (fn'[k] \in InCallback => cur'[k] > 0)
    BY <2>1, TypeOK, PendInv DEF TypeOK, PendInv
  <2>3. byRun' # 0 => \E k \in Agents: cur'[k] = byRun' /\ fn'[k] \in Registered
    BY Zenon, <2>1, TypeOK, PendInv DEF TypeOK, PendInv, Registered
  <2>4. QED
    BY Zenon, <2>1, <2>2, <2>3, PendInv DEF PendInv
<1>2. ASSUME NEW g \in Agents, AskRegister(g) PROVE PendInv'
  <2>1. /\ fn[g] = "published" /\ fn' = [fn EXCEPT ![g] = "registered"] /\ byRun' = cur[g]
        /\ UNCHANGED <<cur, ask, producer, leftover>>
    BY <1>2 DEF AskRegister, GoTo
  <2>2. QED
    BY Zenon, <2>1, TypeOK, PendInv DEF TypeOK, PendInv, InCallback, Registered
<1>3. ASSUME NEW g \in Agents,
             \/ AskMark(g) \/ AskSignalRead(g) \/ AskSignalClose(g) \/ AskAnswered(g)
             \/ AskAborted(g)
      PROVE  PendInv'
  <2>1. PICK to \in Registered: fn[g] \in Registered /\ fn' = [fn EXCEPT ![g] = to]
    BY Zenon, <1>3 DEF AskMark, AskSignalRead, AskSignalClose, AskAnswered, AskAborted, GoTo,
       Registered
  <2>2. UNCHANGED <<cur, ask, byRun, producer, leftover>>
    BY Zenon, <1>3 DEF AskMark, AskSignalRead, AskSignalClose, AskAnswered, AskAborted
  <2>3. Registered \subseteq InCallback
    BY DEF Registered, InCallback
  <2>4. QED
    BY Zenon, <2>1, <2>2, <2>3, TypeOK, PendInv DEF TypeOK, PendInv
<1>4. ASSUME NEW g \in Agents, AskRemove(g) PROVE PendInv'
  BY Zenon, <1>4, TypeOK, PendInv DEF TypeOK, PendInv, AskRemove, GoTo, InCallback
<1>5. ASSUME NEW g \in Agents, AskReturn(g) PROVE PendInv'
  BY Zenon, <1>5, TypeOK, PendInv DEF TypeOK, PendInv, AskReturn, GoTo, InCallback, Registered
<1>6. ASSUME AgentEnds PROVE PendInv'
  BY Zenon, <1>6, TypeOK, PendInv DEF TypeOK, PendInv, AgentEnds, GoTo, InCallback, Registered
<1>7. ASSUME CleanupLookup PROVE PendInv'
  <2>1. byRun # 0 => byRun > 0
    BY TypeOK DEF TypeOK
  <2>2. QED
    BY Zenon, <1>7, <2>1, PendInv DEF PendInv, CleanupLookup, ProducerAt
<1>8. ASSUME CleanupCancel \/ CleanupRemove \/ ProducerFinish \/ ProducerReturns PROVE PendInv'
  BY Zenon, <1>8, PendInv DEF PendInv, CleanupCancel, CleanupRemove, ProducerFinish,
     ProducerReturns, ProducerAt
<1>9. ASSUME ContextCancelled \/ \E g \in Subagents: SubagentCancelled(g) PROVE PendInv'
  BY Zenon, <1>9, PendInv DEF PendInv, ContextCancelled, SubagentCancelled
<1>10. ASSUME RequestStep PROVE PendInv'
  BY Zenon, <1>10, RequestFrame, TypeOK, PendInv DEF PendInv
<1>11. QED
  BY <1>1, <1>2, <1>3, <1>4, <1>5, <1>6, <1>7, <1>8, <1>9, <1>10, Next DEF Next, RequestStep,
     CallbackStep, ProducerStep

\* A step keeps answers with their asks.
LEMMA MatchStep ==
  ASSUME TypeOK, PendInv, MatchInv, Next
  PROVE  MatchInv'
<1> USE AskBound DEF agentVars, askVars, pauseVars, producerVars, handlerVars
<1>0. Resumes \subseteq Handlers
  BY DEF Handlers
<1>1. ASSUME NEW g \in Agents, AskRegister(g) \/ AskAnswered(g) PROVE MatchInv'
  <2>1. cur[g] \in 1 .. MaxAsks
    BY <1>1, CallbackHasAsk, TypeOK, PendInv DEF AskRegister, AskAnswered, GoTo, InCallback
  <2>2. QED
    BY Zenon, <1>1, <2>1, TypeOK, MatchInv DEF TypeOK, MatchInv, AskRegister, AskAnswered
<1>2. ASSUME CleanupCancel PROVE MatchInv'
  <2>1. leftover \in 1 .. MaxAsks
    BY <1>2, TypeOK, PendInv DEF TypeOK, PendInv, CleanupCancel, ProducerAt
  <2>2. QED
    BY Zenon, <1>2, <2>1, TypeOK, MatchInv DEF TypeOK, MatchInv, CleanupCancel
<1>3. ASSUME UNCHANGED <<answerCh, used, hs, req, pa>> PROVE MatchInv'
  BY Zenon, <1>3, MatchInv DEF MatchInv
<1>4. ASSUME NEW g \in Agents,
             \/ AskPublish(g) \/ AskMark(g) \/ AskSignalRead(g) \/ AskSignalClose(g)
             \/ AskAborted(g) \/ AskRemove(g) \/ AskReturn(g)
      PROVE  MatchInv'
  BY Zenon, <1>3, <1>4 DEF AskPublish, AskMark, AskSignalRead, AskSignalClose, AskAborted,
     AskRemove, AskReturn
<1>5. ASSUME \/ AgentEnds \/ CleanupLookup \/ CleanupRemove \/ ProducerFinish
             \/ ProducerReturns \/ ContextCancelled
             \/ \E g \in Subagents: SubagentCancelled(g)
      PROVE  MatchInv'
  BY Zenon, <1>3, <1>5 DEF AgentEnds, CleanupLookup, CleanupRemove, ProducerFinish,
     ProducerReturns, ContextCancelled, SubagentCancelled
<1>6. ASSUME NEW h \in Resumes, NEW a \in 1 .. MaxAsks, Lookup(h, a) PROVE MatchInv'
  BY Zenon, <1>0, <1>6, TypeOK, MatchInv DEF TypeOK, MatchInv, Lookup, At
<1>7. ASSUME NEW h \in Handlers, NEW from, NEW to, to \notin {"looked", "reset"},
             Return(h, from, to), UNCHANGED <<answerCh, used>>
      PROVE  MatchInv'
  BY Zenon, <1>0, <1>7, TypeOK, MatchInv DEF TypeOK, MatchInv, Return, At
<1>8. ASSUME NEW h \in Resumes, NEW a \in 1 .. MaxAsks, Refuse(h, a) PROVE MatchInv'
  BY Zenon, <1>0, <1>7, <1>8 DEF Refuse
<1>9. ASSUME NEW h \in Handlers, StreamPauses(h) \/ StreamEnds(h) \/ ClientLeaves(h)
      PROVE  MatchInv'
  BY Zenon, <1>7, <1>9 DEF StreamPauses, StreamEnds, ClientLeaves
<1>10. ASSUME NEW h \in Resumes, Reset(h) PROVE MatchInv'
  BY Zenon, <1>0, <1>10, TypeOK, MatchInv DEF TypeOK, MatchInv, Reset, At
<1>11. ASSUME NEW h \in Resumes, Deliver(h) PROVE MatchInv'
  BY Zenon, <1>0, <1>11, TypeOK, MatchInv DEF TypeOK, MatchInv, Deliver, At
<1>12. ASSUME FirstWatch PROVE MatchInv'
  BY Zenon, <1>0, <1>12, TypeOK, MatchInv DEF TypeOK, MatchInv, FirstWatch, At
<1>13. ASSUME NEW h \in Handlers, StreamOpens(h) \/ StreamWrites(h) PROVE MatchInv'
  BY Zenon, <1>0, <1>13, TypeOK, MatchInv DEF TypeOK, MatchInv, StreamOpens, StreamWrites, At
<1>14. QED
  BY <1>1, <1>2, <1>4, <1>5, <1>6, <1>8, <1>9, <1>10, <1>11, <1>12, <1>13, Next DEF Next,
     CallbackStep, ProducerStep, ResumeStep, StreamStep

-----------------------------------------------------------------------------
(* While only the main agent asks.                                         *)

\* The producer and the cancellations, but for the cleanup of a pending ask.
AsideStep ==
  \/ CleanupLookup \/ ProducerFinish \/ ProducerReturns \/ ContextCancelled
  \/ \E g \in Subagents: SubagentCancelled(g)

LEMMA AsideFrame ==
  ASSUME TypeOK, AsideStep
  PROVE  /\ UNCHANGED <<orderly, fn, cur, ask, status, byRun, used, answerCh, ch, sigCh,
                        signalled, panicked, hs, req, pa, watch>>
         /\ cancelled \subseteq cancelled'
  BY ZenonT(60), TypeOK, AsideStep DEF TypeOK, AsideStep, CleanupLookup, ProducerFinish,
     ProducerReturns, ContextCancelled, SubagentCancelled, agentVars, askVars, pauseVars,
     producerVars, handlerVars

\* An agent that has asked stays one that has asked.
LEMMA OneAskerBefore ==
  ASSUME TypeOK, Next, OneAsker'
  PROVE  OneAsker
<1> USE DEF agentVars, askVars, pauseVars, producerVars
<1>1. ASSUME NEW g \in Agents, AskPublish(g) PROVE OneAsker
  <2>1. ask + 1 # 0
    BY TypeOK DEF TypeOK
  <2>2. QED
    BY Zenon, <1>1, <2>1, TypeOK DEF TypeOK, AskPublish, OneAsker, Agents
<1>2. ASSUME UNCHANGED cur PROVE OneAsker
  BY Zenon, <1>2 DEF OneAsker
<1>3. ASSUME RequestStep PROVE UNCHANGED cur
  BY Zenon, <1>3, RequestFrame, TypeOK
<1>4. ASSUME NEW g \in Agents, CallbackStep(g) PROVE UNCHANGED cur
  BY Zenon, <1>4 DEF CallbackStep, AskRegister, AskMark, AskSignalRead, AskSignalClose,
     AskAnswered, AskAborted, AskRemove, AskReturn
<1>5. ASSUME AgentEnds \/ AsideStep \/ CleanupCancel \/ CleanupRemove PROVE UNCHANGED cur
  BY Zenon, <1>5, AsideFrame, TypeOK DEF AgentEnds, CleanupCancel, CleanupRemove
<1>6. QED
  BY <1>1, <1>2, <1>3, <1>4, <1>5, Next DEF Next, RequestStep, AsideStep, ProducerStep

\* The callbacks are then the main agent's, and nothing is left to clean up.
LEMMA MainSteps ==
  ASSUME TypeOK, PendInv, MainInv, Next, OneAsker, OneAsker'
  PROVE  AskPublish(Main) \/ CallbackStep(Main) \/ AgentEnds \/ AsideStep \/ RequestStep
<1>1. ASSUME NEW g \in Subagents, AskPublish(g) PROVE FALSE
  <2>1. ask + 1 # 0 /\ g \in Agents
    BY TypeOK DEF TypeOK, Agents
  <2>2. cur'[g] = ask + 1
    BY Zenon, <1>1, <2>1, TypeOK DEF TypeOK, AskPublish
  <2>3. QED
    BY Zenon, <2>1, <2>2, OneAsker' DEF OneAsker
<1>2. ASSUME NEW g \in Subagents PROVE ~CallbackStep(g)
  <2>1. fn[g] \notin InCallback
    <3>1. g \in Agents /\ cur[g] = 0
      BY Zenon, OneAsker DEF OneAsker, Agents
    <3>2. QED
      BY <3>1, PendInv DEF PendInv
  <2>2. QED
    BY Zenon, <2>1 DEF InCallback, CallbackStep, AskRegister, AskMark, AskSignalRead,
       AskSignalClose, AskAnswered, AskAborted, AskRemove, AskReturn, GoTo
<1>3. ~CleanupCancel /\ ~CleanupRemove
  BY Zenon, MainInv DEF MainInv, CleanupCancel, CleanupRemove, ProducerAt
<1>4. QED
  BY Zenon, <1>1, <1>2, <1>3, Next DEF Next, Agents, RequestStep, AsideStep, ProducerStep

\* A step keeps the entry and the status in line with the main agent.
LEMMA MainStep ==
  ASSUME TypeOK, PendInv, MainInv, Next, OneAsker, OneAsker'
  PROVE  MainInv'
<1> USE DEF agentVars, askVars, pauseVars, producerVars
<1>0. Main \in Agents
  BY DEF Agents
<1>1. ASSUME AskPublish(Main) PROVE MainInv'
  BY Zenon, <1>0, <1>1, TypeOK, MainInv DEF TypeOK, MainInv, Registered, AskPublish, GoTo
<1>2. ASSUME AskRegister(Main) PROVE MainInv'
  BY Zenon, <1>0, <1>2, TypeOK, MainInv DEF TypeOK, MainInv, Registered, AskRegister, GoTo
<1>3. ASSUME AskMark(Main) PROVE MainInv'
  BY Zenon, <1>0, <1>3, TypeOK, MainInv DEF TypeOK, MainInv, Registered, AskMark, GoTo
<1>4. ASSUME AskSignalRead(Main) PROVE MainInv'
  BY Zenon, <1>0, <1>4, TypeOK, MainInv DEF TypeOK, MainInv, Registered, AskSignalRead, GoTo
<1>5. ASSUME AskSignalClose(Main) PROVE MainInv'
  BY Zenon, <1>0, <1>5, TypeOK, MainInv DEF TypeOK, MainInv, Registered, AskSignalClose, GoTo
<1>6. ASSUME AskAnswered(Main) PROVE MainInv'
  BY Zenon, <1>0, <1>6, TypeOK, MainInv DEF TypeOK, MainInv, Registered, AskAnswered, GoTo
<1>7. ASSUME AskAborted(Main) PROVE MainInv'
  BY Zenon, <1>0, <1>7, TypeOK, MainInv DEF TypeOK, MainInv, Registered, AskAborted, GoTo
<1>8. ASSUME AskRemove(Main) PROVE MainInv'
  BY Zenon, <1>0, <1>8, TypeOK, MainInv DEF TypeOK, MainInv, Registered, AskRemove, GoTo
<1>9. ASSUME AskReturn(Main) PROVE MainInv'
  BY Zenon, <1>0, <1>9, TypeOK, MainInv DEF TypeOK, MainInv, Registered, AskReturn, GoTo
<1>10. ASSUME AgentEnds PROVE MainInv'
  BY Zenon, <1>0, <1>10, TypeOK, MainInv DEF TypeOK, MainInv, Registered, AgentEnds, GoTo
<1>11. ASSUME AsideStep PROVE MainInv'
  <2>1. producer' \notin {"cancelling", "removing"}
    BY Zenon, <1>11, MainInv DEF MainInv, Registered, AsideStep, CleanupLookup, ProducerFinish,
       ProducerReturns, ContextCancelled, SubagentCancelled, ProducerAt
  <2>2. QED
    BY Zenon, <1>11, <2>1, AsideFrame, TypeOK, MainInv DEF MainInv
<1>12. ASSUME RequestStep PROVE MainInv'
  BY Zenon, <1>12, RequestFrame, TypeOK, MainInv DEF MainInv
<1>13. QED
  BY Zenon, <1>1, <1>2, <1>3, <1>4, <1>5, <1>6, <1>7, <1>8, <1>9, <1>10, <1>11, <1>12,
     MainSteps DEF CallbackStep

-----------------------------------------------------------------------------
(* Orderly clients, while only the main agent asks.                        *)

\* A step numbers no channel beyond the current one.
LEMMA ChanStep ==
  ASSUME TypeOK, PendInv, MainInv, OrderInv, Next, OneAsker, OneAsker'
  PROVE  ChanInv'
<1> USE DEF agentVars, askVars, pauseVars, producerVars, handlerVars
<1>0. ChanInv /\ FreshInv
  BY OrderInv DEF OrderInv
<1>1. ASSUME UNCHANGED <<signalled, ch, watch>> PROVE ChanInv'
  BY Zenon, <1>0, <1>1 DEF ChanInv
<1>2. ASSUME AskSignalClose(Main) PROVE ChanInv'
  <2>1. signalled' = signalled \cup {ch} /\ UNCHANGED <<ch, watch>>
    BY Zenon, <1>0, <1>2 DEF FreshInv, AskSignalClose, GoTo
  <2>2. ch <= ch
    BY TypeOK DEF TypeOK
  <2>3. QED
    BY Zenon, <1>0, <2>1, <2>2 DEF ChanInv
<1>3. ASSUME \/ AskPublish(Main) \/ AskRegister(Main) \/ AskMark(Main) \/ AskSignalRead(Main)
             \/ AskAnswered(Main) \/ AskAborted(Main) \/ AskRemove(Main) \/ AskReturn(Main)
             \/ AgentEnds
      PROVE  ChanInv'
  BY Zenon, <1>1, <1>3 DEF AskPublish, AskRegister, AskMark, AskSignalRead, AskAnswered,
     AskAborted, AskRemove, AskReturn, AgentEnds
<1>4. ASSUME AsideStep PROVE ChanInv'
  BY Zenon, <1>1, <1>4, AsideFrame, TypeOK
<1>5. ASSUME NEW h \in Handlers, NEW from, NEW to, Return(h, from, to), UNCHANGED <<signalled, ch>>
      PROVE  ChanInv'
  <2>1. 0 <= ch
    BY TypeOK DEF TypeOK
  <2>2. QED
    BY Zenon, <1>0, <1>5, <2>1, TypeOK DEF TypeOK, ChanInv, Return
<1>6. ASSUME NEW h \in Resumes, Reset(h) PROVE ChanInv'
  <2>1. \A c \in Nat: c <= ch => c <= ch + 1
    BY TypeOK DEF TypeOK
  <2>2. ch + 1 <= ch + 1
    BY TypeOK DEF TypeOK
  <2>3. QED
    BY Zenon, <1>0, <1>6, <2>1, <2>2, TypeOK DEF TypeOK, ChanInv, Reset
<1>7. ASSUME FirstWatch PROVE ChanInv'
  <2>1. ch <= ch
    BY TypeOK DEF TypeOK
  <2>2. QED
    BY Zenon, <1>0, <1>7, <2>1, TypeOK DEF TypeOK, ChanInv, FirstWatch
<1>8. ASSUME NEW h \in Resumes, ResumeStep(h) PROVE ChanInv'
  <2>1. h \in Handlers
    BY DEF Handlers
  <2>2. QED
    BY Zenon, <1>1, <1>5, <1>6, <1>8, <2>1 DEF ResumeStep, Lookup, Refuse, Deliver
<1>9. ASSUME NEW h \in Handlers, StreamStep(h) \/ ClientLeaves(h) PROVE ChanInv'
  BY Zenon, <1>1, <1>5, <1>9 DEF StreamStep, StreamOpens, StreamWrites, StreamPauses,
     StreamEnds, ClientLeaves
<1>10. QED
  BY Zenon, <1>2, <1>3, <1>4, <1>7, <1>8, <1>9, MainSteps DEF RequestStep, CallbackStep

\* A step leaves the current channel with a stream, unless it is closed.
LEMMA HoldStep ==
  ASSUME TypeOK, PendInv, MainInv, OrderInv, orderly, Next, OneAsker, OneAsker'
  PROVE  HoldInv'
<1> USE DEF agentVars, askVars, pauseVars, producerVars, handlerVars
<1>0. ChanInv /\ HoldInv /\ SoleInv
  BY OrderInv DEF OrderInv
<1>a. First \in Handlers /\ Resumes \subseteq Handlers /\ First \notin Resumes
  BY HandlerAssumption DEF Handlers
<1>1. ASSUME UNCHANGED <<hs, ch, watch>>, signalled \subseteq signalled' PROVE HoldInv'
  BY Zenon, <1>0, <1>1 DEF HoldInv, SomePaused
<1>2. ASSUME AskPublish(Main) \/ CallbackStep(Main) \/ AgentEnds PROVE HoldInv'
  <2>1. UNCHANGED <<hs, ch, watch>>
    BY Zenon, <1>2, RunFrame, TypeOK DEF RunStep, Agents
  <2>2. signalled \subseteq signalled'
    BY Zenon, <1>2 DEF AskPublish, CallbackStep, AskRegister, AskMark, AskSignalRead,
       AskSignalClose, AskAnswered, AskAborted, AskRemove, AskReturn, AgentEnds
  <2>3. QED
    BY <1>1, <2>1, <2>2
<1>3. ASSUME AsideStep PROVE HoldInv'
  BY Zenon, <1>1, <1>3, AsideFrame, TypeOK
<1>4. ASSUME NEW h \in Resumes, NEW a \in 1 .. MaxAsks, Lookup(h, a) PROVE HoldInv'
  <2>1. SomePaused /\ \A k \in Handlers: hs[k] \in Quiet
    BY Zenon, <1>4, orderly DEF Lookup, Orderly, SomePaused, Quiet
  <2>2. ch \in signalled
    BY Zenon, <1>0, <2>1 DEF HoldInv
  <2>3. SomePaused'
    BY Zenon, <1>a, <1>4, <2>1, TypeOK DEF TypeOK, Lookup, At, SomePaused
  <2>4. QED
    BY Zenon, <1>0, <1>a, <1>4, <2>1, <2>2, <2>3, TypeOK DEF TypeOK, HoldInv, Lookup, At
<1>5. ASSUME NEW h \in Resumes, NEW a \in 1 .. MaxAsks, Refuse(h, a) PROVE HoldInv'
  <2>1. SomePaused /\ \A k \in Handlers \ {h}: hs[k] \in Quiet
    BY Zenon, <1>0, <1>5, orderly DEF Refuse, Return, At, Orderly, SoleInv, SomePaused, Quiet
  <2>2. ch \in signalled
    BY Zenon, <1>0, <1>5, <2>1 DEF HoldInv, SoleInv, Refuse, Return, At, Quiet
  <2>3. SomePaused'
    BY Zenon, <1>a, <1>5, <2>1, TypeOK DEF TypeOK, Refuse, Return, At, SomePaused
  <2>4. hs'[First] # "none"
    BY Zenon, <1>0, <1>a, <1>5, <2>1, TypeOK DEF TypeOK, HoldInv, Refuse, Return, At
  <2>5. QED
    BY Zenon, <1>5, <2>2, <2>3, <2>4 DEF HoldInv, Refuse
<1>6. ASSUME NEW h \in Resumes, Reset(h) PROVE HoldInv'
  <2>1. SomePaused'
    BY Zenon, <1>0, <1>a, <1>6, TypeOK DEF TypeOK, SoleInv, Reset, At, SomePaused
  <2>2. hs'[First] # "none"
    BY Zenon, <1>0, <1>a, <1>6, TypeOK DEF TypeOK, HoldInv, SoleInv, Reset, At
  <2>3. hs'[h] \notin Quiet /\ watch'[h] = ch'
    BY Zenon, <1>a, <1>6, TypeOK DEF TypeOK, Reset, At, Quiet
  <2>4. QED
    BY Zenon, <1>a, <2>1, <2>2, <2>3 DEF HoldInv
<1>7. ASSUME NEW h \in Handlers, NEW from \in {"reset", "watching", "open"},
             NEW to \in {"watching", "open", "ended", "left"}, At(h, from, to),
             (to \notin {"ended", "left"}) => UNCHANGED watch,
             \A k \in Handlers \ {h}: watch'[k] = watch[k],
             UNCHANGED <<ch, signalled>>
      PROVE  HoldInv'
  <2>1. SomePaused' <=> SomePaused
    BY Zenon, <1>7, TypeOK DEF TypeOK, At, SomePaused
  <2>2. SomePaused => hs'[First] # "none"
    BY Zenon, <1>0, <1>a, <1>7, TypeOK DEF TypeOK, HoldInv, At
  <2>3. ~SomePaused => ch = 0 /\ \A k \in Resumes: hs'[k] = "none"
    BY Zenon, <1>0, <1>a, <1>7, TypeOK DEF TypeOK, HoldInv, At
  <2>4. ASSUME ch \notin signalled, SomePaused
        PROVE  \E k \in Handlers: hs'[k] \notin Quiet
                                  /\ (watch'[k] = ch \/ hs'[k] \in {"ended", "left"})
    <3>1. PICK k \in Handlers: hs[k] \notin Quiet /\ (watch[k] = ch \/ hs[k] \in {"ended", "left"})
      BY Zenon, <1>0, <2>4 DEF HoldInv
    <3>2. CASE k = h
      BY Zenon, <1>7, <3>1, <3>2, TypeOK DEF TypeOK, At, Quiet
    <3>3. CASE k # h
      BY Zenon, <1>7, <3>1, <3>3, TypeOK DEF TypeOK, At
    <3>4. QED
      BY <3>2, <3>3
  <2>5. QED
    BY Zenon, <1>7, <2>1, <2>2, <2>3, <2>4 DEF HoldInv
<1>8. ASSUME NEW h \in Resumes, Deliver(h) PROVE HoldInv'
  BY Zenon, <1>a, <1>7, <1>8 DEF Deliver
<1>9. ASSUME FirstWatch PROVE HoldInv'
  <2>1. hs[First] = "none" /\ ~SomePaused
    BY Zenon, <1>0, <1>9 DEF FirstWatch, At, HoldInv
  <2>2. ~SomePaused'
    BY Zenon, <1>9, <2>1, TypeOK DEF TypeOK, FirstWatch, At, SomePaused
  <2>3. QED
    BY Zenon, <1>0, <1>a, <1>9, <2>1, <2>2, TypeOK DEF TypeOK, HoldInv, FirstWatch, At
<1>10. ASSUME NEW h \in Handlers, StreamOpens(h) PROVE HoldInv'
  BY Zenon, <1>7, <1>10 DEF StreamOpens
<1>11. ASSUME NEW h \in Handlers, StreamWrites(h) PROVE HoldInv'
  BY Zenon, <1>1, <1>11 DEF StreamWrites
<1>12. ASSUME NEW h \in Handlers, StreamEnds(h) \/ ClientLeaves(h) PROVE HoldInv'
  BY Zenon, <1>7, <1>12, TypeOK DEF TypeOK, StreamEnds, ClientLeaves, Return
<1>13. ASSUME NEW h \in Handlers, StreamPauses(h) PROVE HoldInv'
  <2>1. SomePaused'
    BY Zenon, <1>13, TypeOK DEF TypeOK, StreamPauses, Return, At, SomePaused
  <2>2. hs'[First] # "none"
    <3>1. CASE h = First
      BY Zenon, <1>13, <3>1, TypeOK DEF TypeOK, StreamPauses, Return, At
    <3>2. CASE h # First
      BY Zenon, <1>0, <1>13, <1>a, <3>2, TypeOK DEF TypeOK, HoldInv, StreamPauses, Return, At,
         Handlers
    <3>3. QED
      BY <3>1, <3>2
  <2>3. ASSUME ch \notin signalled
        PROVE  \E k \in Handlers: hs'[k] \notin Quiet
                                  /\ (watch'[k] = ch \/ hs'[k] \in {"ended", "left"})
    <3>1. watch[h] # ch
      BY Zenon, <1>13, <2>3 DEF StreamPauses
    <3>2. SomePaused
      <4>1. ASSUME ~SomePaused PROVE watch[h] = ch
        <5>1. ch = 0 /\ watch[h] <= ch /\ watch[h] \in Nat
          BY Zenon, <1>0, <4>1, TypeOK DEF TypeOK, HoldInv, ChanInv
        <5>2. QED
          BY <5>1
      <4>2. QED
        BY <3>1, <4>1
    <3>3. PICK k \in Handlers: hs[k] \notin Quiet /\ (watch[k] = ch \/ hs[k] \in {"ended", "left"})
      BY Zenon, <1>0, <2>3, <3>2 DEF HoldInv
    <3>4. k # h
      BY Zenon, <1>13, <3>1, <3>3 DEF StreamPauses, Return, At
    <3>5. QED
      BY Zenon, <1>13, <3>3, <3>4, TypeOK DEF TypeOK, StreamPauses, Return, At
  <2>4. QED
    BY Zenon, <1>13, <2>1, <2>2, <2>3 DEF HoldInv, StreamPauses
<1>14. QED
  BY Zenon, <1>2, <1>3, <1>4, <1>5, <1>6, <1>8, <1>9, <1>10, <1>11, <1>12, <1>13, MainSteps
     DEF RequestStep, ResumeStep, StreamStep

\* A step closes a channel at most once, while its ask waits.
LEMMA FreshStep ==
  ASSUME TypeOK, PendInv, MainInv, OrderInv, Next, OneAsker, OneAsker'
  PROVE  ~panicked' /\ FreshInv'
<1> USE DEF agentVars, askVars, pauseVars, producerVars, handlerVars, AsksNoMore
<1>0. ~panicked /\ ChanInv /\ FreshInv /\ SoleInv
  BY OrderInv DEF OrderInv
<1>a. Main \in Agents /\ cur[Main] = ask
  BY MainInv DEF MainInv, Agents
<1>1. ASSUME AskPublish(Main) PROVE ~panicked' /\ FreshInv'
  BY Zenon, <1>0, <1>a, <1>1, TypeOK DEF TypeOK, FreshInv, AskPublish, GoTo
<1>2. ASSUME AskRegister(Main) PROVE ~panicked' /\ FreshInv'
  <2>1. ask \in 1 .. MaxAsks
    BY <1>a, <1>2, CallbackHasAsk, TypeOK, PendInv DEF AskRegister, GoTo, InCallback
  <2>2. QED
    BY Zenon, <1>0, <1>a, <1>2, <2>1, TypeOK DEF TypeOK, FreshInv, AskRegister, GoTo
<1>3. ASSUME AskMark(Main) PROVE ~panicked' /\ FreshInv'
  BY Zenon, <1>0, <1>a, <1>3, TypeOK DEF TypeOK, FreshInv, AskMark, GoTo
<1>4. ASSUME AskSignalRead(Main) PROVE ~panicked' /\ FreshInv'
  BY Zenon, <1>0, <1>a, <1>4, TypeOK DEF TypeOK, FreshInv, AskSignalRead, GoTo
<1>5. ASSUME AskSignalClose(Main) PROVE ~panicked' /\ FreshInv'
  <2>1. sigCh[Main] = ch /\ ch \notin signalled
    BY Zenon, <1>0, <1>5 DEF FreshInv, AskSignalClose, GoTo
  <2>2. QED
    BY Zenon, <1>0, <1>a, <1>5, <2>1, TypeOK DEF TypeOK, FreshInv, AskSignalClose, GoTo
<1>6. ASSUME AskAnswered(Main) PROVE ~panicked' /\ FreshInv'
  <2>1. ch \notin signalled
    BY Zenon, <1>0, <1>a, <1>6 DEF FreshInv, AskAnswered, GoTo
  <2>2. QED
    BY Zenon, <1>0, <1>a, <1>6, <2>1, TypeOK DEF TypeOK, FreshInv, AskAnswered, GoTo
<1>7. ASSUME AskAborted(Main) PROVE ~panicked' /\ FreshInv'
  BY Zenon, <1>0, <1>a, <1>7, TypeOK DEF TypeOK, FreshInv, AskAborted, GoTo
<1>8. ASSUME AskRemove(Main) PROVE ~panicked' /\ FreshInv'
  BY Zenon, <1>0, <1>a, <1>8, TypeOK DEF TypeOK, FreshInv, AskRemove, GoTo
<1>9. ASSUME AskReturn(Main) PROVE ~panicked' /\ FreshInv'
  BY Zenon, <1>0, <1>a, <1>9, TypeOK DEF TypeOK, FreshInv, AskReturn, GoTo
<1>10. ASSUME AgentEnds PROVE ~panicked' /\ FreshInv'
  BY Zenon, <1>0, <1>a, <1>10, TypeOK DEF TypeOK, FreshInv, AgentEnds, GoTo
<1>11. ASSUME AsideStep PROVE ~panicked' /\ FreshInv'
  <2>1. /\ UNCHANGED <<fn, ask, answerCh, ch, sigCh, signalled, panicked>>
        /\ AsksNoMore => AsksNoMore'
    BY Zenon, <1>11, AsideFrame, TypeOK
  <2>2. QED
    BY <1>0, <2>1 DEF FreshInv
<1>12. ASSUME RequestStep, UNCHANGED <<ch, answerCh>> PROVE ~panicked' /\ FreshInv'
  <2>1. UNCHANGED <<fn, ask, sigCh, signalled, panicked>> /\ (AsksNoMore => AsksNoMore')
    BY Zenon, <1>12, RequestFrame, TypeOK
  <2>2. QED
    BY <1>0, <1>12, <2>1 DEF FreshInv
<1>13. ASSUME NEW h \in Resumes, Reset(h), RequestStep PROVE ~panicked' /\ FreshInv'
  <2>1. ch' \notin signalled
    <3>1. \A c \in signalled: c <= ch /\ c \in Nat
      BY Zenon, <1>0, TypeOK DEF TypeOK, ChanInv
    <3>2. ch' = ch + 1 /\ ch \in Nat
      BY Zenon, <1>13, TypeOK DEF TypeOK, Reset
    <3>3. QED
      BY <3>1, <3>2
  <2>2. fn[Main] # "signalling"
    BY Zenon, <1>0, <1>13 DEF SoleInv, Reset, At
  <2>3. QED
    BY Zenon, <1>0, <1>13, <2>1, <2>2, RequestFrame, TypeOK DEF FreshInv, Reset
<1>14. ASSUME NEW h \in Resumes, Deliver(h), RequestStep PROVE ~panicked' /\ FreshInv'
  <2>1. fn[Main] \notin {"registered", "marked", "signalling"} /\ ch \notin signalled
    BY Zenon, <1>0, <1>14 DEF SoleInv, Deliver, At
  <2>2. QED
    BY Zenon, <1>0, <1>14, <2>1, RequestFrame, TypeOK DEF FreshInv, Deliver
<1>15. ASSUME RequestStep PROVE ~panicked' /\ FreshInv'
  BY Zenon, <1>12, <1>13, <1>14, <1>15 DEF RequestStep, ResumeStep, StreamStep, Lookup, Refuse,
     FirstWatch, StreamOpens, StreamWrites, StreamPauses, StreamEnds, ClientLeaves
<1>16. QED
  BY Zenon, <1>1, <1>2, <1>3, <1>4, <1>5, <1>6, <1>7, <1>8, <1>9, <1>10, <1>11, <1>15,
     MainSteps DEF CallbackStep

\* A step leaves a request on its way to deliver alone.
LEMMA SoleStep ==
  ASSUME TypeOK, PendInv, MatchInv, MainInv, OrderInv, orderly, Next, OneAsker, OneAsker'
  PROVE  SoleInv'
<1> USE DEF agentVars, askVars, pauseVars, producerVars, handlerVars
<1>0. HoldInv /\ ChanInv /\ FreshInv /\ SoleInv
  BY OrderInv DEF OrderInv
<1>a. Main \in Agents /\ cur[Main] = ask /\ Resumes \subseteq Handlers
  BY MainInv DEF MainInv, Agents, Handlers
<1>b. ASSUME NEW h \in Resumes, hs[h] \in {"looked", "reset"}
      PROVE  (fn[Main] = "waiting" /\ pa[h] = ask) \/ AsksNoMore
  BY Zenon, <1>0, <1>b DEF SoleInv
<1>1. ASSUME UNCHANGED <<hs, pa, watch, ch, signalled, answerCh>>,
             \A h \in Resumes: hs[h] \in {"looked", "reset"} =>
               (fn'[Main] = "waiting" /\ pa[h] = ask') \/ AsksNoMore'
      PROVE  SoleInv'
  BY Zenon, <1>0, <1>1 DEF SoleInv, SomePaused
<1>2. ASSUME UNCHANGED <<hs, pa, watch, ch>>, \A h \in Resumes: hs[h] \notin {"looked", "reset"}
      PROVE  SoleInv'
  BY Zenon, <1>2 DEF SoleInv
<1>3. ASSUME AskPublish(Main) \/ AskRegister(Main) \/ AskMark(Main) \/ AskSignalRead(Main)
             \/ AskSignalClose(Main) \/ AskReturn(Main)
      PROVE  SoleInv'
  <2>1. fn[Main] # "waiting" /\ ~AsksNoMore
    BY Zenon, <1>3 DEF AsksNoMore, AskPublish, AskRegister, AskMark, AskSignalRead,
       AskSignalClose, AskReturn, GoTo
  <2>2. UNCHANGED <<hs, pa, watch, ch>>
    BY Zenon, <1>3, <1>a, RunFrame, TypeOK DEF RunStep, CallbackStep
  <2>3. QED
    BY Zenon, <1>2, <1>b, <2>1, <2>2
<1>4. ASSUME AskAnswered(Main) PROVE SoleInv'
  <2>1. fn[Main] = "waiting" /\ answerCh[ask] # 0 /\ ~AsksNoMore /\ UNCHANGED <<hs, pa, watch, ch>>
    BY Zenon, <1>4, <1>a DEF AskAnswered, GoTo, AsksNoMore
  <2>2. \A h \in Resumes: hs[h] \notin {"looked", "reset"}
    BY Zenon, <1>0, <1>b, <2>1 DEF SoleInv
  <2>3. QED
    BY Zenon, <1>2, <2>1, <2>2
<1>5. ASSUME AskAborted(Main) \/ AskRemove(Main) \/ AgentEnds PROVE SoleInv'
  <2>1. /\ UNCHANGED <<hs, pa, watch, ch, signalled, answerCh, cancelled>>
        /\ fn[Main] = "waiting" => Main \in cancelled
        /\ fn[Main] \in {"waiting", "answered", "aborted", "running"}
    BY Zenon, <1>5 DEF AskAborted, AskRemove, AgentEnds, GoTo
  <2>2. fn[Main] # "answered" => fn'[Main] \in {"aborted", "running", "done"}
    BY Zenon, <1>5, <1>a, TypeOK DEF TypeOK, AskAborted, AskRemove, AgentEnds, GoTo
  <2>3. QED
    BY Zenon, <1>1, <1>b, <2>1, <2>2 DEF AsksNoMore
<1>6. ASSUME AsideStep PROVE SoleInv'
  BY Zenon, <1>1, <1>6, <1>b, AsideFrame, TypeOK DEF AsksNoMore
<1>7. ASSUME RequestStep
      PROVE  /\ UNCHANGED <<fn, ask, signalled>>
             /\ AsksNoMore => AsksNoMore'
  BY Zenon, <1>7, RequestFrame, TypeOK DEF AsksNoMore
<1>8. ASSUME NEW h \in Resumes, NEW a \in 1 .. MaxAsks, Lookup(h, a), RequestStep PROVE SoleInv'
  <2>1. SomePaused /\ \A k \in Handlers: hs[k] \in Quiet
    BY Zenon, <1>8, orderly DEF Lookup, Orderly, SomePaused, Quiet
  <2>2. ch \in signalled
    BY Zenon, <1>0, <2>1 DEF HoldInv
  <2>3. SomePaused'
    BY Zenon, <1>a, <1>8, <2>1, TypeOK DEF TypeOK, Lookup, At, SomePaused
  <2>4. byRun # 0 /\ byRun = ask /\ fn[Main] \in Registered
    <3>1. byRun = a /\ a # 0
      BY <1>8 DEF Lookup
    <3>2. QED
      BY Zenon, <3>1, MainInv DEF MainInv
  <2>5. fn[Main] \in {"waiting", "aborted"} /\ answerCh[ask] = 0
    BY Zenon, <1>0, <2>2, <2>4 DEF FreshInv, AsksNoMore, Registered
  <2>6. fn[Main] = "waiting" \/ AsksNoMore
    BY Zenon, <1>0, <2>2 DEF FreshInv
  <2>7. /\ hs' = [hs EXCEPT ![h] = "looked"] /\ pa' = [pa EXCEPT ![h] = ask]
        /\ UNCHANGED <<ch, answerCh, signalled, watch>>
    BY Zenon, <1>8, <2>4 DEF Lookup, At
  <2>8. ASSUME NEW k \in Resumes, hs'[k] \in {"looked", "reset"} PROVE k = h
    BY Zenon, <1>a, <2>1, <2>7, <2>8, TypeOK DEF TypeOK, Quiet
  <2>9. pa'[h] = ask /\ hs'[h] = "looked" /\ \A k \in Handlers \ {h}: hs'[k] \in Quiet
    BY Zenon, <1>a, <2>1, <2>7, TypeOK DEF TypeOK
  <2>10. QED
    BY Zenon, <1>7, <1>8, <2>2, <2>3, <2>5, <2>6, <2>7, <2>8, <2>9 DEF SoleInv
<1>9. ASSUME NEW h \in Resumes, Reset(h), RequestStep PROVE SoleInv'
  <2>1. ch' \notin signalled'
    <3>1. \A c \in signalled: c <= ch /\ c \in Nat
      BY Zenon, <1>0, TypeOK DEF TypeOK, ChanInv
    <3>2. ch' = ch + 1 /\ ch \in Nat /\ signalled' = signalled
      BY Zenon, <1>9, TypeOK DEF TypeOK, Reset
    <3>3. QED
      BY <3>1, <3>2
  <2>2. /\ hs[h] = "looked" /\ hs' = [hs EXCEPT ![h] = "reset"]
        /\ watch' = [watch EXCEPT ![h] = ch'] /\ UNCHANGED <<pa, answerCh>>
    BY Zenon, <1>9 DEF Reset, At
  <2>3. SomePaused'
    BY Zenon, <1>0, <1>a, <2>2, TypeOK DEF TypeOK, SoleInv, SomePaused
  <2>4. ASSUME NEW k \in Resumes, hs'[k] \in {"looked", "reset"} PROVE k = h
    BY Zenon, <1>0, <1>a, <2>2, <2>4, TypeOK DEF TypeOK, SoleInv, Quiet
  <2>5. hs'[h] = "reset" /\ watch'[h] = ch' /\ \A k \in Handlers \ {h}: hs'[k] \in Quiet
    BY Zenon, <1>0, <1>a, <2>2, TypeOK DEF TypeOK, SoleInv
  <2>6. answerCh'[pa'[h]] = 0
    BY Zenon, <1>0, <2>2 DEF SoleInv
  <2>7. (fn'[Main] = "waiting" /\ pa'[h] = ask') \/ AsksNoMore'
    BY Zenon, <1>7, <1>9, <1>b, <2>2
  <2>8. QED
    BY Zenon, <2>1, <2>3, <2>4, <2>5, <2>6, <2>7 DEF SoleInv
<1>10. ASSUME NEW h \in Resumes, Deliver(h) PROVE SoleInv'
  <2>1. hs[h] = "reset" /\ hs' = [hs EXCEPT ![h] = "watching"]
    BY Zenon, <1>10 DEF Deliver, At
  <2>2. \A k \in Resumes: hs'[k] \notin {"looked", "reset"}
    BY Zenon, <1>0, <1>a, <2>1, TypeOK DEF TypeOK, SoleInv, Quiet
  <2>3. QED
    BY Zenon, <2>2 DEF SoleInv
<1>11. ASSUME NEW h \in Handlers, NEW from, NEW to, to \notin {"looked", "reset"},
              At(h, from, to), from \notin Quiet \/ (h = First /\ from = "none") \/ to \in Quiet,
              from # "paused",
              \A k \in Resumes \ {h}: pa'[k] = pa[k] /\ watch'[k] = watch[k],
              UNCHANGED <<ch, signalled, answerCh>>, RequestStep
       PROVE  SoleInv'
  <2>1. SUFFICES ASSUME NEW k \in Resumes, hs'[k] \in {"looked", "reset"}
                 PROVE  /\ SomePaused'
                        /\ \A j \in Handlers \ {k}: hs'[j] \in Quiet
                        /\ answerCh'[pa'[k]] = 0
                        /\ hs'[k] = "looked" => ch' \in signalled'
                        /\ hs'[k] = "reset" => ch' \notin signalled' /\ watch'[k] = ch'
                        /\ (fn'[Main] = "waiting" /\ pa'[k] = ask') \/ AsksNoMore'
    BY Zenon DEF SoleInv
  <2>2. k # h /\ hs'[k] = hs[k] /\ pa'[k] = pa[k] /\ watch'[k] = watch[k]
    BY Zenon, <1>a, <1>11, <2>1, TypeOK DEF TypeOK, At
  <2>3. SomePaused /\ \A j \in Handlers \ {k}: hs[j] \in Quiet
    BY Zenon, <1>0, <2>1, <2>2 DEF SoleInv
  <2>4. to \in Quiet
    BY Zenon, <1>0, <1>11, <2>2, <2>3 DEF At, HoldInv
  <2>5. SomePaused' /\ \A j \in Handlers \ {k}: hs'[j] \in Quiet
    BY Zenon, <1>11, <2>3, <2>4, TypeOK DEF TypeOK, At, SomePaused
  <2>6. QED
    BY Zenon, <1>0, <1>7, <1>11, <2>1, <2>2, <2>5 DEF SoleInv
<1>12. ASSUME NEW h \in Resumes, NEW a \in 1 .. MaxAsks, Refuse(h, a), RequestStep PROVE SoleInv'
  <2>1. PICK from \in {"none", "looked"}: Return(h, from, "refused")
    BY Zenon, <1>12 DEF Refuse
  <2>2. /\ \A k \in Resumes \ {h}: pa'[k] = pa[k] /\ watch'[k] = watch[k]
        /\ UNCHANGED <<ch, signalled, answerCh>>
    BY Zenon, <1>12, <1>a, <2>1, TypeOK DEF TypeOK, Refuse, Return
  <2>3. At(h, from, "refused") /\ from # "paused" /\ "refused" \in Quiet
    BY Zenon, <2>1 DEF Return, Quiet
  <2>4. QED
    BY Zenon, <1>11, <1>12, <1>a, <2>2, <2>3
<1>13. ASSUME FirstWatch, RequestStep PROVE SoleInv'
  <2>1. First \in Handlers /\ First \notin Resumes
    BY HandlerAssumption DEF Handlers
  <2>2. QED
    BY Zenon, <1>11, <1>13, <1>a, <2>1, TypeOK DEF TypeOK, FirstWatch
<1>14. ASSUME NEW h \in Handlers, StreamOpens(h), RequestStep PROVE SoleInv'
  BY Zenon, <1>11, <1>14 DEF StreamOpens, Quiet
<1>15. ASSUME NEW h \in Handlers, StreamWrites(h), RequestStep PROVE SoleInv'
  BY Zenon, <1>1, <1>7, <1>15, <1>b DEF StreamWrites
<1>16. ASSUME NEW h \in Handlers, StreamPauses(h) \/ StreamEnds(h) \/ ClientLeaves(h), RequestStep
       PROVE SoleInv'
  BY Zenon, <1>11, <1>16, <1>a, TypeOK DEF TypeOK, StreamPauses, StreamEnds, ClientLeaves,
     Return, Quiet
<1>17. ASSUME RequestStep PROVE SoleInv'
  BY Zenon, <1>8, <1>9, <1>10, <1>12, <1>13, <1>14, <1>15, <1>16, <1>17 DEF RequestStep,
     ResumeStep, StreamStep
<1>18. QED
  BY Zenon, <1>3, <1>4, <1>5, <1>6, <1>17, MainSteps DEF CallbackStep

-----------------------------------------------------------------------------
(* The theorems.                                                           *)

\* A run starts with nothing asked and no request under way.
LEMMA InitIInv == Init => IInv
<1> SUFFICES ASSUME Init PROVE IInv
  OBVIOUS
<1>0. Main \in Agents
  BY DEF Agents
<1>1. TypeOK
  <2>1. 0 \in 0 .. MaxAsks /\ 0 \in Nat /\ 0 \in 0 .. 0
    BY AskBound
  <2>2. QED
    BY Zenon, <2>1 DEF TypeOK, Init
<1>2. PendInv
  <2>1. \A g \in Agents: cur[g] <= ask
    BY DEF Init
  <2>2. QED
    BY Zenon, <2>1 DEF PendInv, Init, InCallback
<1>3. MatchInv
  BY Zenon DEF MatchInv, Init, Handlers
<1>4. MainInv
  BY Zenon, <1>0 DEF MainInv, Init, Registered
<1>5. ~SomePaused
  BY Zenon DEF SomePaused, Init
<1>6. ChanInv
  BY DEF ChanInv, Init
<1>7. HoldInv /\ FreshInv /\ SoleInv /\ ~panicked
  BY Zenon, <1>0, <1>5 DEF HoldInv, FreshInv, SoleInv, Init, Handlers
<1>8. QED
  BY <1>1, <1>2, <1>3, <1>4, <1>6, <1>7 DEF IInv, OrderInv

\* The invariant is inductive.
LEMMA StepIInv == IInv /\ [Next]_vars => IInv'
<1> SUFFICES ASSUME IInv, [Next]_vars PROVE IInv'
  OBVIOUS
<1>0. TypeOK /\ PendInv /\ MatchInv
  BY DEF IInv
<1>1. CASE Next
  <2>1. TypeOK' /\ PendInv' /\ MatchInv'
    BY Zenon, <1>0, <1>1, TypeStep, PendStep, MatchStep
  <2>2. ASSUME OneAsker' PROVE OneAsker /\ MainInv /\ MainInv'
    <3>1. OneAsker
      BY Zenon, <1>0, <1>1, <2>2, OneAskerBefore
    <3>2. MainInv
      BY Zenon, <3>1 DEF IInv
    <3>3. QED
      BY Zenon, <1>0, <1>1, <2>2, <3>1, <3>2, MainStep
  <2>3. ASSUME OneAsker', orderly' PROVE OrderInv'
    <3>1. OneAsker /\ MainInv
      BY <2>2, <2>3
    <3>2. orderly
      <4>1. RunStep \/ RequestStep
        BY Zenon, <1>1 DEF Next, RunStep, RequestStep
      <4>2. QED
        BY Zenon, <1>0, <2>3, <4>1, RunFrame, RequestFrame
    <3>3. OrderInv
      BY Zenon, <3>1, <3>2 DEF IInv
    <3>4. ChanInv' /\ HoldInv'
      BY Zenon, <1>0, <1>1, <2>3, <3>1, <3>2, <3>3, ChanStep, HoldStep
    <3>5. ~panicked' /\ FreshInv'
      BY Zenon, <1>0, <1>1, <2>3, <3>1, <3>2, <3>3, FreshStep
    <3>6. SoleInv'
      BY Zenon, <1>0, <1>1, <2>3, <3>1, <3>2, <3>3, SoleStep
    <3>7. QED
      BY <3>4, <3>5, <3>6 DEF OrderInv
  <2>4. QED
    BY Zenon, <2>1, <2>2, <2>3 DEF IInv
<1>2. CASE UNCHANGED vars
  <2> USE <1>2 DEF vars, agentVars, askVars, pauseVars, producerVars, handlerVars
  <2>1. TypeOK'
    BY Zenon, <1>0 DEF TypeOK
  <2>2. PendInv' /\ MatchInv'
    BY Zenon, <1>0 DEF PendInv, MatchInv
  <2>3. OneAsker' => OneAsker /\ (MainInv => MainInv')
    BY Zenon DEF OneAsker, MainInv
  <2>4. ASSUME OrderInv PROVE OrderInv'
    <3>1. ~panicked' /\ ChanInv' /\ HoldInv'
      BY Zenon, <2>4 DEF OrderInv, ChanInv, HoldInv, SomePaused
    <3>2. FreshInv'
      BY <2>4 DEF OrderInv, FreshInv, AsksNoMore
    <3>3. SoleInv'
      BY Zenon, <2>4 DEF OrderInv, SoleInv, SomePaused, AsksNoMore
    <3>4. QED
      BY <3>1, <3>2, <3>3 DEF OrderInv
  <2>5. QED
    BY Zenon, <2>1, <2>2, <2>3, <2>4 DEF IInv
<1>3. QED
  BY <1>1, <1>2

\* It holds in every run.
LEMMA AskInvariant == Spec => []IInv
  BY InitIInv, StepIInv, PTL DEF Spec

\* Every variable of the pause and resume protocol keeps its type, for any
\* number of agents, requests and asks; a registered ask is one the run has
\* made.
THEOREM AskTypeOK == Spec => []TypeOK
<1>1. IInv => TypeOK
  BY DEF IInv
<1>2. QED
  BY <1>1, AskInvariant, PTL

\* An ask returns only with an answer meant for it: handleRunsSubmit and the
\* resumed chat completion deliver to the ask whose tool_call_id they compared,
\* however many requests are late, doubled or dropped and however many agents
\* ask at once.
THEOREM AskAnswersMatch == Spec => []AnswersMatch
<1>1. IInv => AnswersMatch
  BY DEF IInv, MatchInv, AnswersMatch
<1>2. QED
  BY <1>1, AskInvariant, PTL

\* The registry's entry always belongs to a callback that is still there to take
\* the answer, although concurrent callbacks overwrite and remove each other's
\* entry and the producer's cleanup removes what it finds.
THEOREM AskPending == Spec => []PendingIsCurrent
<1>1. Registered \subseteq InCallback
  BY DEF Registered, InCallback
<1>2. IInv => PendingIsCurrent
  BY Zenon, <1>1 DEF IInv, PendInv, PendingIsCurrent
<1>3. QED
  BY <1>2, AskInvariant, PTL

\* While only the main agent asks, a run that reports requires_action has its
\* ask in the registry until it is answered or cancelled.
THEOREM AskAnswerable == Spec => []RequiresActionIsAnswerable
<1>1. IInv => RequiresActionIsAnswerable
  BY Zenon DEF IInv, MainInv, RequiresActionIsAnswerable, Registered
<1>2. QED
  BY <1>1, AskInvariant, PTL

\* While only the main agent asks, and with clients that answer one at a time
\* and after the pause, Signal never closes a closed channel, over any number of
\* rounds.
THEOREM AskOneAskerNeverPanics == Spec => []OneAskerNeverPanics
<1>1. IInv => OneAskerNeverPanics
  BY DEF IInv, OrderInv, OneAskerNeverPanics
<1>2. QED
  BY <1>1, AskInvariant, PTL

\* While only the main agent asks, and with such clients, the send to AnswerCh
\* never blocks its handler.
THEOREM AskOrderlyAnswersAtOnce == Spec => []OrderlyAnswersAtOnce
<1>1. IInv => OrderlyAnswersAtOnce
  BY DEF IInv, OrderInv, SoleInv, OrderlyAnswersAtOnce
<1>2. QED
  BY <1>1, AskInvariant, PTL
=============================================================================
