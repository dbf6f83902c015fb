----------------------------- MODULE AskResume -----------------------------
(***************************************************************************)
(* Pausing and resuming one run of the OpenAI gateway at                   *)
(* ask_user_question: the ask callback of ask_handler.go in the goroutines *)
(* of the agents, the registry and the pause signal of pending_ask.go, the *)
(* handlers that resume the run (POST /v1/runs/:id/submit, and a chat      *)
(* completion with a tool message), and the SSE streams that end when the  *)
(* run pauses.                                                             *)
(*                                                                         *)
(* The callback is a value of the producer's context.  A subagent that     *)
(* Task starts in the background inherits it (runTaskInvocation, Executor. *)
(* Spawn) and runs on beside the main agent, even past its end, so several *)
(* callbacks can be in progress.  An agent makes its tool calls in turn.   *)
(*                                                                         *)
(* An ask is its number in the run and stands for its tool_call_id; an     *)
(* answer is the number of the ask its client meant.  A pause channel is   *)
(* the number of Reset calls before it was made.  The chunks of an ask are *)
(* one event; module Run has the delivery of events, module Gateway the    *)
(* hub's part in the run's life.                                           *)
(***************************************************************************)
EXTENDS Integers

CONSTANTS
  Main,      \* the agent of the run
  Subagents, \* its background subagents
  First,     \* the request that creates the run
  Resumes,   \* the requests that answer an ask of the run
  MaxAsks    \* bound on the asks of the run

ASSUME AgentAssumption == Main \notin Subagents
ASSUME HandlerAssumption == First \notin Resumes
ASSUME AskBound == MaxAsks \in Nat

Agents == Subagents \cup {Main}
Handlers == Resumes \cup {First}

VARIABLES
  orderly,    \* never changes: the clients of this run are orderly (see Orderly)
  fn,         \* where each agent is, in the callback or outside
  cur,        \* the last ask of each agent, 0 before its first
  ask,        \* the asks so far
  status,     \* what a callback last set the run's status to
  byRun,      \* the registry's entry for the run: the pending ask, or 0
  answerCh,   \* AnswerCh of each ask, capacity 1: 0 when empty
  used,       \* the answer with which each ask returned
  ch,         \* ps.ch
  sigCh,      \* the channel each agent's Signal has read
  signalled,  \* the closed pause channels
  panicked,   \* the process died of closing a closed channel
  cancelled,  \* the agents whose context is cancelled
  producer,   \* where runChatProducer is
  leftover,   \* the pending ask its cleanup found
  hs,         \* where each handler is
  req,        \* the ask its request answers
  pa,         \* the pending ask it found
  watch,      \* the pause channel its stream watches
  unread      \* the asks waiting in its event channel, not written to its client

agentVars == <<fn, cur>>
askVars == <<ask, status, byRun, used>>
pauseVars == <<ch, sigCh, signalled, panicked>>
producerVars == <<producer, leftover>>
handlerVars == <<hs, req, pa, watch, unread>>
vars == <<orderly, agentVars, askVars, answerCh, pauseVars, cancelled, producerVars,
          handlerVars>>

InCallback == {"published", "registered", "marked", "signalling", "waiting", "answered",
               "aborted", "removed"}

GoTo(g, from, to) == fn[g] = from /\ fn' = [fn EXCEPT ![g] = to]

At(h, from, to) == hs[h] = from /\ hs' = [hs EXCEPT ![h] = to]

\* The handler returns and its locals are gone.
Return(h, from, to) ==
  /\ At(h, from, to)
  /\ req' = [req EXCEPT ![h] = 0] /\ pa' = [pa EXCEPT ![h] = 0]
  /\ watch' = [watch EXCEPT ![h] = 0] /\ unread' = [unread EXCEPT ![h] = 0]

ProducerAt(from, to) == producer = from /\ producer' = to

\* hub.Finish has closed the run: Publish does nothing, the event channels are
\* closed.
RunClosed == producer \in {"finished", "returned"}

-----------------------------------------------------------------------------
(* The callback, in the goroutine of agent g.                              *)

\* A new ask: its chunks go to the subscribed streams.  The tool
\* does not call the callback once its context is cancelled.
AskPublish(g) ==
  /\ GoTo(g, "running", "published")
  /\ ask < MaxAsks /\ g \notin cancelled
  /\ ask' = ask + 1
  /\ cur' = [cur EXCEPT ![g] = ask + 1]
  /\ unread' = [h \in Handlers |-> IF hs[h] = "open" /\ ~RunClosed
                                   THEN unread[h] + 1 ELSE unread[h]]
  /\ UNCHANGED <<orderly, status, byRun, used, answerCh, pauseVars, cancelled, producerVars,
                 hs, req, pa, watch>>

\* Mutant: the run is reported as waiting without a registered ask.
AskRegisterForgets(g) ==
  /\ GoTo(g, "published", "registered")
  /\ status' = "requires_action"
  /\ UNCHANGED <<orderly, cur, ask, byRun, used, answerCh, pauseVars, cancelled,
                 producerVars, handlerVars>>

\* Mutant: the ask is registered under the id of the next one.
AskRegisterNext(g) ==
  /\ GoTo(g, "published", "registered")
  /\ byRun' = cur[g] + 1
  /\ answerCh' = [answerCh EXCEPT ![cur[g]] = 0]
  /\ UNCHANGED <<orderly, cur, ask, status, used, pauseVars, cancelled, producerVars,
                 handlerVars>>

\* A fresh AnswerCh, and Register, over whatever entry the run has.
AskRegister(g) ==
  /\ GoTo(g, "published", "registered")
  /\ byRun' = cur[g]
  /\ answerCh' = [answerCh EXCEPT ![cur[g]] = 0]
  /\ UNCHANGED <<orderly, cur, ask, status, used, pauseVars, cancelled, producerVars,
                 handlerVars>>

AskMark(g) ==
  /\ GoTo(g, "registered", "marked")
  /\ status' = "requires_action"
  /\ UNCHANGED <<orderly, cur, ask, byRun, used, answerCh, pauseVars, cancelled,
                 producerVars, handlerVars>>

\* Signal reads the channel under the lock and closes it outside.
AskSignalRead(g) ==
  /\ GoTo(g, "marked", "signalling")
  /\ sigCh' = [sigCh EXCEPT ![g] = ch]
  /\ UNCHANGED <<orderly, cur, askVars, answerCh, ch, signalled, panicked, cancelled,
                 producerVars, handlerVars>>

\* Mutant: Signal only wakes a stream that already waits (a send, not a close).
AskSignalSends(g) ==
  /\ GoTo(g, "signalling", "waiting")
  /\ signalled' = IF \E h \in Handlers: hs[h] = "open" /\ watch[h] = sigCh[g]
                  THEN signalled \cup {sigCh[g]} ELSE signalled
  /\ UNCHANGED <<orderly, cur, askVars, answerCh, ch, sigCh, panicked, cancelled,
                 producerVars, handlerVars>>

\* Closing a closed channel panics, whichever callback closed it.
AskSignalClose(g) ==
  /\ GoTo(g, "signalling", "waiting")
  /\ signalled' = signalled \cup {sigCh[g]}
  /\ panicked' = (sigCh[g] \in signalled)
  /\ sigCh' = [sigCh EXCEPT ![g] = 0]
  /\ UNCHANGED <<orderly, cur, askVars, answerCh, ch, cancelled, producerVars, handlerVars>>

\* case ans := <-answerCh.
AskAnswered(g) ==
  /\ GoTo(g, "waiting", "answered")
  /\ answerCh[cur[g]] # 0
  /\ used' = [used EXCEPT ![cur[g]] = answerCh[cur[g]]]
  /\ answerCh' = [answerCh EXCEPT ![cur[g]] = 0]
  /\ UNCHANGED <<orderly, cur, ask, status, byRun, pauseVars, cancelled, producerVars,
                 handlerVars>>

\* case <-ctx.Done().
AskAborted(g) ==
  /\ GoTo(g, "waiting", "aborted")
  /\ g \in cancelled
  /\ UNCHANGED <<orderly, cur, askVars, answerCh, pauseVars, cancelled, producerVars,
                 handlerVars>>

\* Mutant: an aborted ask leaves its entry to the producer's cleanup.
AskRemoveAnswered(g) ==
  /\ \/ GoTo(g, "answered", "removed") /\ byRun' = 0
     \/ GoTo(g, "aborted", "running") /\ UNCHANGED byRun
  /\ UNCHANGED <<orderly, cur, ask, status, used, answerCh, pauseVars, cancelled,
                 producerVars, handlerVars>>

\* pendingAsks.Remove(hubRun.ID), in either case: the entry of the run, be it
\* this ask or another's.  An aborted ask returns ctx.Err().
AskRemove(g) ==
  /\ GoTo(g, "answered", "removed") \/ GoTo(g, "aborted", "running")
  /\ byRun' = 0
  /\ UNCHANGED <<orderly, cur, ask, status, used, answerCh, pauseVars, cancelled,
                 producerVars, handlerVars>>

\* The callback returns: an answer, no answers (decline) or an error (cancel).
AskReturn(g) ==
  /\ GoTo(g, "removed", "running")
  /\ status' = "in_progress"
  /\ UNCHANGED <<orderly, cur, ask, byRun, used, answerCh, pauseVars, cancelled,
                 producerVars, handlerVars>>

-----------------------------------------------------------------------------
(* The end of the run.                                                     *)

\* The main agent returns and its stream is closed; a background subagent may
\* be anywhere.
AgentEnds ==
  /\ GoTo(Main, "running", "done")
  /\ UNCHANGED <<orderly, cur, askVars, answerCh, pauseVars, cancelled, producerVars,
                 handlerVars>>

\* runChatProducer has drained the stream and looks for an ask that is still
\* pending,
CleanupLookup ==
  /\ fn[Main] = "done"
  /\ ProducerAt("draining", IF byRun = 0 THEN "cleaned" ELSE "cancelling")
  /\ leftover' = byRun
  /\ UNCHANGED <<orderly, agentVars, askVars, answerCh, pauseVars, cancelled, handlerVars>>

\* answers it with a cancel if there is room,
CleanupCancel ==
  /\ ProducerAt("cancelling", "removing")
  /\ answerCh' = [answerCh EXCEPT ![leftover] = IF @ = 0 THEN leftover ELSE @]
  /\ UNCHANGED <<orderly, agentVars, askVars, pauseVars, cancelled, leftover, handlerVars>>

\* and removes the run's entry.
CleanupRemove ==
  /\ ProducerAt("removing", "cleaned")
  /\ byRun' = 0 /\ leftover' = 0
  /\ UNCHANGED <<orderly, agentVars, ask, status, used, answerCh, pauseVars, cancelled,
                 handlerVars>>

ProducerFinish ==
  /\ ProducerAt("cleaned", "finished")
  /\ UNCHANGED <<orderly, agentVars, askVars, answerCh, pauseVars, cancelled, leftover,
                 handlerVars>>

\* Mutant: the producer returns without cancelling its context.
ProducerReturnsOnly ==
  /\ ProducerAt("finished", "returned")
  /\ UNCHANGED <<orderly, agentVars, askVars, answerCh, pauseVars, cancelled, leftover,
                 handlerVars>>

\* The deferred producerCancel, also for the subagents' contexts below it.
ProducerReturns ==
  /\ ProducerAt("finished", "returned")
  /\ cancelled' = Agents
  /\ UNCHANGED <<orderly, agentVars, askVars, answerCh, pauseVars, leftover, handlerVars>>

\* Turn timeout, hub.Cancel, expiry or Shutdown; with cancel_on_disconnect also
\* the return of the first handler, whose request context is the parent.
ContextCancelled ==
  /\ cancelled # Agents
  /\ cancelled' = Agents
  /\ UNCHANGED <<orderly, agentVars, askVars, answerCh, pauseVars, producerVars,
                 handlerVars>>

\* Executor.Cancel, or a timeout of the subagent's own.  Outside the callback it
\* only keeps the subagent from asking again, which it need not do anyway.
SubagentCancelled(g) ==
  /\ fn[g] \in InCallback /\ g \notin cancelled
  /\ cancelled' = cancelled \cup {g}
  /\ UNCHANGED <<orderly, agentVars, askVars, answerCh, pauseVars, producerVars,
                 handlerVars>>

-----------------------------------------------------------------------------
(* The handlers that resume.                                               *)

\* Orderly clients answer when a stream of the run has ended with the pause,
\* have no other request of the run in flight, and do not leave.
Orderly ==
  /\ \E h \in Handlers: hs[h] = "paused"
  /\ \A h \in Handlers: hs[h] \in {"none", "paused", "refused"}

\* Mutant: the tool_call_id of the request is not compared.
LookupAny(h, a) ==
  /\ orderly => Orderly
  /\ a <= ask /\ byRun # 0
  /\ At(h, "none", "looked")
  /\ req' = [req EXCEPT ![h] = a]
  /\ pa' = [pa EXCEPT ![h] = byRun]
  /\ UNCHANGED <<orderly, agentVars, askVars, answerCh, pauseVars, cancelled, producerVars,
                 watch, unread>>

\* Lookup or LookupBySession finds the ask the client answers.
Lookup(h, a) ==
  /\ orderly => Orderly
  /\ a <= ask /\ byRun = a
  /\ At(h, "none", "looked")
  /\ req' = [req EXCEPT ![h] = a]
  /\ pa' = [pa EXCEPT ![h] = byRun]
  /\ UNCHANGED <<orderly, agentVars, askVars, answerCh, pauseVars, cancelled, producerVars,
                 watch, unread>>

\* 400: not awaiting, another tool_call_id, or a malformed answer.  500: the
\* run is gone from the hub.
Refuse(h, a) ==
  /\ a <= ask
  /\ \/ Return(h, "none", "refused") /\ (orderly => Orderly) /\ byRun # a
     \/ Return(h, "looked", "refused") /\ a = req[h]
  /\ UNCHANGED <<orderly, agentVars, askVars, answerCh, pauseVars, cancelled, producerVars>>

\* Mutant: the handler takes the current channel without making a new one.
ResetKeeps(h) ==
  /\ At(h, "looked", "reset")
  /\ watch' = [watch EXCEPT ![h] = ch]
  /\ UNCHANGED <<orderly, agentVars, askVars, answerCh, pauseVars, cancelled, producerVars,
                 req, pa, unread>>

\* pa.Pause.Reset().
Reset(h) ==
  /\ At(h, "looked", "reset")
  /\ ch' = ch + 1
  /\ watch' = [watch EXCEPT ![h] = ch + 1]
  /\ UNCHANGED <<orderly, agentVars, askVars, answerCh, sigCh, signalled, panicked,
                 cancelled, producerVars, req, pa, unread>>

\* pa.AnswerCh <- answer, when there is room.
Deliver(h) ==
  /\ At(h, "reset", "watching")
  /\ answerCh[pa[h]] = 0
  /\ answerCh' = [answerCh EXCEPT ![pa[h]] = req[h]]
  /\ UNCHANGED <<orderly, agentVars, askVars, pauseVars, cancelled, producerVars, req, pa,
                 watch, unread>>

-----------------------------------------------------------------------------
(* The streams.                                                            *)

\* The first handler reads ps.Ch(), with the producer already running.
FirstWatch ==
  /\ At(First, "none", "watching")
  /\ watch' = [watch EXCEPT ![First] = ch]
  /\ UNCHANGED <<orderly, agentVars, askVars, answerCh, pauseVars, cancelled, producerVars,
                 req, pa, unread>>

\* Subscribe, and the backfill: the ring from its start goes to the client.
StreamOpens(h) ==
  /\ At(h, "watching", "open")
  /\ UNCHANGED <<orderly, agentVars, askVars, answerCh, pauseVars, cancelled, producerVars,
                 req, pa, watch, unread>>

StreamWrites(h) ==
  /\ hs[h] = "open" /\ unread[h] > 0
  /\ unread' = [unread EXCEPT ![h] = @ - 1]
  /\ UNCHANGED <<orderly, agentVars, askVars, answerCh, pauseVars, cancelled, producerVars,
                 hs, req, pa, watch>>

\* case <-pauseCh: [DONE], whatever waits in the event channel.
StreamPauses(h) ==
  /\ Return(h, "open", "paused")
  /\ watch[h] \in signalled
  /\ UNCHANGED <<orderly, agentVars, askVars, answerCh, pauseVars, cancelled, producerVars>>

\* The event channel is closed and drained: [DONE].
StreamEnds(h) ==
  /\ Return(h, "open", "ended")
  /\ RunClosed /\ unread[h] = 0
  /\ UNCHANGED <<orderly, agentVars, askVars, answerCh, pauseVars, cancelled, producerVars>>

\* The client goes away; a stream with cancel_on_disconnect cancels the run.
ClientLeaves(h) ==
  /\ Return(h, "reset", "left") \/ Return(h, "open", "left")
  /\ cancelled' \in {cancelled, IF hs[h] = "open" THEN Agents ELSE cancelled}
  /\ UNCHANGED <<orderly, agentVars, askVars, answerCh, pauseVars, producerVars>>

-----------------------------------------------------------------------------
Init ==
  /\ orderly \in BOOLEAN
  /\ fn = [g \in Agents |-> "running"] /\ cur = [g \in Agents |-> 0]
  /\ ask = 0 /\ status = "in_progress" /\ byRun = 0
  /\ answerCh = [a \in 1 .. MaxAsks |-> 0]
  /\ used = [a \in 1 .. MaxAsks |-> 0]
  /\ ch = 0 /\ sigCh = [g \in Agents |-> 0] /\ signalled = {} /\ panicked = FALSE
  /\ cancelled = {}
  /\ producer = "draining" /\ leftover = 0
  /\ hs = [h \in Handlers |-> "none"]
  /\ req = [h \in Handlers |-> 0] /\ pa = [h \in Handlers |-> 0]
  /\ watch = [h \in Handlers |-> 0]
  /\ unread = [h \in Handlers |-> 0]

CallbackStep(g) ==
  \/ AskRegister(g) \/ AskMark(g) \/ AskSignalRead(g) \/ AskSignalClose(g)
  \/ AskAnswered(g) \/ AskAborted(g) \/ AskRemove(g) \/ AskReturn(g)

ProducerStep ==
  CleanupLookup \/ CleanupCancel \/ CleanupRemove \/ ProducerFinish \/ ProducerReturns

ResumeStep(h) ==
  \/ \E a \in 1 .. MaxAsks: Lookup(h, a) \/ Refuse(h, a)
  \/ Reset(h) \/ Deliver(h)

StreamStep(h) == StreamOpens(h) \/ StreamWrites(h) \/ StreamPauses(h) \/ StreamEnds(h)

\* An unrecovered panic ends the process.
Next ==
  /\ ~panicked
  /\ \/ \E g \in Agents: AskPublish(g) \/ CallbackStep(g)
     \/ AgentEnds \/ ProducerStep
     \/ ContextCancelled
     \/ \E g \in Subagents: SubagentCancelled(g)
     \/ \E h \in Resumes: ResumeStep(h)
     \/ FirstWatch
     \/ \E h \in Handlers: StreamStep(h) \/ ClientLeaves(h)

Spec == Init /\ [][Next]_vars

\* Goroutines run on: a callback up to its select and from it when a case is
\* ready, and the producer; a stream does not pass over a ready case of its
\* select for ever.  Nothing is assumed of the clients, nor that an agent asks
\* or ends.
Fairness ==
  /\ \A g \in Agents: WF_vars(~panicked /\ CallbackStep(g))
  /\ WF_vars(~panicked /\ ProducerStep)
  /\ \A h \in Handlers: WF_vars(~panicked /\ StreamPauses(h))

FairSpec == Spec /\ Fairness

-----------------------------------------------------------------------------
(* Properties.                                                             *)

\* Only the main agent has asked so far.  Callbacks follow each other, and the
\* cleanup finds nothing to cancel.
OneAsker == \A g \in Subagents: cur[g] = 0

\* Type invariant.
TypeOK ==
  /\ orderly \in BOOLEAN /\ panicked \in BOOLEAN /\ cancelled \subseteq Agents
  /\ fn \in [Agents -> InCallback \cup {"running", "done"}]
  /\ cur \in [Agents -> 0 .. MaxAsks]
  /\ ask \in 0 .. MaxAsks /\ byRun \in 0 .. ask
  /\ status \in {"in_progress", "requires_action"}
  /\ answerCh \in [1 .. MaxAsks -> 0 .. MaxAsks]
  /\ used \in [1 .. MaxAsks -> 0 .. MaxAsks]
  /\ ch \in Nat /\ sigCh \in [Agents -> Nat] /\ signalled \subseteq Nat
  /\ producer \in {"draining", "cancelling", "removing", "cleaned", "finished", "returned"}
  /\ leftover \in 0 .. MaxAsks
  /\ hs \in [Handlers -> {"none", "looked", "reset", "watching", "open", "paused",
                          "ended", "left", "refused"}]
  /\ req \in [Handlers -> 0 .. MaxAsks] /\ pa \in [Handlers -> 0 .. MaxAsks]
  /\ watch \in [Handlers -> Nat]
  /\ unread \in [Handlers -> Nat]

\* No agent goes on with the answer to another question: an ask returns with an
\* answer meant for it, whatever late or doubled requests and other callbacks
\* are around.
AnswersMatch == \A a \in 1 .. MaxAsks: used[a] \in {0, a}

\* The registry holds an ask only while its callback is there to take the
\* answer, whichever callbacks overwrite and remove each other's entry; a
\* leftover would refuse every later request of the session.
PendingIsCurrent ==
  byRun # 0 => \E g \in Agents: cur[g] = byRun /\ fn[g] \in InCallback

\* While only the main agent asks, a run that reports requires_action can be
\* answered, until its answer is taken or its context cancelled.
RequiresActionIsAnswerable ==
  OneAsker /\ status = "requires_action" /\ Main \notin cancelled =>
    byRun = ask \/ fn[Main] = "removed"

\* While only the main agent asks, and for orderly clients, Signal closes each
\* channel once, over any number of rounds: no panic.
OneAskerNeverPanics == orderly /\ OneAsker => ~panicked

\* While only the main agent asks, and for orderly clients, the answer never
\* has to wait for room.
OrderlyAnswersAtOnce ==
  orderly /\ OneAsker => \A h \in Resumes: hs[h] = "reset" => answerCh[pa[h]] = 0

\* While only the main agent asks, and for orderly clients, no stream stays
\* open on a paused run, in any round.
OrderlyPauseEndsStreams ==
  orderly /\ OneAsker /\ fn[Main] = "waiting" /\ answerCh[ask] = 0
    ~> panicked \/ \A h \in Handlers: hs[h] # "open"

\* No ask outlives its run, not even a subagent's whose entry another callback
\* overwrote or removed, so that neither a client nor the producer's cleanup can
\* reach it: the deferred producerCancel ends it.
AsksEndWithTheRun ==
  fn[Main] = "done" ~> panicked \/ \A g \in Agents: fn[g] \notin InCallback

-----------------------------------------------------------------------------
(* What comments of the repository say and the code does not do.           *)

\* makeAskQuestionFunc: "safe to call multiple times (multi-round asking
\* within a single turn)", for clients of any kind.
AskNeverPanics == ~panicked

\* pendingAskRegistry: "at most one pending ask per run at a time", and
\* pauseSignal: "Thread-safe".  With orderly clients no callback ever closes
\* the channel another one has closed.
OrderlyNeverPanics == orderly => ~panicked

\* api-reference.md: 'The stream ends with `finish_reason: "tool_calls"`'.  A
\* stream that ends at a pause has shown its client the call, at least for
\* orderly clients while only the main agent asks.
PauseShowsTheCall ==
  [][\A h \in Handlers:
       orderly /\ OneAsker /\ hs[h] = "open" /\ hs'[h] = "paused" => unread[h] = 0]_vars
=============================================================================
