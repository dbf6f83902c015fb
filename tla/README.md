# Saker run hub: TLA+ specifications and proofs

Saker is an agent runtime in Go with a web front end. This directory holds a
verification of the part of it where concurrency is hardest to get right: the
**run hub** and the **OpenAI-compatible gateway** on top of it. A chat completion
starts an agent in the background; its output is an event log that any number of
HTTP streams can join, leave and rejoin while it grows; the agent can pause to ask
its user a question and be resumed by another request; runs are cancelled, expire,
are swept and are drained at shutdown; and, with a database, events are also
written by an asynchronous batch writer behind a circuit breaker.

- [The system](#the-system) and its hard behaviours
- [Modules](#modules): what models what
- [Runs](#runs): what TLC checks, bounds, fairness
- [Proofs](#proofs): what TLAPS proves, and how
- [Disagreements](#disagreements-between-comments-and-code) between comments and code
- [Plan](#plan) and [what is not modelled](#not-modelled)

`PROJECT.json` has the line-by-line map from definitions to source, the
components, the hazards with the properties aimed at them, and the mutants: for
every checked property a plausible bug in a modelled operation that breaks it.

## The system

| Part | Source | State | Operations |
|---|---|---|---|
| Run | `pkg/runhub/run.go`, `subscribe.go` | ring, `ringHead`, `ringFull`, `nextSeq`, subscriber list, `closed`, one bounded channel per subscriber | Publish and fan-out, Subscribe, SubscribeSince, unsub, idle eviction, closeAllSubscribers |
| In-memory hub | `pkg/runhub/hub.go` | map of runs, counters per tenant, status and FinishedAt of each run, stop channel | Create, Cancel, Finish, Remove, GC sweep, Shutdown |
| Gateway | `pkg/server/openai/handler_chat_completions.go`, `handler_runs_*.go` | the producer goroutine of each run and its context | handler, producer, turn timeout, cancel, disconnect |
| Ask and resume | `ask_handler.go`, `pending_ask.go`, `handler_runs_submit.go` | registry of pending asks, `AnswerCh` of each, pause channel | ask callback of the agent and of its background subagents, Signal, Reset, both resuming handlers, streams, the producer's cleanup |
| Batch writer | `pkg/runhub/persistent_writer.go`, `persistent_sink.go` | enqueue channel, batch, flush requests, stop | write, loop, flush, flushSync, shutdown |
| Breaker | `persistent_sink_breaker.go` | state, failure counter, probe flag | allow, recordSuccess, recordFailure |
| Persistent hub | `persistent_hub.go`, `persistent_sweeper.go`, `persistent_listener.go`, `store/` | rows and events in SQL, revived shells, LISTEN sessions | Create, Get, Finish, Remove, sweepStore, DeliverExternal |

How they meet: a chat completion creates a run in the hub (Gateway, MemoryHub),
its producer publishes the agent's events into it (Run), streams subscribe to it
(Run), the ask callback pauses it (AskResume), the producer finishes it
(Gateway, MemoryHub), which tears the streams down (Run). With a persistent hub
each Publish also hands its event to the writer (BatchWriter, SinkBreaker).

What makes it hard:

- no operation holds a lock for its whole length. Publish copies the subscriber
  list and sends after the unlock; SubscribeSince reads and registers in two
  critical sections; Cancel, Finish and the sweeper act on runs they looked up
  under a lock they have released;
- channels are closed by whoever detaches a subscriber, while a send may be on
  its way;
- Signal reads the pause channel under the lock and closes it outside, and Reset
  replaces it from another request;
- the ask callback is a value of the producer's context, so a subagent that Task
  starts in the background has it too, and two asks of one run can overlap;
- everything is bounded: the ring wraps, a full subscriber channel drops, a full
  queue evicts its oldest event, both caps refuse a Create;
- the store may fail, or time out after committing, at any insert, also in the
  middle of a fence or of the drain at shutdown.

## Modules

Steps are the code's atomic sections: everything between Lock and Unlock is one
step, and what happens outside (each send of a fan-out, each close, each call of
a cancel function, each case of a select) is a step of its own.

**Run** is one run without a persistence sink. An event is its sequence number.
`ring`, `ringHead`, `ringFull`, `nextSeq`, `subscribers` and `closed` are the
fields of the struct. `targets[p]` is the copy of the list that publisher `p` has
yet to serve, `chan[s]` the channel of `s`, `got[s]` what its handler has read,
`toClose` the subscribers that were detached and whose channel is about to be
closed. `author` and `dropped` are history. The publishers are the producer
and the ask callbacks. A send on a closed channel sets `panicked` and
stops everything.

**MemoryHub** is the hub under *any* callers: Cancel, Finish and SetStatus may be
called at any time for any run, which is the abstract promise of the component.
`Clock` lets ExpiresAt and the retention window pass.

**Gateway** extends MemoryHub with the callers there really are: the handler,
the producer with its turn timeout, the asks of the agent and of its background
subagents, which can be in progress after the run's end, client cancels and
Shutdown. It is shown to implement MemoryHub's specification.

**SinkBreaker** and **BatchWriter** are the breaker and the writer goroutine with
its concurrent callers: `call[e]` is where the write of event `e` is among its
three selects, `pc` where the writer is, including inside a flush. Each Publish
writes one event; flushSync callers are processes.

**AskResume** is one run of the gateway with its asks, from the callbacks' point
of view and from that of the requests that resume it. `fn[g]` is where agent `g`
is, the main agent or a background subagent, and `cur[g]` its last ask. An agent
makes its tool calls in turn, so it has one callback at a time; different agents'
callbacks overlap freely, write over each other's entry in the registry and remove
it. The main agent's end closes the producer's stream whatever the subagents do;
the producer then cancels and removes an ask it still finds, finishes the run and,
on return, cancels the context of all of them. `OneAsker` says that no subagent
has asked so far: properties that need one callback at a time say so with it,
and a run shows what happens without it. A pause channel is the
number of Resets before it was made. The variable `orderly` is chosen at the start
and never changes: in half of the behaviours clients answer only after a stream
of the run ended at the pause and only one at a time, which is what the API
documentation describes; in the other half a client may answer whenever the ask
is registered.

**MC\*** modules instantiate these for TLC, and **\*Proofs** hold the theorems.

Abstractions common to all: payloads, encodings, metrics, tracing and logs are
left out; ids are model values; time is a set of facts that become true
(expired, retention over, cooldown over, idle for long enough).

## Runs

| Run | Instance | What it asks |
|---|---|---|
| `run` | 2 publishers, 1 subscriber, ring of 2, channel of 1, 4 events | The replay window is the newest events in order (`ReplayWindow`); Subscribe leaves no gap and no duplicate (`SubscribeHasNoGap`, `NoDuplicates`); one publisher's events arrive in order (`PublisherOrder`); channels are closed exactly when their subscriber is out of the list (`NoLeakedChannel`, `RegisteredAreOpen`); Publish never waits for a consumer (`PublishReturns`); a detached stream ends (`DetachedStreamEnds`) |
| `gateway_caps` | 3 runs, 1 tenant and none, caps 2 and 1, up to the third Create | counters and caps through every order of Create, Remove, sweep and Shutdown (`TenantAccounting`, `CapsRespected`) |
| `gateway_lifecycle` | 1 run with asks and cancels | no stream survives its row (`RemovedIsTornDown`), no agent runs on with a live context after its row is gone (`NoOrphanProducer`), every run ends and every row leaves (`EveryRunEnds`, `EveryRowLeaves`) |
| `writer_safety` | 3 events, 2 fences, queue 1, batch 2, threshold 2 | every event is queued, batched, stored or counted as lost, once (`NoSilentLoss`); an answered fence means everything before it was decided (`FenceMeansDecided`); the breaker is never left half open (`ProbeEnds`, `ClosedMeansBelowThreshold`) |
| `writer_liveness` | 2 events, 1 fence, queue 1, threshold 1 | accepted events are decided, flushSync and shutdown return |
| `ask` | 2 asks, the main agent and a subagent, 2 resuming requests | an ask never gets another ask's answer (`AnswersMatch`); the registry holds no dead ask (`PendingIsCurrent`); no ask outlives its run (`AsksEndWithTheRun`). While only the main agent asks: requires_action can be answered (`RequiresActionIsAnswerable`) and, with orderly clients, no panic, no wait for room, and every open stream ends at the pause (`OneAskerNeverPanics`, `OrderlyAnswersAtOnce`, `OrderlyPauseEndsStreams`) |
| `run_send_on_closed`, `run_since_gap`, `gateway_final_status`, `ask_panic`, `ask_overlap`, `ask_call_lost` | smaller | a statement of a comment or a document that the code does not keep; see [below](#disagreements-between-comments-and-code) |

**Why the bounds are enough.** Four events in a ring of two wrap it twice. A
channel of one place is full after one event, so drops happen. Two publishers
race, the producer and one ask callback. The subscriber of `run` goes through every
way in and out against both publishers; publishers and subscribers interact only
through the list, and the theorems cover any number of each. Three runs are created against a cap of two in all and
one for the named tenant, so each cap refuses a Create and lets it through after
a Remove, a sweep or Shutdown; `MCGatewayCaps` ends a behaviour when its third run
is created (`MaxCreated`), because the counters were tested by then. A queue of
one place with three writers makes the evict-and-retry path race the writer and
another writer, so that a retry is also rejected, and two failures open the
breaker with one insert left to probe. Two asks are needed for one round's
leftovers to reach the next or for two callbacks to overlap, and two requests to
race for one ask. `MCAskResume` explores overlapping callbacks with orderly clients
and clients of any kind with one asking agent (`InBounds`); the two invariants that
hold without either condition, `AnswersMatch` and `PendingIsCurrent`, are proved
for both at once.

Deadlock is not checked: all these systems may stop (no more events, no more
requests, Shutdown done, a panic).

**Fairness.** A goroutine that can run does (weak fairness of the fan-out, of the
closes, of Finish, of each part of the sweep and of Shutdown). The sweeper's
ticker and the clock go on. In `Run` nothing is assumed of consumers;
`DetachedStreamEnds` assumes it in its own hypothesis. In `Gateway` the agent is
only assumed to end once its context is cancelled (strong fairness, because an
ask can interrupt it), and every context is cancelled by the turn timeout at the
latest. In `BatchWriter` the cases of a select that are ready again and again are
taken eventually (Go picks uniformly), hence strong fairness of stop, tick and
fence. The store answers every insert, because the code gives it a timeout. In
`AskResume` the callbacks and the producer go on when they can, and a stream whose
pause channel is closed takes that case of its select eventually; nothing is
assumed of clients, nor that an agent asks or ends.

## Proofs

TLAPS checks these for all values of the constants.

**RunProofs.** `RunTypeOK`, `RunReplayWindow`, `RunSubscribeHasNoGap`,
`RunNoLeakedChannel` (with `RegisteredAreOpen`), from a positive ring size and
channel capacity. The snapshot is not inductive as it stands, because
a Publish overwrites the slot the next snapshot would start at; `RingInv` says slot
by slot what the ring holds before and after it wrapped, without division, and
only Publish can disturb it. The argument for the gap: Subscribe takes its backfill and
registers in one critical section, so the equation "streamed, in flight or
dropped = everything since the backfill" starts true, Publish adds one event to
both sides, and each send moves an event from in flight to streamed or dropped.

**HubProofs.** `HubTypeOK`, `HubAccounting` (`TenantAccounting` and
`CapsRespected`), `HubTearDown` (`RemovedIsTornDown`) under any callers; then
`GatewayImplementsHub`: every step of the gateway is a step of the hub or leaves
it alone; so `GatewaySafe`, the same for the gateway. The accounting needs
finiteness and cardinality of the rows of a tenant through each Create, Remove
and Shutdown; tear-down needs to know, for each run out of the map, which
operation in progress still owns the duty to close it.

**BatchWriterProofs.** `WriterTypeOK`, `WriterNoSilentLoss`,
`WriterFenceMeansDecided`, `WriterProbeEnds`. The invariant follows each event:
it is in exactly one of queue, batch, store and loss counters according to where
its write call is, and an event accepted before a fence is never behind the
writer's drain when the fence is answered.

**AskResumeProofs.** For any number of agents, asks and requests. Whichever agents
ask: `AskTypeOK`, `AskAnswersMatch`, `AskPending`. `PendInv` ties the registry's entry
to some callback between Register and Remove: a callback leaves that stretch only
by removing the entry, whoever's it is. `MatchInv` says answers only ever sit in the
channel of the ask they name. While only the main agent asks: `AskAnswerable`, and
for orderly clients `AskOneAskerNeverPanics` and `AskOrderlyAnswersAtOnce`. A subagent
that has asked stays one that has asked (`OneAskerBefore`), so a step that ends
with one asker is a step of the main agent, of a request, or one that leaves the
protocol alone (`MainSteps`), and the producer's cleanup finds nothing (`MainInv`).
`HoldInv` and `FreshInv` then say that as long as the current pause channel is open
some stream still holds it, so that when everybody is quiet it is closed and its
ask is waiting; `SoleInv` that a request on its way from lookup to delivery is
alone. Hence Reset always comes after Signal, and no channel is closed twice.

**Only model-checked:** all liveness properties and `OrderlyPauseEndsStreams`
(fairness is out of the prover's reach), and `NoDuplicates`, `PublisherOrder`
and `NoOrphanProducer`, whose proofs are still to be written.

## Disagreements between comments and code

Shown by a run with a counterexample:

- `run_send_on_closed`: `subscribe.go:31` says the producer never sees a closed
  channel. A Publish that copied the list before the subscriber left does, and a
  send on a closed channel panics.
- `run_since_gap`: `handler_runs_events.go:28` says everything after Last-Event-ID
  is replayed. An event published between the two critical sections of
  SubscribeSince is neither replayed nor delivered nor counted as dropped.
- `gateway_final_status`: `hub.go:229` says a finished run stays so that its final
  status can be fetched. Cancelling it replaces the status by `cancelling`.
- `ask_panic`: `ask_handler.go:18` says the callback is safe for several rounds. An
  answer between Register and Signal makes the next round close a closed channel.
- `ask_overlap`: `pending_ask.go:15` says the pause signal is thread-safe and
  `pending_ask.go:59` that a run has at most one pending ask. A subagent that Task
  starts in the background asks with the same callback; when it does so while the
  main agent's ask waits, its Signal closes the closed channel, whatever the clients
  do.
- `ask_call_lost`: `docs/api-reference.md:503` says the paused stream ends with the
  call. The select may take the pause while the call is still in the channel.

Seen while modelling, in the models, without a run of their own: idle eviction
closes the streams of runs that are not terminal; a cancelled run ends as completed
or failed, never as cancelled (`handler_runs_cancel.go:26`); an expired run is
removed without the retention `hub.go:37` describes; Create works after Shutdown
(`hub.go:375`); Flush says "persisted" and means "decided"
(`persistent_hub.go:216`); an event enqueued after the drain of a stopped writer
stays in the channel (`persistent_writer.go:145`).

## Plan

1. **PersistentHub**: rows and events in the store, Create with rollback, revival
   by Get and at start, Finish and Remove over both halves, the store sweeper,
   LISTEN sessions and DeliverExternal, a crash between any two steps. Composes
   MemoryHub's map with an abstract writer, of which BatchWriter is shown to be
   an implementation. Properties: what a reconnecting client reads is a
   gap-free extension of what it has; sequence numbers are not reused; no
   listener outlives its run.
2. **SessionGate** and the history store: mutual exclusion per session with the
   forced release; abstract specification: a lock per session.
3. **TaskStore**: dependencies stay acyclic and symmetric, blocked status follows
   the blockers; proof of symmetry and of the status invariant.
4. **CronScheduler**, **SubagentExecutor**, **ApprovalQueue**, **EventBus**: one
   module each, in this order.
5. Canvas and pipeline execution; the LRU cache as a pure algorithm against its
   reference definition.
6. Further theorems: `NoDuplicates` and `PublisherOrder` for Run,
   `NoOrphanProducer` for Gateway, refinement of an abstract event log by Run.

## Not modelled

In `Run`: the sink path of Publish, DeliverExternal and the store fallback of
SnapshotSince (with the persistent hub). In `Gateway`: request parsing, chunk
building, authentication, rate limits and the conversation persister, which
share no state with a run. In `AskResume`: requests without streaming, which do
not look at the pause channel and wait for the run's end. In `BatchWriter`: the
NOTIFY after an insert. The agent loop, tools, model providers, sandboxes,
protocol adapters, stores that are SQL statements, configuration and the front
ends are outside: they are external services, pure I/O, or state that one lock
protects in one section. `PROJECT.json` lists each with its reason.
