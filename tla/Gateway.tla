------------------------------ MODULE Gateway ------------------------------
(***************************************************************************)
(* The callers of the in-memory hub in pkg/server/openai: the chat         *)
(* completions handler that creates a run and starts its producer, the     *)
(* ask callbacks that pause and resume it, the producer's Finish, the      *)
(* DELETE /v1/runs/:id handler and the disconnect path that cancel it, and *)
(* Shutdown of the server.                                                 *)
(*                                                                         *)
(* What the agent streams is left out (module Run has the events); when    *)
(* it ends and whether an error event was among them is a choice.          *)
(***************************************************************************)
EXTENDS MemoryHub

CONSTANTS
  AskRuns,      \* runs whose request has ask_user_question_mode=tool_call
  CancelRuns    \* runs a client cancels or leaves with cancel_on_disconnect

ASSUME ScenarioAssumption == AskRuns \subseteq Runs /\ CancelRuns \subseteq Runs

VARIABLE
  prod    \* where the handler, later the producer goroutine, of a run is

gwVars == <<vars, prod>>

At(r, a, b) == prod[r] = a /\ prod' = [prod EXCEPT ![r] = b]

-----------------------------------------------------------------------------
(* handleChatCompletions.                                                  *)

HandlerCreate(r, t) == At(r, "none", "created") /\ Create(r, t)

HandlerSetInProgress(r) == At(r, "created", "starting") /\ ExternalSetStatus(r, "in_progress")

RunStreamFails(r) == At(r, "starting", "failed") /\ ReleaseContext(r)

RunStreamStarts(r) == At(r, "starting", "running") /\ UNCHANGED vars

TurnTimeout(r) ==
  /\ prod[r] \in {"running", "asking"}
  /\ r \notin cancelled
  /\ ReleaseContext(r)
  /\ UNCHANGED prod

-----------------------------------------------------------------------------
(* The ask callback: the status part of it.                                *)

AskPause(r) == r \in AskRuns /\ At(r, "running", "asking") /\ ExternalSetStatus(r, "requires_action")

AskAnswered(r) == At(r, "asking", "running") /\ ExternalSetStatus(r, "in_progress")

AskAborted(r) == r \in cancelled /\ At(r, "asking", "running") /\ UNCHANGED vars

\* A background subagent inherits the callback.  Its ask may begin and end
\* beside the agent's and be in progress after the run's end.
SubagentAsks(r) ==
  /\ r \in AskRuns
  /\ prod[r] \in {"running", "asking", "finishing", "done"}
  /\ \E s \in {"requires_action", "in_progress"}: ExternalSetStatus(r, s)
  /\ UNCHANGED prod

-----------------------------------------------------------------------------
(* The end of the run: Finish with failed after an error, by the handler   *)
(* or by the producer, otherwise with completed.  Finish of a run that is  *)
(* no longer in the map does nothing.                                      *)

CallFinish(r) ==
  \/ \E s \in {"completed", "failed"}: At(r, "running", "finishing") /\ FinishLookup(r, s)
  \/ At(r, "failed", "aborting") /\ FinishLookup(r, "failed")

FinishMisses(r) ==
  /\ r \notin runs
  /\ At(r, "running", "finishing") \/ At(r, "failed", "aborting")
  /\ UNCHANGED vars

ProducerReturns(r) ==
  /\ finishOp[r] = "none"
  /\ At(r, "finishing", "done") \/ At(r, "aborting", "aborted")
  /\ ReleaseContext(r)

-----------------------------------------------------------------------------
\* handleRunsCancel, or a stream handler that sees its client go away with
\* cancel_on_disconnect: hub.Cancel.  The client learns the run id from the
\* response header, so not before the stream starts or the error is written.
ClientCancel(r) ==
  /\ r \in CancelRuns
  /\ prod[r] \in {"running", "asking", "finishing", "done", "aborted"}
  /\ CancelLookup(r)
  /\ UNCHANGED prod

GwInit == Init /\ prod = [r \in Runs |-> "none"]

HandlerStep(r) ==
  \/ HandlerSetInProgress(r)
  \/ RunStreamFails(r) \/ RunStreamStarts(r)
  \/ CallFinish(r) \/ FinishMisses(r) \/ ProducerReturns(r)

GwNext ==
  \/ \E r \in Runs, t \in Tenants \cup {NoTenant}: HandlerCreate(r, t)
  \/ \E r \in Runs:
       \/ HandlerStep(r)
       \/ AskPause(r) \/ AskAnswered(r) \/ AskAborted(r) \/ SubagentAsks(r)
       \/ TurnTimeout(r)
       \/ ClientCancel(r)
  \/ HubStep /\ UNCHANGED prod

GwSpec == GwInit /\ [][GwNext]_gwVars

\* Goroutines inside a hub call run on, the ticker ticks, and time passes.
HubFairness ==
  /\ \A r \in Runs: /\ WF_gwVars(FinishStep(r) /\ UNCHANGED prod)
                     /\ WF_gwVars(SweepStep(r) /\ UNCHANGED prod)
                     /\ WF_gwVars(Clock(r) /\ UNCHANGED prod)
  /\ WF_gwVars(SweepSnapshot /\ UNCHANGED prod)
  /\ WF_gwVars(ShutdownStep /\ UNCHANGED prod)

\* The handler and the producer run on.  A stream ends only once its context
\* is cancelled, which the turn timeout does in the end; strong fairness,
\* since an agent whose context is cancelled stops asking sooner or later.
ProducerFairness ==
  \A r \in Runs:
    /\ SF_gwVars((prod[r] = "running" => r \in cancelled) /\ HandlerStep(r))
    /\ WF_gwVars(TurnTimeout(r))
    /\ WF_gwVars(AskAborted(r))

GwFairSpec == GwSpec /\ HubFairness /\ ProducerFairness

-----------------------------------------------------------------------------
(* Properties.                                                             *)

Ended == {"finishing", "aborting", "done", "aborted"}

\* No agent keeps running for a run nobody can reach: once a run has left the
\* map, its context is cancelled or about to be, or its producer has ended.
NoOrphanProducer ==
  \A r \in created \ runs:
    r \in cancelled \/ drainOp[r] = "call" \/ prod[r] \in Ended

\* Every run ends for its subscribers: by Finish, expiry or Shutdown, whatever
\* they race with, its subscribers are torn down.
EveryRunEnds == \A r \in Runs: r \in created ~> r \in closed

\* No row stays in the map: even a run that is cancelled again and again
\* after it finished is removed while the sweeper runs.
EveryRowLeaves == \A r \in Runs: r \in runs ~> (r \notin runs \/ shut # "no")

-----------------------------------------------------------------------------
(* What comments of the repository say and the code does not do.           *)

\* Finish: "The run row stays in the map briefly so a reconnect can fetch the
\* final status".  The status of a finished run is the one its row keeps.
FinalStatusIsFinal ==
  [][\A r \in closed \cap runs: finishedAt[r] # "zero" /\ status[r] \in Terminal
                               => status'[r] = status[r]]_gwVars
=============================================================================
