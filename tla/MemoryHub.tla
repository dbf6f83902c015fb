----------------------------- MODULE MemoryHub -----------------------------
(***************************************************************************)
(* The in-memory run hub of pkg/runhub/hub.go: the map of runs with its    *)
(* global and per-tenant caps, Cancel, Finish, the GC sweeper and          *)
(* Shutdown.                                                               *)
(*                                                                         *)
(* h.mu protects the map and the tenant counters; r.mu protects a run's    *)
(* status and its closed flag.  No operation holds both for its whole      *)
(* length, so each is a sequence of steps: one per critical section, and   *)
(* one per call of the run's cancel function.  Who calls Cancel, Finish    *)
(* and SetStatus, and when, is left open; module Gateway says it.          *)
(*                                                                         *)
(* Of a run this module keeps the status, FinishedAt, whether ExpiresAt    *)
(* has passed, and whether its subscribers are torn down (module Run has   *)
(* the rest).                                                              *)
(***************************************************************************)
EXTENDS Integers, FiniteSets

CONSTANTS
  Runs,              \* run ids; generateRunID never hands one out twice
  Tenants,           \* tenant ids other than the empty one
  NoTenant,          \* the empty tenant id
  MaxRuns,           \* cfg.MaxRuns
  MaxRunsPerTenant   \* cfg.MaxRunsPerTenant, 0 for no cap

ASSUME CapsAssumption == MaxRuns \in Nat \ {0} /\ MaxRunsPerTenant \in Nat
ASSUME TenantAssumption == NoTenant \notin Tenants

VARIABLES
  runs,        \* h.runs: the ids in the map
  perTenan,    \* h.perTenan
  created,     \* ids handed out by Create
  tenant,      \* r.TenantID
  status,      \* r.status
  finishedAt,  \* r.FinishedAt: "zero", "recent", or "old" (past the retention)
  pastExpiry,  \* runs whose ExpiresAt has passed
  closed,      \* runs whose subscribers were torn down (r.closed)
  cancelled,   \* runs whose context is cancelled
  cancelOp,    \* next step of the Cancel call on a run
  finishOp,    \* next step of the Finish call on a run
  finishAs,    \* the status that Finish call sets
  expireSet,   \* victims of the current sweep that are to be expired
  removeSet,   \* victims of the current sweep that are only removed
  expireOp,    \* next step of the sweeper on the victim it is at
  shut,        \* where Shutdown is
  drainOp      \* next step of Shutdown on a run it took out of the map

mapVars == <<runs, perTenan, tenant, created>>
runVars == <<status, finishedAt, pastExpiry, closed, cancelled>>
callVars == <<cancelOp, finishOp, finishAs>>
gcVars == <<expireSet, removeSet, expireOp>>
shutVars == <<shut, drainOp>>
vars == <<mapVars, runVars, callVars, gcVars, shutVars>>

Terminal == {"completed", "cancelled", "failed", "expired"}
Statuses == Terminal \cup {"queued", "in_progress", "requires_action", "cancelling"}

-----------------------------------------------------------------------------
(* The map.                                                                *)

\* Mutant: the global cap is tested with > instead of >=.
BelowCapsLoose(t) ==
  /\ Cardinality(runs) <= MaxRuns
  /\ MaxRunsPerTenant > 0 /\ t # NoTenant => perTenan[t] < MaxRunsPerTenant

BelowCaps(t) ==
  /\ Cardinality(runs) < MaxRuns
  /\ MaxRunsPerTenant > 0 /\ t # NoTenant => perTenan[t] < MaxRunsPerTenant

\* Create, and newRun.  At a cap it returns ErrCapacity and changes nothing.
\* It does not look at stopCh: a Shutdown does not stop it.
Create(r, t) ==
  /\ r \notin created
  /\ BelowCaps(t)
  /\ created' = created \cup {r}
  /\ runs' = runs \cup {r}
  /\ perTenan' = IF t = NoTenant THEN perTenan ELSE [perTenan EXCEPT ![t] = @ + 1]
  /\ tenant' = [tenant EXCEPT ![r] = t]
  /\ status' = [status EXCEPT ![r] = "queued"]
  /\ UNCHANGED <<finishedAt, pastExpiry, closed, cancelled, callVars, gcVars, shutVars>>

\* Mutant: Remove counts an expired run as already uncounted.
RemoveKeepsCount(r) ==
  /\ runs' = runs \ {r}
  /\ perTenan' = IF r \in runs /\ tenant[r] # NoTenant /\ status[r] # "expired"
                    /\ perTenan[tenant[r]] > 0
                 THEN [perTenan EXCEPT ![tenant[r]] = @ - 1]
                 ELSE perTenan

\* Remove.  A counter at zero is the same as an absent one.
Remove(r) ==
  /\ runs' = runs \ {r}
  /\ perTenan' = IF r \in runs /\ tenant[r] # NoTenant /\ perTenan[tenant[r]] > 0
                 THEN [perTenan EXCEPT ![tenant[r]] = @ - 1]
                 ELSE perTenan

SetStatus(r, s) == status' = [status EXCEPT ![r] = s]

-----------------------------------------------------------------------------
(* Cancel: look the run up, SetStatus(cancelling), r.Cancel().             *)

CancelLookup(r) ==
  /\ cancelOp[r] = "none"
  /\ r \in runs
  /\ cancelOp' = [cancelOp EXCEPT ![r] = "mark"]
  /\ UNCHANGED <<mapVars, runVars, finishOp, finishAs, gcVars, shutVars>>

CancelMark(r) ==
  /\ cancelOp[r] = "mark"
  /\ cancelOp' = [cancelOp EXCEPT ![r] = "call"]
  /\ SetStatus(r, "cancelling")
  /\ UNCHANGED <<mapVars, finishedAt, pastExpiry, closed, cancelled, finishOp, finishAs,
                 gcVars, shutVars>>

CancelCall(r) ==
  /\ cancelOp[r] = "call"
  /\ cancelOp' = [cancelOp EXCEPT ![r] = "none"]
  /\ cancelled' = cancelled \cup {r}
  /\ UNCHANGED <<mapVars, status, finishedAt, pastExpiry, closed, finishOp, finishAs,
                 gcVars, shutVars>>

-----------------------------------------------------------------------------
(* Finish: look the run up, stamp FinishedAt, SetStatus, tear down.        *)

FinishLookup(r, s) ==
  /\ finishOp[r] = "none"
  /\ r \in runs
  /\ finishOp' = [finishOp EXCEPT ![r] = "stamp"]
  /\ finishAs' = [finishAs EXCEPT ![r] = s]
  /\ UNCHANGED <<mapVars, runVars, cancelOp, gcVars, shutVars>>

FinishStamp(r) ==
  /\ finishOp[r] = "stamp"
  /\ finishOp' = [finishOp EXCEPT ![r] = "mark"]
  /\ finishedAt' = [finishedAt EXCEPT ![r] = "recent"]
  /\ UNCHANGED <<mapVars, status, pastExpiry, closed, cancelled, cancelOp, finishAs,
                 gcVars, shutVars>>

FinishMark(r) ==
  /\ finishOp[r] = "mark"
  /\ finishOp' = [finishOp EXCEPT ![r] = "close"]
  /\ SetStatus(r, finishAs[r])
  /\ UNCHANGED <<mapVars, finishedAt, pastExpiry, closed, cancelled, cancelOp, finishAs,
                 gcVars, shutVars>>

FinishClose(r) ==
  /\ finishOp[r] = "close"
  /\ finishOp' = [finishOp EXCEPT ![r] = "none"]
  /\ closed' = closed \cup {r}
  /\ UNCHANGED <<mapVars, status, finishedAt, pastExpiry, cancelled, cancelOp, finishAs,
                 gcVars, shutVars>>

-----------------------------------------------------------------------------
(* The GC sweeper.                                                         *)

\* ExpiresAt of a run, or the retention after its Finish, passes.
ExpiryPasses(r) ==
  /\ r \in created \ pastExpiry
  /\ pastExpiry' = pastExpiry \cup {r}
  /\ UNCHANGED <<mapVars, status, finishedAt, closed, cancelled, callVars, gcVars, shutVars>>

RetentionPasses(r) ==
  /\ finishedAt[r] = "recent"
  /\ finishedAt' = [finishedAt EXCEPT ![r] = "old"]
  /\ UNCHANGED <<mapVars, status, pastExpiry, closed, cancelled, callVars, gcVars, shutVars>>

\* Mutant: FinishedAt alone decides.
RetentionVictimsByTime == {r \in runs: finishedAt[r] = "old"}

RetentionVictims == {r \in runs: status[r] \in Terminal /\ finishedAt[r] = "old"}

\* Mutant: a run somebody asked to cancel is left to its producer.
ExpiryVictimsNotCancelling ==
  {r \in runs: status[r] \notin Terminal \cup {"cancelling"} /\ r \in pastExpiry}

ExpiryVictims == {r \in runs: status[r] \notin Terminal /\ r \in pastExpiry}

\* The part of sweep under h.mu, on a tick of a sweeper that is not stopped.
\* The idle eviction that follows it is evictIdleSubscribers of module Run.
SweepSnapshot ==
  /\ shut = "no"
  /\ expireSet = {} /\ removeSet = {}
  /\ expireSet' = ExpiryVictims
  /\ removeSet' = RetentionVictims
  /\ UNCHANGED <<mapVars, runVars, callVars, expireOp, shutVars>>

\* An expired victim: SetStatus(expired), r.Cancel(), tear down, Remove.  Its
\* Get finds it: only this goroutine, and Shutdown after it, remove rows.
ExpireMark(r) ==
  /\ \A q \in Runs: expireOp[q] = "none"
  /\ r \in expireSet
  /\ expireOp' = [expireOp EXCEPT ![r] = "call"]
  /\ SetStatus(r, "expired")
  /\ UNCHANGED <<mapVars, finishedAt, pastExpiry, closed, cancelled, callVars, expireSet,
                 removeSet, shutVars>>

\* Mutant: the sweeper forgets to call the run's cancel function.
ExpireCallSkipped(r) ==
  /\ expireOp[r] = "call"
  /\ expireOp' = [expireOp EXCEPT ![r] = "close"]
  /\ UNCHANGED <<mapVars, runVars, callVars, expireSet, removeSet, shutVars>>

ExpireCall(r) ==
  /\ expireOp[r] = "call"
  /\ expireOp' = [expireOp EXCEPT ![r] = "close"]
  /\ cancelled' = cancelled \cup {r}
  /\ UNCHANGED <<mapVars, status, finishedAt, pastExpiry, closed, callVars, expireSet,
                 removeSet, shutVars>>

\* Mutant: an expired run is removed without tearing its subscribers down.
ExpireCloseSkipped(r) ==
  /\ expireOp[r] = "close"
  /\ expireOp' = [expireOp EXCEPT ![r] = "remove"]
  /\ UNCHANGED <<mapVars, runVars, callVars, expireSet, removeSet, shutVars>>

ExpireClose(r) ==
  /\ expireOp[r] = "close"
  /\ expireOp' = [expireOp EXCEPT ![r] = "remove"]
  /\ closed' = closed \cup {r}
  /\ UNCHANGED <<mapVars, status, finishedAt, pastExpiry, cancelled, callVars, expireSet,
                 removeSet, shutVars>>

ExpireRemove(r) ==
  /\ expireOp[r] = "remove"
  /\ expireOp' = [expireOp EXCEPT ![r] = "none"]
  /\ expireSet' = expireSet \ {r}
  /\ Remove(r)
  /\ UNCHANGED <<tenant, created, runVars, callVars, removeSet, shutVars>>

\* A victim that is past its retention.
SweepRemove(r) ==
  /\ \A q \in Runs: expireOp[q] = "none"
  /\ r \in removeSet
  /\ removeSet' = removeSet \ {r}
  /\ Remove(r)
  /\ UNCHANGED <<tenant, created, runVars, callVars, expireSet, expireOp, shutVars>>

-----------------------------------------------------------------------------
(* Shutdown.                                                               *)

\* close(stopCh): the sweeper ends after the sweep it is in, wg.Wait waits.
ShutdownStop ==
  /\ shut = "no"
  /\ shut' = "waiting"
  /\ UNCHANGED <<mapVars, runVars, callVars, gcVars, drainOp>>

\* Mutant: the counters are dropped instead of made anew.
ShutdownTakeNilCounts ==
  /\ shut = "waiting"
  /\ expireSet = {} /\ removeSet = {}
  /\ shut' = "draining"
  /\ drainOp' = [r \in Runs |-> IF r \in runs THEN "call" ELSE "none"]
  /\ runs' = {}
  /\ perTenan' = [t \in {} |-> 0]
  /\ UNCHANGED <<tenant, created, runVars, callVars, gcVars>>

\* Take every run out of the map, and reset the counters.
ShutdownTake ==
  /\ shut = "waiting"
  /\ expireSet = {} /\ removeSet = {}
  /\ shut' = "draining"
  /\ drainOp' = [r \in Runs |-> IF r \in runs THEN "call" ELSE "none"]
  /\ runs' = {}
  /\ perTenan' = [t \in Tenants |-> 0]
  /\ UNCHANGED <<tenant, created, runVars, callVars, gcVars>>

\* Each of them: r.Cancel(), SetStatus(cancelled), tear down.
DrainCall(r) ==
  /\ drainOp[r] = "call"
  /\ \A q \in Runs: drainOp[q] \in {"none", "call"}
  /\ drainOp' = [drainOp EXCEPT ![r] = "mark"]
  /\ cancelled' = cancelled \cup {r}
  /\ UNCHANGED <<mapVars, status, finishedAt, pastExpiry, closed, callVars, gcVars, shut>>

DrainMark(r) ==
  /\ drainOp[r] = "mark"
  /\ drainOp' = [drainOp EXCEPT ![r] = "close"]
  /\ SetStatus(r, "cancelled")
  /\ UNCHANGED <<mapVars, finishedAt, pastExpiry, closed, cancelled, callVars, gcVars, shut>>

DrainClose(r) ==
  /\ drainOp[r] = "close"
  /\ drainOp' = [drainOp EXCEPT ![r] = "none"]
  /\ closed' = closed \cup {r}
  /\ UNCHANGED <<mapVars, status, finishedAt, pastExpiry, cancelled, callVars, gcVars, shut>>

ShutdownReturn ==
  /\ shut = "draining"
  /\ \A r \in Runs: drainOp[r] = "none"
  /\ shut' = "done"
  /\ UNCHANGED <<mapVars, runVars, callVars, gcVars, drainOp>>

-----------------------------------------------------------------------------
\* NewMemoryHub.
Init ==
  /\ runs = {}
  /\ perTenan = [t \in Tenants |-> 0]
  /\ created = {}
  /\ tenant = [r \in Runs |-> NoTenant]
  /\ status = [r \in Runs |-> "queued"]
  /\ finishedAt = [r \in Runs |-> "zero"]
  /\ pastExpiry = {} /\ closed = {} /\ cancelled = {}
  /\ cancelOp = [r \in Runs |-> "none"]
  /\ finishOp = [r \in Runs |-> "none"]
  /\ finishAs = [r \in Runs |-> "completed"]
  /\ expireSet = {} /\ removeSet = {}
  /\ expireOp = [r \in Runs |-> "none"]
  /\ shut = "no"
  /\ drainOp = [r \in Runs |-> "none"]

\* Steps of calls that have begun.
CancelStep(r) == CancelMark(r) \/ CancelCall(r)
FinishStep(r) == FinishStamp(r) \/ FinishMark(r) \/ FinishClose(r)

\* The sweeper's goroutine, at run r.
SweepStep(r) ==
  ExpireMark(r) \/ ExpireCall(r) \/ ExpireClose(r) \/ ExpireRemove(r) \/ SweepRemove(r)

ShutdownStep ==
  \/ ShutdownTake \/ ShutdownReturn
  \/ \E r \in Runs: DrainCall(r) \/ DrainMark(r) \/ DrainClose(r)

Clock(r) == ExpiryPasses(r) \/ RetentionPasses(r)

\* The owner of a run's context cancels it: an error of RunStream, the turn
\* timeout, or the deferred cancel at the producer's end.
ReleaseContext(r) ==
  /\ r \in created
  /\ cancelled' = cancelled \cup {r}
  /\ UNCHANGED <<mapVars, status, finishedAt, pastExpiry, closed, callVars, gcVars, shutVars>>

\* A caller outside the hub sets a status that is not terminal.
ExternalSetStatus(r, s) ==
  /\ r \in created
  /\ SetStatus(r, s)
  /\ UNCHANGED <<mapVars, finishedAt, pastExpiry, closed, cancelled, callVars, gcVars,
                 shutVars>>

HubStep ==
  \/ \E r \in Runs: CancelStep(r) \/ FinishStep(r) \/ SweepStep(r) \/ Clock(r)
  \/ SweepSnapshot
  \/ ShutdownStop \/ ShutdownStep

\* The hub under any callers.
Next ==
  \/ \E r \in Runs, t \in Tenants \cup {NoTenant}: Create(r, t)
  \/ \E r \in Runs: CancelLookup(r)
  \/ \E r \in Runs: ReleaseContext(r)
  \/ \E r \in Runs, s \in {"completed", "failed"}: FinishLookup(r, s)
  \/ \E r \in Runs, s \in {"in_progress", "requires_action"}: ExternalSetStatus(r, s)
  \/ HubStep

Spec == Init /\ [][Next]_vars

-----------------------------------------------------------------------------
(* Properties.                                                             *)

\* Type invariant.
TypeOK ==
  /\ created \subseteq Runs /\ runs \subseteq created
  /\ perTenan \in [Tenants -> Nat]
  /\ tenant \in [Runs -> Tenants \cup {NoTenant}]
  /\ status \in [Runs -> Statuses]
  /\ finishedAt \in [Runs -> {"zero", "recent", "old"}]
  /\ pastExpiry \subseteq Runs /\ closed \subseteq Runs /\ cancelled \subseteq Runs
  /\ cancelOp \in [Runs -> {"none", "mark", "call"}]
  /\ finishOp \in [Runs -> {"none", "stamp", "mark", "close"}]
  /\ finishAs \in [Runs -> {"completed", "failed"}]
  /\ expireSet \subseteq Runs /\ removeSet \subseteq Runs
  /\ expireOp \in [Runs -> {"none", "call", "close", "remove"}]
  /\ shut \in {"no", "waiting", "draining", "done"}
  /\ drainOp \in [Runs -> {"none", "call", "mark", "close"}]

RowsOf(t) == {r \in runs: tenant[r] = t}

\* The tenant counters are the number of rows of each tenant in the map,
\* through Create, Remove, sweeps and Shutdown: a drift would lock a tenant
\* out or let it past its cap.
TenantAccounting == \A t \in Tenants: perTenan[t] = Cardinality(RowsOf(t))

\* The rows themselves, not the counters, respect both caps.
CapsRespected ==
  /\ Cardinality(runs) <= MaxRuns
  /\ MaxRunsPerTenant > 0 =>
       \A t \in Tenants: Cardinality(RowsOf(t)) <= MaxRunsPerTenant

\* No stream outlives its row unnoticed: a run that has left the map has its
\* subscribers torn down, or a Finish or Shutdown in progress will do it.
RemovedIsTornDown ==
  \A r \in created \ runs: r \in closed \/ finishOp[r] = "close" \/ drainOp[r] # "none"
=============================================================================
