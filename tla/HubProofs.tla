----------------------------- MODULE HubProofs -----------------------------
(***************************************************************************)
(* Proofs about the in-memory hub under any callers (MemoryHub!Spec), and  *)
(* that the gateway's callers are such callers, so that the same holds of  *)
(* GwSpec.                                                                 *)
(***************************************************************************)
EXTENDS Gateway, FiniteSetTheorems, TLAPS

-----------------------------------------------------------------------------
(* Type correctness.                                                       *)

LEMMA HubTypeInit == Init => TypeOK
BY TenantAssumption DEF Init, TypeOK, Statuses, Terminal

LEMMA HubTypeStep == TypeOK /\ [Next]_vars => TypeOK'
<1> SUFFICES ASSUME TypeOK, [Next]_vars PROVE TypeOK' OBVIOUS
<1> USE DEF TypeOK
<1>1. ASSUME NEW r \in Runs, NEW t \in Tenants \cup {NoTenant}, Create(r, t) PROVE TypeOK'
  BY <1>1 DEF Create, Statuses, callVars, gcVars, shutVars
<1>2. ASSUME NEW r \in Runs, CancelLookup(r) \/ CancelStep(r) PROVE TypeOK'
  BY <1>2 DEF CancelLookup, CancelStep, CancelMark, CancelCall, SetStatus, Statuses,
     mapVars, runVars, gcVars, shutVars
<1>3. ASSUME NEW r \in Runs, NEW s \in {"completed", "failed"}, FinishLookup(r, s)
      PROVE  TypeOK'
  BY <1>3 DEF FinishLookup, mapVars, runVars, gcVars, shutVars
<1>4. ASSUME NEW r \in Runs, FinishStep(r) PROVE TypeOK'
  BY <1>4 DEF FinishStep, FinishStamp, FinishMark, FinishClose, SetStatus, Statuses,
     Terminal, mapVars, runVars, gcVars, shutVars
<1>5. ASSUME NEW r \in Runs, Clock(r) PROVE TypeOK'
  BY <1>5 DEF Clock, ExpiryPasses, RetentionPasses, mapVars, callVars, gcVars, shutVars
<1>6. ASSUME NEW r \in Runs, ExpireMark(r) \/ ExpireCall(r) \/ ExpireClose(r) PROVE TypeOK'
  BY <1>6 DEF ExpireMark, ExpireCall, ExpireClose, SetStatus, Statuses, Terminal, mapVars,
     callVars, shutVars
<1>7. ASSUME NEW r \in Runs, ExpireRemove(r) \/ SweepRemove(r) PROVE TypeOK'
  <2>1. perTenan' \in [Tenants -> Nat] /\ runs' \subseteq runs
    BY <1>7 DEF ExpireRemove, SweepRemove, Remove
  <2>2. QED BY <1>7, <2>1 DEF ExpireRemove, SweepRemove, runVars, callVars, shutVars
<1>8. CASE SweepSnapshot
  BY <1>8 DEF SweepSnapshot, ExpiryVictims, RetentionVictims, mapVars, runVars, callVars,
     shutVars
<1>9. CASE ShutdownStop
  BY <1>9 DEF ShutdownStop, mapVars, runVars, callVars, gcVars
<1>10. CASE ShutdownTake \/ ShutdownReturn
  BY <1>10 DEF ShutdownTake, ShutdownReturn, mapVars, runVars, callVars, gcVars
<1>11. ASSUME NEW r \in Runs, DrainCall(r) \/ DrainMark(r) \/ DrainClose(r) PROVE TypeOK'
  BY <1>11 DEF DrainCall, DrainMark, DrainClose, SetStatus, Statuses, Terminal, mapVars,
     callVars, gcVars
<1>12. ASSUME NEW r \in Runs, ReleaseContext(r) PROVE TypeOK'
  BY <1>12 DEF ReleaseContext, mapVars, callVars, gcVars, shutVars
<1>13. ASSUME NEW r \in Runs, NEW s \in {"in_progress", "requires_action"},
              ExternalSetStatus(r, s)
       PROVE  TypeOK'
  BY <1>13 DEF ExternalSetStatus, SetStatus, Statuses, mapVars, callVars, gcVars, shutVars
<1>14. CASE UNCHANGED vars
  BY <1>14 DEF vars, mapVars, runVars, callVars, gcVars, shutVars
<1>15. QED
  BY <1>1, <1>2, <1>3, <1>4, <1>5, <1>6, <1>7, <1>8, <1>9, <1>10, <1>11, <1>12, <1>13,
     <1>14 DEF Next, HubStep, SweepStep, ShutdownStep

-----------------------------------------------------------------------------
(* The map and the tenant counters.                                        *)

\* What a step can do to the map: nothing, a Create, a Remove, or Shutdown.
LEMMA MapStep ==
  ASSUME [Next]_vars
  PROVE  \/ UNCHANGED mapVars
         \/ \E r \in Runs, t \in Tenants \cup {NoTenant}: Create(r, t)
         \/ \E r \in Runs: Remove(r) /\ UNCHANGED <<tenant, created>>
         \/ runs' = {} /\ perTenan' = [t \in Tenants |-> 0] /\ UNCHANGED <<tenant, created>>
<1>1. ASSUME NEW r \in Runs, CancelLookup(r) \/ CancelStep(r) PROVE UNCHANGED mapVars
  BY <1>1 DEF CancelLookup, CancelStep, CancelMark, CancelCall
<1>2. ASSUME NEW r \in Runs, NEW s, FinishLookup(r, s) \/ FinishStep(r) PROVE UNCHANGED mapVars
  BY <1>2 DEF FinishLookup, FinishStep, FinishStamp, FinishMark, FinishClose
<1>3. ASSUME NEW r \in Runs, Clock(r) PROVE UNCHANGED mapVars
  BY <1>3 DEF Clock, ExpiryPasses, RetentionPasses
<1>4. ASSUME NEW r \in Runs, ExpireMark(r) \/ ExpireCall(r) \/ ExpireClose(r)
      PROVE  UNCHANGED mapVars
  BY <1>4 DEF ExpireMark, ExpireCall, ExpireClose
<1>5. ASSUME NEW r \in Runs, ExpireRemove(r) \/ SweepRemove(r)
      PROVE  Remove(r) /\ UNCHANGED <<tenant, created>>
  BY <1>5 DEF ExpireRemove, SweepRemove
<1>6. CASE SweepSnapshot \/ ShutdownStop \/ ShutdownReturn
  BY <1>6 DEF SweepSnapshot, ShutdownStop, ShutdownReturn
<1>7. CASE ShutdownTake
  BY <1>7 DEF ShutdownTake
<1>8. ASSUME NEW r \in Runs, DrainCall(r) \/ DrainMark(r) \/ DrainClose(r)
      PROVE  UNCHANGED mapVars
  BY <1>8 DEF DrainCall, DrainMark, DrainClose
<1>9. ASSUME NEW r, NEW s, ReleaseContext(r) \/ ExternalSetStatus(r, s)
      PROVE  UNCHANGED mapVars
  BY <1>9 DEF ReleaseContext, ExternalSetStatus
<1>10. CASE UNCHANGED vars BY <1>10 DEF vars
<1>11. QED
  BY <1>1, <1>2, <1>3, <1>4, <1>5, <1>6, <1>7, <1>8, <1>9, <1>10
  DEF Next, HubStep, SweepStep, ShutdownStep

\* The inductive form of the accounting: the map is finite, and the counters
\* and the caps are right.
MapInv == IsFiniteSet(runs) /\ TenantAccounting /\ CapsRespected

\* Cardinality of the rows of a tenant when a row is added or removed.
LEMMA RowsFinite ==
  ASSUME IsFiniteSet(runs), NEW t
  PROVE  IsFiniteSet(RowsOf(t)) /\ Cardinality(RowsOf(t)) \in Nat
<1>1. RowsOf(t) \in SUBSET runs BY DEF RowsOf
<1>2. QED BY <1>1, FS_Subset, FS_CardinalityType

LEMMA MapInvStep == TypeOK /\ MapInv /\ [Next]_vars => MapInv'
<1> SUFFICES ASSUME TypeOK, MapInv, [Next]_vars PROVE MapInv' OBVIOUS
<1>1. CASE UNCHANGED mapVars
  BY <1>1 DEF mapVars, MapInv, TenantAccounting, CapsRespected, RowsOf
<1>2. ASSUME NEW r \in Runs, NEW t \in Tenants \cup {NoTenant}, Create(r, t) PROVE MapInv'
  <2>1. /\ runs' = runs \cup {r} /\ r \notin runs
        /\ tenant' = [tenant EXCEPT ![r] = t]
        /\ perTenan' = IF t = NoTenant THEN perTenan ELSE [perTenan EXCEPT ![t] = @ + 1]
        /\ Cardinality(runs) < MaxRuns
        /\ MaxRunsPerTenant > 0 /\ t # NoTenant => perTenan[t] < MaxRunsPerTenant
    BY <1>2 DEF Create, BelowCaps, TypeOK
  <2>2. IsFiniteSet(runs') /\ Cardinality(runs') = Cardinality(runs) + 1
    BY <2>1, FS_AddElement DEF MapInv
  <2>3. ASSUME NEW u \in Tenants
        PROVE  /\ Cardinality(RowsOf(u)') = IF u = t THEN Cardinality(RowsOf(u)) + 1
                                            ELSE Cardinality(RowsOf(u))
    <3>0. IsFiniteSet(RowsOf(u)) BY RowsFinite DEF MapInv
    <3>1. CASE u = t
      <4>1. RowsOf(u)' = RowsOf(u) \cup {r} /\ r \notin RowsOf(u)
        BY <2>1, <3>1 DEF RowsOf, TypeOK
      <4>2. QED BY <3>0, <3>1, <4>1, FS_AddElement
    <3>2. CASE u # t
      <4>1. RowsOf(u)' = RowsOf(u) BY <2>1, <3>2 DEF RowsOf, TypeOK
      <4>2. QED BY <3>2, <4>1
    <3>3. QED BY <3>1, <3>2
  <2>4. TenantAccounting'
    BY <2>1, <2>3, TenantAssumption DEF TenantAccounting, MapInv, TypeOK
  <2>5. CapsRespected'
    <3>1. Cardinality(runs) \in Nat BY FS_CardinalityType DEF MapInv
    <3>2. Cardinality(runs') <= MaxRuns BY <2>1, <2>2, <3>1, CapsAssumption
    <3>3. ASSUME NEW u \in Tenants, MaxRunsPerTenant > 0
          PROVE  Cardinality(RowsOf(u)') <= MaxRunsPerTenant
      <4>1. Cardinality(RowsOf(u)) \in Nat BY RowsFinite DEF MapInv
      <4>2. Cardinality(RowsOf(u)) = perTenan[u] BY DEF MapInv, TenantAccounting
      <4>3. Cardinality(RowsOf(u)) <= MaxRunsPerTenant BY <3>3 DEF MapInv, CapsRespected
      <4>4. QED BY <2>1, <2>3, <3>3, <4>1, <4>2, <4>3, CapsAssumption, TenantAssumption
    <3>4. QED BY <3>2, <3>3 DEF CapsRespected
  <2>6. QED BY <2>2, <2>4, <2>5 DEF MapInv
<1>3. ASSUME NEW r \in Runs, Remove(r), UNCHANGED <<tenant, created>> PROVE MapInv'
  <2>1. /\ runs' = runs \ {r} /\ tenant' = tenant
        /\ perTenan' = IF r \in runs /\ tenant[r] # NoTenant /\ perTenan[tenant[r]] > 0
                       THEN [perTenan EXCEPT ![tenant[r]] = @ - 1] ELSE perTenan
    BY <1>3 DEF Remove
  <2>2. /\ IsFiniteSet(runs')
        /\ Cardinality(runs') <= Cardinality(runs)
    <3>1. IsFiniteSet(runs) BY DEF MapInv
    <3>2. Cardinality(runs) \in Nat BY <3>1, FS_CardinalityType
    <3>3. /\ IsFiniteSet(runs \ {r})
          /\ Cardinality(runs \ {r}) = IF r \in runs THEN Cardinality(runs) - 1
                                       ELSE Cardinality(runs)
      BY <3>1, FS_RemoveElement
    <3>4. Cardinality(runs \ {r}) <= Cardinality(runs) BY <3>2, <3>3
    <3>5. QED BY <2>1, <3>3, <3>4
  <2>3. ASSUME NEW u \in Tenants
        PROVE  /\ Cardinality(RowsOf(u)') = IF r \in RowsOf(u) THEN Cardinality(RowsOf(u)) - 1
                                            ELSE Cardinality(RowsOf(u))
               /\ r \in RowsOf(u) => Cardinality(RowsOf(u)) > 0
    <3>1. IsFiniteSet(RowsOf(u)) /\ Cardinality(RowsOf(u)) \in Nat BY RowsFinite DEF MapInv
    <3>2. RowsOf(u)' = RowsOf(u) \ {r} BY <2>1 DEF RowsOf
    <3>3. QED BY <3>1, <3>2, FS_RemoveElement, FS_EmptySet
  <2>4. TenantAccounting'
    <3> SUFFICES ASSUME NEW u \in Tenants PROVE perTenan'[u] = Cardinality(RowsOf(u)')
      BY DEF TenantAccounting, RowsOf
    <3>1. perTenan[u] = Cardinality(RowsOf(u)) BY DEF MapInv, TenantAccounting
    <3>2. CASE r \in RowsOf(u)
      <4>1. r \in runs /\ tenant[r] = u /\ u # NoTenant BY <3>2, TenantAssumption DEF RowsOf
      <4>2. perTenan[tenant[r]] > 0 BY <2>3, <3>1, <3>2, <4>1
      <4>3. perTenan'[u] = perTenan[u] - 1 BY <2>1, <4>1, <4>2 DEF TypeOK
      <4>4. QED BY <2>3, <3>1, <3>2, <4>3
    <3>3. CASE r \notin RowsOf(u)
      <4>1. perTenan'[u] = perTenan[u] BY <2>1, <3>3 DEF RowsOf, TypeOK
      <4>2. QED BY <2>3, <3>1, <3>3, <4>1
    <3>4. QED BY <3>2, <3>3
  <2>5. CapsRespected'
    <3>1. Cardinality(runs) \in Nat /\ Cardinality(runs') \in Nat
      BY <2>2, FS_CardinalityType DEF MapInv
    <3>2. Cardinality(runs') <= MaxRuns
      BY <2>2, <3>1, CapsAssumption DEF MapInv, CapsRespected
    <3>3. ASSUME NEW u \in Tenants, MaxRunsPerTenant > 0
          PROVE  Cardinality(RowsOf(u)') <= MaxRunsPerTenant
      <4>1. Cardinality(RowsOf(u)) \in Nat BY RowsFinite DEF MapInv
      <4>2. Cardinality(RowsOf(u)) <= MaxRunsPerTenant BY <3>3 DEF MapInv, CapsRespected
      <4>3. QED BY <2>3, <4>1, <4>2, CapsAssumption
    <3>4. QED BY <3>2, <3>3 DEF CapsRespected
  <2>6. QED BY <2>2, <2>4, <2>5 DEF MapInv
<1>4. CASE runs' = {} /\ perTenan' = [t \in Tenants |-> 0] /\ UNCHANGED <<tenant, created>>
  <2>1. \A t \in Tenants: RowsOf(t)' = {} BY <1>4 DEF RowsOf
  <2>2. \A t \in Tenants: Cardinality(RowsOf(t)') = 0 BY <2>1, FS_EmptySet
  <2>3. IsFiniteSet(runs') /\ Cardinality(runs') = 0 BY <1>4, FS_EmptySet
  <2>4. TenantAccounting' BY <1>4, <2>2 DEF TenantAccounting, RowsOf
  <2>5. CapsRespected' BY <2>2, <2>3, CapsAssumption DEF CapsRespected, RowsOf
  <2>6. QED BY <2>3, <2>4, <2>5 DEF MapInv
<1>5. QED BY <1>1, <1>2, <1>3, <1>4, MapStep

-----------------------------------------------------------------------------
(* Tear-down of the runs that leave the map.                               *)

\* A run has a terminal status only if its subscribers are torn down or the
\* goroutine that set the status is about to do it; what the sweeper works on
\* is in its victim sets; nothing is drained before Shutdown has the map.
TearDownInv ==
  /\ \A r \in Runs:
       /\ status[r] \in Terminal => \/ r \in closed
                                    \/ finishOp[r] = "close"
                                    \/ expireOp[r] \in {"call", "close"}
                                    \/ drainOp[r] # "none"
       /\ r \in removeSet => r \in closed \/ finishOp[r] = "close"
       /\ expireOp[r] = "remove" => r \in closed
       /\ expireOp[r] # "none" => r \in expireSet
       /\ drainOp[r] # "none" => shut = "draining" /\ r \in created \ runs
  /\ RemovedIsTornDown

LEMMA TearDownStep == TypeOK /\ TearDownInv /\ [Next]_vars => TearDownInv'
<1> SUFFICES ASSUME TypeOK, TearDownInv, [Next]_vars PROVE TearDownInv' OBVIOUS
<1> USE DEF TypeOK, TearDownInv, RemovedIsTornDown
<1>1. ASSUME NEW r \in Runs, NEW t \in Tenants \cup {NoTenant}, Create(r, t) PROVE TearDownInv'
  BY <1>1 DEF Create, Terminal, callVars, gcVars, shutVars
<1>2. ASSUME NEW r \in Runs, CancelLookup(r) \/ CancelStep(r) PROVE TearDownInv'
  BY <1>2 DEF CancelLookup, CancelStep, CancelMark, CancelCall, SetStatus, Terminal,
     mapVars, runVars, gcVars, shutVars
<1>3. ASSUME NEW r \in Runs, NEW s \in {"completed", "failed"}, FinishLookup(r, s)
      PROVE  TearDownInv'
  BY <1>3 DEF FinishLookup, mapVars, runVars, gcVars, shutVars
<1>4. ASSUME NEW r \in Runs, FinishStep(r) PROVE TearDownInv'
  BY <1>4 DEF FinishStep, FinishStamp, FinishMark, FinishClose, SetStatus,
     mapVars, runVars, gcVars, shutVars
<1>5. ASSUME NEW r \in Runs, Clock(r) PROVE TearDownInv'
  BY <1>5 DEF Clock, ExpiryPasses, RetentionPasses, mapVars, callVars, gcVars, shutVars
<1>6. ASSUME NEW r \in Runs, ExpireMark(r) \/ ExpireCall(r) \/ ExpireClose(r)
      PROVE  TearDownInv'
  BY <1>6 DEF ExpireMark, ExpireCall, ExpireClose, SetStatus, mapVars, callVars, shutVars
<1>7. ASSUME NEW r \in Runs, ExpireRemove(r) \/ SweepRemove(r) PROVE TearDownInv'
  <2>1. runs' = runs \ {r} BY <1>7 DEF ExpireRemove, SweepRemove, Remove
  <2>2. QED BY <1>7, <2>1 DEF ExpireRemove, SweepRemove, runVars, callVars, shutVars
<1>8. CASE SweepSnapshot
  BY <1>8 DEF SweepSnapshot, ExpiryVictims, RetentionVictims, mapVars, runVars, callVars,
     shutVars
<1>9. CASE ShutdownStop
  BY <1>9 DEF ShutdownStop, mapVars, runVars, callVars, gcVars
<1>10. CASE ShutdownTake \/ ShutdownReturn
  BY <1>10 DEF ShutdownTake, ShutdownReturn, mapVars, runVars, callVars, gcVars
<1>11. ASSUME NEW r \in Runs, DrainCall(r) \/ DrainMark(r) \/ DrainClose(r) PROVE TearDownInv'
  BY <1>11 DEF DrainCall, DrainMark, DrainClose, SetStatus, mapVars, callVars, gcVars
<1>12. ASSUME NEW r \in Runs, ReleaseContext(r) PROVE TearDownInv'
  BY <1>12 DEF ReleaseContext, mapVars, callVars, gcVars, shutVars
<1>13. ASSUME NEW r \in Runs, NEW s \in {"in_progress", "requires_action"},
              ExternalSetStatus(r, s)
       PROVE  TearDownInv'
  BY <1>13 DEF ExternalSetStatus, SetStatus, Terminal, mapVars, callVars, gcVars, shutVars
<1>14. CASE UNCHANGED vars
  BY <1>14 DEF vars, mapVars, runVars, callVars, gcVars, shutVars
<1> HIDE DEF TypeOK, TearDownInv, RemovedIsTornDown
<1>15. QED
  BY <1>1, <1>2, <1>3, <1>4, <1>5, <1>6, <1>7, <1>8, <1>9, <1>10, <1>11, <1>12, <1>13,
     <1>14 DEF Next, HubStep, SweepStep, ShutdownStep

-----------------------------------------------------------------------------
(* The theorems.                                                           *)

HubInv == TypeOK /\ MapInv /\ TearDownInv

LEMMA HubInvInit == Init => HubInv
<1> SUFFICES ASSUME Init PROVE HubInv OBVIOUS
<1>1. TypeOK BY HubTypeInit
<1>2. MapInv
  <2>1. \A t \in Tenants: RowsOf(t) = {} BY DEF Init, RowsOf
  <2>2. QED BY <2>1, FS_EmptySet, CapsAssumption DEF Init, MapInv, TenantAccounting, CapsRespected
<1>3. TearDownInv BY DEF Init, TearDownInv, RemovedIsTornDown, Terminal
<1>4. QED BY <1>1, <1>2, <1>3 DEF HubInv

LEMMA HubInvStep == HubInv /\ [Next]_vars => HubInv'
BY HubTypeStep, MapInvStep, TearDownStep DEF HubInv

\* The hub's fields keep their types under any callers.
THEOREM HubTypeOK == Spec => []TypeOK
<1>1. HubInv => TypeOK BY DEF HubInv
<1>2. QED BY <1>1, HubInvInit, HubInvStep, PTL DEF Spec

\* Under any callers, the tenant counters are the number of rows of each
\* tenant, and the rows respect both caps of Create.
THEOREM HubAccounting == Spec => [](TenantAccounting /\ CapsRespected)
<1>1. HubInv => TenantAccounting /\ CapsRespected BY DEF HubInv, MapInv
<1>2. QED BY <1>1, HubInvInit, HubInvStep, PTL DEF Spec

\* Under any callers, a run that has left the map has its subscribers torn
\* down, or a Finish or Shutdown in progress will do it.
THEOREM HubTearDown == Spec => []RemovedIsTornDown
<1>1. HubInv => RemovedIsTornDown BY DEF HubInv, TearDownInv
<1>2. QED BY <1>1, HubInvInit, HubInvStep, PTL DEF Spec

-----------------------------------------------------------------------------
(* The gateway's handlers are callers of the hub.                          *)

LEMMA GatewayStep == [GwNext]_gwVars => [Next]_vars
<1> SUFFICES ASSUME [GwNext]_gwVars PROVE [Next]_vars OBVIOUS
<1>1. ASSUME NEW r \in Runs, NEW t \in Tenants \cup {NoTenant}, HandlerCreate(r, t)
      PROVE  Next
  BY <1>1 DEF HandlerCreate, Next
<1>2. ASSUME NEW r \in Runs,
             HandlerSetInProgress(r) \/ AskPause(r) \/ AskAnswered(r) \/ SubagentAsks(r)
      PROVE  Next
  BY <1>2 DEF HandlerSetInProgress, AskPause, AskAnswered, SubagentAsks, Next
<1>3. ASSUME NEW r \in Runs, RunStreamFails(r) \/ TurnTimeout(r) \/ ProducerReturns(r)
      PROVE  Next
  BY <1>3 DEF RunStreamFails, TurnTimeout, ProducerReturns, Next
<1>4. ASSUME NEW r \in Runs, RunStreamStarts(r) \/ AskAborted(r) \/ FinishMisses(r)
      PROVE  UNCHANGED vars
  BY <1>4 DEF RunStreamStarts, AskAborted, FinishMisses
<1>5. ASSUME NEW r \in Runs, CallFinish(r) PROVE Next
  BY <1>5 DEF CallFinish, Next
<1>6. ASSUME NEW r \in Runs, ClientCancel(r) PROVE Next
  BY <1>6 DEF ClientCancel, Next
<1>7. CASE HubStep /\ UNCHANGED prod BY <1>7 DEF Next
<1>8. CASE UNCHANGED gwVars BY <1>8 DEF gwVars
<1>9. QED BY <1>1, <1>2, <1>3, <1>4, <1>5, <1>6, <1>7, <1>8 DEF GwNext, HandlerStep

\* The gateway implements the hub under any callers: what is proved of the
\* hub holds of the gateway.
THEOREM GatewayImplementsHub == GwSpec => Spec
<1>1. GwInit => Init BY DEF GwInit
<1>2. QED BY <1>1, GatewayStep, PTL DEF GwSpec, Spec

\* Tenant counters, caps and tear-down, for the hub as the gateway uses it.
THEOREM GatewaySafe == GwSpec => [](TenantAccounting /\ CapsRespected /\ RemovedIsTornDown)
BY GatewayImplementsHub, HubAccounting, HubTearDown, PTL
=============================================================================
