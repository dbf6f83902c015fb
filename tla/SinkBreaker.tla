---------------------------- MODULE SinkBreaker ----------------------------
(***************************************************************************)
(* The circuit breaker of pkg/runhub/persistent_sink_breaker.go, which     *)
(* guards the store calls of the batch writer.  Every operation runs under *)
(* one mutex, so each is one step; module BatchWriter calls them.          *)
(***************************************************************************)
EXTENDS Integers

CONSTANTS
  Threshold,   \* failures in a row that open the breaker, 0 for no breaker
  Latched      \* cooldown <= 0: an open breaker stays open until restart

ASSUME BreakerAssumption == Threshold \in Nat /\ Latched \in BOOLEAN

VARIABLES
  state,       \* b.state
  consecFail,  \* b.consecFail
  probeInUse,  \* b.probeInUse
  cooled       \* the cooldown has elapsed since openedAt

breakerVars == <<state, consecFail, probeInUse, cooled>>

Enabled == Threshold > 0

BreakerInit ==
  /\ state = "closed" /\ consecFail = 0
  /\ probeInUse = FALSE /\ cooled = FALSE

\* The answer of allow().
Allowed ==
  \/ ~Enabled
  \/ state = "closed"
  \/ state = "half_open" /\ ~probeInUse
  \/ state = "open" /\ ~Latched /\ cooled

\* What allow() does to the breaker when it answers yes.
Admit ==
  IF Enabled /\ state = "open"
  THEN /\ state' = "half_open" /\ probeInUse' = TRUE
       /\ UNCHANGED <<consecFail, cooled>>
  ELSE UNCHANGED breakerVars

recordSuccess ==
  IF ~Enabled THEN UNCHANGED breakerVars
  ELSE /\ consecFail' = 0
       /\ IF state = "half_open"
          THEN state' = "closed" /\ probeInUse' = FALSE
          ELSE UNCHANGED <<state, probeInUse>>
       /\ UNCHANGED cooled

\* Mutant: the breaker opens one failure late.
recordFailureLate ==
  CASE Enabled /\ state = "half_open" ->
         /\ state' = "open" /\ probeInUse' = FALSE /\ cooled' = FALSE
         /\ UNCHANGED consecFail
    [] Enabled /\ state = "closed" ->
         /\ consecFail' = consecFail + 1
         /\ IF consecFail + 1 > Threshold
            THEN state' = "open" /\ cooled' = FALSE
            ELSE UNCHANGED <<state, cooled>>
         /\ UNCHANGED probeInUse
    [] OTHER -> UNCHANGED breakerVars

\* Mutant: a failed probe is counted like any other failure, which the
\* threshold has long passed, so the breaker stays half open.
recordFailureNoProbe ==
  IF Enabled /\ state = "closed"
  THEN /\ consecFail' = consecFail + 1
       /\ IF consecFail + 1 >= Threshold
          THEN state' = "open" /\ cooled' = FALSE
          ELSE UNCHANGED <<state, cooled>>
       /\ UNCHANGED probeInUse
  ELSE UNCHANGED breakerVars

recordFailure ==
  CASE Enabled /\ state = "half_open" ->
         /\ state' = "open" /\ probeInUse' = FALSE /\ cooled' = FALSE
         /\ UNCHANGED consecFail
    [] Enabled /\ state = "closed" ->
         /\ consecFail' = consecFail + 1
         /\ IF consecFail + 1 >= Threshold
            THEN state' = "open" /\ cooled' = FALSE
            ELSE UNCHANGED <<state, cooled>>
         /\ UNCHANGED probeInUse
    [] OTHER -> UNCHANGED breakerVars

\* The cooldown runs out.
CooldownElapses ==
  /\ state = "open" /\ ~cooled
  /\ cooled' = TRUE
  /\ UNCHANGED <<state, consecFail, probeInUse>>

BreakerTypeOK ==
  /\ state \in {"closed", "half_open", "open"}
  /\ consecFail \in Nat
  /\ probeInUse \in BOOLEAN /\ cooled \in BOOLEAN
=============================================================================
