------------------------ MODULE ClientProcessingProofs ------------------------
(***************************************************************************)
(* The safety properties of ClientProcessing, for any stream of events,    *)
(* any options and any number of retries.                                  *)
(***************************************************************************)
EXTENDS ClientProcessing, TLAPS

\* The client on a stream that may bring any event at any time.
AnyStream == ClientInit /\ [][ClientNext(Event)]_clientVars

\* The type invariant, and what the steps keep of the event in hand: its attempts are
\* paid for, and a checkpoint is only at hand for a webhook whose stages are through.
Budget ==
  /\ attempt \in 1..MaxAttempts
  /\ Durable => requests = 0
  /\ ~Durable /\ cpc = "processing" =>
       requests = IF "forward" \in passed THEN attempt ELSE attempt - 1
  /\ ~Durable /\ cpc = "sleeping" => requests = attempt /\ attempt < MaxAttempts
  /\ requests <= MaxAttempts

WorkDone ==
  cpc \in {"checkpointing", "rewriting"} => cur.kind = "hook" /\ Durable /\ Wanted \subseteq passed

ClientInv == ClientTypeOK /\ Budget /\ WorkDone

-----------------------------------------------------------------------------
(* One step                                                                *)

LEMMA MaxAttemptsPositive == MaxAttempts \in Nat \ {0}
BY ClientAssumption DEF MaxAttempts

LEMMA NothingIsNoWebhook == Nothing \in Event /\ Nothing.id = 0 /\ Nothing.kind = "control"
BY DEF Nothing, Message, Event

\* A step of the retry loop keeps the types.
LEMMA ClientStepType ==
  ASSUME ClientTypeOK, ExecStep \/ OtherStep
  PROVE  ClientTypeOK'
<1> USE DEF ClientTypeOK, ClientStates
<1>1. CASE PassOver
  BY <1>1 DEF PassOver
<1>2. CASE Refuse
  BY <1>2 DEF Refuse
<1>3. CASE Retry
  BY <1>3 DEF Retry
<1>4. CASE Finish
  BY <1>4 DEF Finish, Event
<1>5. ASSUME NEW s \in Stages, Succeeds(s)
      PROVE  ClientTypeOK'
  BY <1>5 DEF Succeeds, RequestsAfter
<1>6. ASSUME NEW s \in Stages, LocalFailure(s)
      PROVE  ClientTypeOK'
  BY <1>6 DEF LocalFailure
<1>7. CASE TargetFails
  BY <1>7 DEF TargetFails, RequestsAfter
<1>8. CASE TargetRefuses
  BY <1>8 DEF TargetRefuses, RequestsAfter
<1>9. CASE Advance
  BY <1>9 DEF Advance, Event
<1>10. CASE AdvanceFails
  BY <1>10 DEF AdvanceFails
<1>11. CASE RetryAdvance
  BY <1>11 DEF RetryAdvance
<1> QED
  BY <1>1, <1>2, <1>3, <1>4, <1>5, <1>6, <1>7, <1>8, <1>9, <1>10, <1>11
  DEF ExecStep, OtherStep, Stages

\* A step of the retry loop keeps the budget: one attempt makes one request at most.
LEMMA ClientStepBudget ==
  ASSUME ClientTypeOK, Budget, ExecStep \/ OtherStep
  PROVE  Budget'
<1> USE MaxAttemptsPositive DEF Budget, ClientTypeOK, Durable, MaxAttempts
<1>1. CASE PassOver
  BY <1>1 DEF PassOver
<1>2. CASE Refuse
  BY <1>2 DEF Refuse
<1>3. CASE Retry
  BY <1>3 DEF Retry
<1>4. CASE Finish
  BY <1>4 DEF Finish
<1>5. ASSUME NEW s \in Stages, Succeeds(s)
      PROVE  Budget'
  BY <1>5 DEF Succeeds, At, RequestsAfter
<1>6. ASSUME NEW s \in Stages, LocalFailure(s)
      PROVE  Budget'
  BY <1>6 DEF LocalFailure, At
<1>7. CASE TargetFails
  BY <1>7 DEF TargetFails, At, RequestsAfter
<1>8. CASE TargetRefuses
  BY <1>8 DEF TargetRefuses, At, RequestsAfter
<1>9. CASE Advance
  BY <1>9 DEF Advance
<1>10. CASE AdvanceFails
  BY <1>10 DEF AdvanceFails
<1>11. CASE RetryAdvance
  BY <1>11 DEF RetryAdvance
<1> QED
  BY <1>1, <1>2, <1>3, <1>4, <1>5, <1>6, <1>7, <1>8, <1>9, <1>10, <1>11
  DEF ExecStep, OtherStep, Stages

\* It comes to a checkpoint only through Finish.
LEMMA ClientStepWork ==
  ASSUME ClientTypeOK, WorkDone, ExecStep \/ OtherStep
  PROVE  WorkDone'
<1> USE DEF WorkDone
<1>1. CASE PassOver
  BY <1>1 DEF PassOver
<1>2. CASE Refuse
  BY <1>2 DEF Refuse
<1>3. CASE Retry
  BY <1>3 DEF Retry
<1>4. CASE Finish
  BY <1>4 DEF Finish, Wanted, ExecApplies, Durable
<1>5. ASSUME NEW s \in Stages, Succeeds(s)
      PROVE  WorkDone'
  BY <1>5 DEF Succeeds, At
<1>6. ASSUME NEW s \in Stages, LocalFailure(s)
      PROVE  WorkDone'
  BY <1>6 DEF LocalFailure, At
<1>7. CASE TargetFails
  BY <1>7 DEF TargetFails, At
<1>8. CASE TargetRefuses
  BY <1>8 DEF TargetRefuses, At
<1>9. CASE Advance
  BY <1>9 DEF Advance
<1>10. CASE AdvanceFails
  BY <1>10 DEF AdvanceFails, Wanted, ExecApplies, Durable
<1>11. CASE RetryAdvance
  BY <1>11 DEF RetryAdvance, Wanted, ExecApplies, Durable
<1> QED
  BY <1>1, <1>2, <1>3, <1>4, <1>5, <1>6, <1>7, <1>8, <1>9, <1>10, <1>11
  DEF ExecStep, OtherStep, Stages

LEMMA ClientInvInit == ClientInit => ClientInv
BY ClientAssumption, MaxAttemptsPositive, NothingIsNoWebhook
DEF ClientInit, ClientInv, ClientTypeOK, ClientStates, Budget, WorkDone, Durable

LEMMA ClientInvStep ==
  ASSUME ClientInv, [ClientNext(Event)]_clientVars
  PROVE  ClientInv'
<1> USE DEF ClientInv
<1>1. ASSUME NEW ev \in Event, Dispatch(ev)
      PROVE  ClientInv'
  BY <1>1, MaxAttemptsPositive
  DEF Dispatch, ClientTypeOK, ClientStates, Budget, WorkDone, Durable, MaxAttempts
<1>2. CASE ExecStep \/ OtherStep
  BY <1>2, ClientStepType, ClientStepBudget, ClientStepWork
<1>3. CASE Crash
  BY <1>3 DEF Crash, ClientTypeOK, ClientStates, Budget, WorkDone, Durable, MaxAttempts
<1>4. CASE Restart
  BY <1>4, NothingIsNoWebhook
  DEF Restart, ClientTypeOK, ClientStates, Budget, WorkDone, Durable, MaxAttempts
<1>5. CASE UNCHANGED clientVars
  BY <1>5 DEF clientVars, ClientTypeOK, Budget, WorkDone, Durable, Wanted, ExecApplies,
              MaxAttempts
<1> QED BY <1>1, <1>2, <1>3, <1>4, <1>5 DEF ClientNext

LEMMA ClientInvariant == AnyStream => []ClientInv
<1>1. ClientInv /\ [ClientNext(Event)]_clientVars => ClientInv'
  BY ClientInvStep
<1> QED BY <1>1, ClientInvInit, PTL DEF AnyStream

-----------------------------------------------------------------------------
(* The properties                                                          *)

\* The type invariant, for every stream.
THEOREM ClientTypeCorrect == AnyStream => []ClientTypeOK
<1>1. ClientInv => ClientTypeOK
  BY DEF ClientInv
<1> QED BY <1>1, ClientInvariant, PTL

\* No event without stream ID costs the target more than 1 + --target-retries requests.
THEOREM BudgetCorrect == AnyStream => []BudgetHonoured
<1>1. ClientInv => BudgetHonoured
  BY DEF ClientInv, Budget, BudgetHonoured
<1> QED BY <1>1, ClientInvariant, PTL

\* Such an event is given up on a transient failure only after that many.
THEOREM GivesUpCorrect == AnyStream => GivesUpWhenSpent
<1>1. ASSUME ClientInv, ~Durable, TargetFails, cpc' = "idle"
      PROVE  requests' = MaxAttempts
  BY <1>1, MaxAttemptsPositive
  DEF ClientInv, ClientTypeOK, Budget, TargetFails, At, RequestsAfter, Durable
<1>2. ClientInv => [~Durable /\ TargetFails /\ cpc' = "idle" => requests' = MaxAttempts]_clientVars
  BY <1>1
<1> QED BY <1>2, ClientInvariant, PTL DEF GivesUpWhenSpent

\* The state file moves onto an event only when one whole attempt at it succeeded.
THEOREM CheckpointCorrect == AnyStream => CheckpointAfterWork
<1> DEFINE Worked ==
      /\ cpc = "checkpointing" /\ cur.kind = "hook" /\ file' = cur.id
      /\ \/ cur.type \in IgnoreEvents
         \/ \A s \in Stages : opts[s] /\ (s = "exec" => ExecApplies) => s \in passed
<1>1. ASSUME ClientInv, ClientNext(Event), file' # file
      PROVE  Worked
  <2>1. CASE Advance
    BY <1>1, <2>1 DEF Advance, ClientInv, WorkDone, Wanted
  <2>2. CASE \E ev \in Event : Dispatch(ev)
    BY <1>1, <2>2 DEF Dispatch
  <2>3. CASE Crash \/ Restart
    BY <1>1, <2>3 DEF Crash, Restart
  <2>4. ASSUME NEW s \in Stages, Succeeds(s) \/ LocalFailure(s)
        PROVE  FALSE
    BY <1>1, <2>4 DEF Succeeds, LocalFailure
  <2>5. CASE PassOver \/ Refuse \/ Retry \/ Finish \/ TargetFails \/ TargetRefuses
               \/ AdvanceFails \/ RetryAdvance
    BY <1>1, <2>5 DEF PassOver, Refuse, Retry, Finish, TargetFails, TargetRefuses,
                      AdvanceFails, RetryAdvance
  <2> QED BY <1>1, <2>1, <2>2, <2>3, <2>4, <2>5 DEF ClientNext, ExecStep, OtherStep, Stages
<1>2. ClientInv /\ [ClientNext(Event)]_clientVars => [file' # file => Worked]_clientVars
  BY <1>1
<1> QED BY <1>2, ClientInvariant, PTL DEF AnyStream, CheckpointAfterWork

\* The client leaves a webhook with a stream ID with the checkpoint on it, or dies with
\* the checkpoint where it was.
THEOREM DurableCorrect == AnyStream => DurableNotAbandoned
<1> DEFINE Kept == ckpt' = cur.id \/ (cpc' \in {"exited", "down"} /\ ckpt' = ckpt)
<1>1. ASSUME ClientInv, ClientNext(Event), Busy, ~Busy', Durable, cur.kind = "hook"
      PROVE  Kept
  <2> USE <1>1 DEF Busy
  <2>1. CASE \E ev \in Event : Dispatch(ev)
    BY <2>1 DEF Dispatch
  <2>2. CASE Crash \/ Restart
    BY <2>2 DEF Crash, Restart
  <2>3. ASSUME NEW s \in Stages, Succeeds(s) \/ LocalFailure(s)
        PROVE  FALSE
    BY <2>3 DEF Succeeds, LocalFailure, At
  <2>4. CASE PassOver \/ Refuse
    BY <2>4 DEF PassOver, Refuse
  <2>5. CASE Retry \/ Finish \/ AdvanceFails \/ RetryAdvance
    BY <2>5 DEF Retry, Finish, AdvanceFails, RetryAdvance
  <2>6. CASE TargetFails \/ TargetRefuses
    BY <2>6 DEF TargetFails, TargetRefuses, At
  <2>7. CASE Advance
    BY <2>7 DEF Advance
  <2> QED BY <2>1, <2>2, <2>3, <2>4, <2>5, <2>6, <2>7
          DEF ClientNext, ExecStep, OtherStep, Stages
<1>2. ClientInv /\ [ClientNext(Event)]_clientVars =>
        [Busy /\ ~Busy' /\ Durable /\ cur.kind = "hook" => Kept]_clientVars
  BY <1>1
<1> QED BY <1>2, ClientInvariant, PTL DEF AnyStream, DurableNotAbandoned
=============================================================================
