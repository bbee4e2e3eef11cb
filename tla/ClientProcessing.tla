-------------------------- MODULE ClientProcessing --------------------------
(***************************************************************************)
(* What `gosmee client` does with one event after the other:               *)
(* processClientEvent, the retry loop around it and the resume checkpoint  *)
(* (gosmee/client.go).                                                     *)
(*                                                                         *)
(* The client is one goroutine: the loop that reads the stream processes   *)
(* an event to its end before it reads the next.  The world outside        *)
(* decides how each stage ends: a file is written or not, the target       *)
(* accepts, fails for a while or refuses for good, the command succeeds or *)
(* not, and the process may be killed between any two steps.  How long the *)
(* client sleeps before a retry is left out.                               *)
(***************************************************************************)
EXTENDS StreamEvents

CONSTANTS IgnoreEvents,   \* --ignore-event
          ExecOnEvents,   \* --exec-on-events
          TargetRetries,  \* --target-retries
          Configs         \* the combinations of options a client may run with

Stages == {"save", "forward", "exec"}

\* --saveDir, not --noReplay, --exec, --resume-state-file.
Options == [save : BOOLEAN, forward : BOOLEAN, exec : BOOLEAN, stateFile : BOOLEAN]

ASSUME ClientAssumption ==
  /\ IgnoreEvents \subseteq Types
  /\ ExecOnEvents \subseteq Types
  /\ TargetRetries \in Int
  /\ Configs \subseteq Options

VARIABLES
  opts,      \* replayDataOpts, fixed when the client starts
  cpc,       \* what the client is doing
  cur,       \* the event it is doing it with
  attempt,   \* the attempt of an event without stream ID
  passed,    \* the stages this attempt has been through
  ckpt,      \* resumeState.id; 0 is none
  file,      \* the resume state file; 0 is no file
  settled,   \* the stream events processed to the end (history)
  requests   \* the POSTs made for cur if it has no stream ID (history)

clientVars == <<opts, cpc, cur, attempt, passed, ckpt, file, settled, requests>>

\* The client has no event yet.
Nothing == Message(0, "control", NoType)

ClientStates ==
  {"idle", "processing", "sleeping", "checkpointing", "rewriting", "exited", "down"}
Busy == cpc \in {"processing", "sleeping", "checkpointing", "rewriting"}

ClientTypeOK ==
  /\ opts \in Options
  /\ cpc \in ClientStates
  /\ cur \in Event
  /\ attempt \in Nat
  /\ passed \subseteq Stages
  /\ ckpt \in Nat
  /\ file \in Nat
  /\ settled \subseteq Nat
  /\ requests \in Nat

ClientInit ==
  /\ opts \in Configs
  /\ cpc = "idle"
  /\ cur = Nothing
  /\ attempt = 1
  /\ passed = {}
  /\ ckpt = 0
  /\ file = 0
  /\ settled = {}
  /\ requests = 0

-----------------------------------------------------------------------------
\* isValidRedisStreamID(event.ID)
Durable == cur.id # 0

MaxAttempts == 1 + (IF TargetRetries < 0 THEN 0 ELSE TargetRetries)

\* --exec-on-events, empty or naming the type; an event without type matches no name.
ExecApplies == ExecOnEvents = {} \/ cur.type \in ExecOnEvents

\* Fault: the command is left out whatever the options say.
WantedButExec == IF cur.type \in IgnoreEvents THEN {} ELSE {s \in Stages \ {"exec"} : opts[s]}

\* What processClientEvent has to do for the event under these options.
Wanted ==
  IF cur.type \in IgnoreEvents THEN {}
  ELSE {s \in Stages : opts[s] /\ (s = "exec" => ExecApplies)}

\* The stages come in this order, and one that fails ends the attempt.
Before(s) == CASE s = "save" -> {}
               [] s = "forward" -> {"save"}
               [] s = "exec" -> {"save", "forward"}

At(s) ==
  /\ cpc = "processing"
  /\ cur.kind = "hook"
  /\ s \in Wanted \ passed
  /\ Wanted \cap Before(s) \subseteq passed

\* Fault: the attempts are counted up to zero and the first one is forgotten.
DispatchFromBelow(ev) ==
  /\ cpc = "idle"
  /\ cpc' = "processing"
  /\ cur' = ev
  /\ attempt' = -TargetRetries
  /\ passed' = {}
  /\ requests' = 0
  /\ UNCHANGED <<opts, ckpt, file, settled>>

\* One more POST, counted for the budget of an event without stream ID.
RequestsAfter == IF Durable THEN requests ELSE requests + 1

\* dispatch hands the next event to processClientEventWithRetry.
Dispatch(ev) ==
  /\ cpc = "idle"
  /\ cpc' = "processing"
  /\ cur' = ev
  /\ attempt' = 1
  /\ passed' = {}
  /\ requests' = 0
  /\ UNCHANGED <<opts, ckpt, file, settled>>

\* A message of the server itself: processed is false, no checkpoint.
PassOver ==
  /\ cpc = "processing"
  /\ cur.kind \in {"control", "gap"}
  /\ cpc' = "idle"
  /\ UNCHANGED <<opts, cur, attempt, passed, ckpt, file, settled, requests>>

\* Decryption or parsing fails: permanent, and the client returns with the error.
Refuse ==
  /\ cpc = "processing"
  /\ cur.kind = "garbled"
  /\ cpc' = "exited"
  /\ UNCHANGED <<opts, cur, attempt, passed, ckpt, file, settled, requests>>

\* The stage s succeeds; to forward is to POST to the target and read a 2xx.
Succeeds(s) ==
  /\ At(s)
  /\ passed' = passed \cup {s}
  /\ requests' = IF s = "forward" THEN RequestsAfter ELSE requests
  /\ UNCHANGED <<opts, cpc, cur, attempt, ckpt, file, settled>>

\* Fault: an event that cannot be saved or run is logged and passed over, stream ID or not.
LocalFailurePassedOver(s) ==
  /\ s \in {"save", "exec"}
  /\ At(s)
  /\ cpc' = "idle"
  /\ UNCHANGED <<opts, cur, attempt, passed, ckpt, file, settled, requests>>

\* saveData or runExecCommand returns an error, which is no targetDeliveryError: an
\* event without stream ID is given up, one with a stream ID tried again.
LocalFailure(s) ==
  /\ s \in {"save", "exec"}
  /\ At(s)
  /\ cpc' = IF Durable THEN "sleeping" ELSE "idle"
  /\ UNCHANGED <<opts, cur, attempt, passed, ckpt, file, settled, requests>>

\* Fault: the budget counts the retries but not the first attempt.
TargetFailsEarly ==
  /\ At("forward")
  /\ requests' = RequestsAfter
  /\ cpc' = IF Durable \/ attempt < MaxAttempts - 1 THEN "sleeping" ELSE "idle"
  /\ UNCHANGED <<opts, cur, attempt, passed, ckpt, file, settled>>

\* Fault: the budget is for every event.
TargetFailsForAll ==
  /\ At("forward")
  /\ requests' = RequestsAfter
  /\ cpc' = IF attempt < MaxAttempts THEN "sleeping" ELSE "idle"
  /\ UNCHANGED <<opts, cur, attempt, passed, ckpt, file, settled>>

\* A timeout, a network error, 408, 425, 429 or 5xx: tried again, for ever when the
\* event has a stream ID, up to the budget when it has none.
TargetFails ==
  /\ At("forward")
  /\ requests' = RequestsAfter
  /\ cpc' = IF Durable \/ attempt < MaxAttempts THEN "sleeping" ELSE "idle"
  /\ UNCHANGED <<opts, cur, attempt, passed, ckpt, file, settled>>

\* Fault: a permanent failure is logged and passed over, stream ID or not.
TargetRefusesPassedOver ==
  /\ At("forward")
  /\ requests' = RequestsAfter
  /\ cpc' = "idle"
  /\ UNCHANGED <<opts, cur, attempt, passed, ckpt, file, settled>>

\* Any other failure or status is permanent: the client exits when the event has a
\* stream ID and goes on when it has none.
TargetRefuses ==
  /\ At("forward")
  /\ requests' = RequestsAfter
  /\ cpc' = IF Durable THEN "exited" ELSE "idle"
  /\ UNCHANGED <<opts, cur, attempt, passed, ckpt, file, settled>>

\* Fault: the attempts of an event without stream ID are not counted.
RetryUncounted ==
  /\ cpc = "sleeping"
  /\ cpc' = "processing"
  /\ passed' = {}
  /\ UNCHANGED <<opts, cur, attempt, ckpt, file, settled, requests>>

\* The sleep is over; the event is processed from the start.  (The attempt of a
\* stream event is only logged, so it is not counted.)
Retry ==
  /\ cpc = "sleeping"
  /\ cpc' = "processing"
  /\ passed' = {}
  /\ attempt' = IF Durable THEN attempt ELSE attempt + 1
  /\ UNCHANGED <<opts, cur, ckpt, file, settled, requests>>

\* Fault: the loop returns only after a checkpoint.
FinishRunsOn ==
  /\ cpc = "processing"
  /\ cur.kind = "hook"
  /\ Wanted \subseteq passed
  /\ IF Durable THEN cpc' = "checkpointing" /\ settled' = settled \cup {cur.id} /\ passed' = passed
                ELSE cpc' = "processing" /\ settled' = settled /\ passed' = {}
  /\ UNCHANGED <<opts, cur, attempt, ckpt, file, requests>>

\* processClientEvent returns true: all is done, or the event is ignored.
Finish ==
  /\ cpc = "processing"
  /\ cur.kind = "hook"
  /\ Wanted \subseteq passed
  /\ IF Durable THEN cpc' = "checkpointing" /\ settled' = settled \cup {cur.id}
                ELSE cpc' = "idle" /\ settled' = settled
  /\ UNCHANGED <<opts, cur, attempt, passed, ckpt, file, requests>>

\* resumeState.Advance.  The file is replaced by a rename, so that a kill leaves the
\* old checkpoint or the new one.
Advance ==
  /\ cpc = "checkpointing"
  /\ file' = IF opts.stateFile THEN cur.id ELSE file
  /\ ckpt' = cur.id
  /\ cpc' = "idle"
  /\ UNCHANGED <<opts, cur, attempt, passed, settled, requests>>

\* The state file cannot be written: neither checkpoint moves.
AdvanceFails ==
  /\ cpc = "checkpointing"
  /\ opts.stateFile
  /\ cpc' = "rewriting"
  /\ UNCHANGED <<opts, cur, attempt, passed, ckpt, file, settled, requests>>

\* After a sleep the checkpoint is tried again, the event is not.
RetryAdvance ==
  /\ cpc = "rewriting"
  /\ cpc' = "checkpointing"
  /\ UNCHANGED <<opts, cur, attempt, passed, ckpt, file, settled, requests>>

\* The process is killed.
Crash ==
  /\ cpc \notin {"exited", "down"}
  /\ cpc' = "down"
  /\ UNCHANGED <<opts, cur, attempt, passed, ckpt, file, settled, requests>>

\* newResumeState: a new client knows what the state file says.
Restart ==
  /\ cpc \in {"exited", "down"}
  /\ cpc' = "idle"
  /\ cur' = Nothing
  /\ ckpt' = file
  /\ UNCHANGED <<opts, attempt, passed, file, settled, requests>>

-----------------------------------------------------------------------------
(* The steps of the loop itself.  The target's answer has a deadline and a *)
(* file operation returns, so only the command can hold the client up:     *)
(* runExecCommand gives it no deadline.                                    *)
ExecStep == Succeeds("exec") \/ LocalFailure("exec")

OtherStep ==
  \/ PassOver \/ Refuse \/ Retry \/ Finish
  \/ Succeeds("save") \/ Succeeds("forward") \/ LocalFailure("save")
  \/ TargetFails \/ TargetRefuses
  \/ Advance \/ AdvanceFails \/ RetryAdvance

ClientNext(Inputs) ==
  \/ \E ev \in Inputs : Dispatch(ev)
  \/ ExecStep \/ OtherStep \/ Crash \/ Restart

\* The loop goes on as long as it has something to do and is not waiting for the
\* command or for the stream.
ClientFairness == WF_clientVars(OtherStep)

-----------------------------------------------------------------------------
(* Properties                                                              *)

\* The resume state file only ever moves to the event in hand, and only after each
\* stage the options ask for succeeded in one and the same attempt: not when a save
\* passed in one attempt and the forward in another.
CheckpointAfterWork ==
  [][file' # file =>
       /\ cpc = "checkpointing" /\ cur.kind = "hook" /\ file' = cur.id
       /\ \/ cur.type \in IgnoreEvents
          \/ \A s \in Stages : opts[s] /\ (s = "exec" => ExecApplies) => s \in passed]_clientVars

\* A webhook with a stream ID is never given up: the client leaves it with the
\* checkpoint on it, or by exiting or being killed, which leaves the checkpoint behind.
DurableNotAbandoned ==
  [][Busy /\ ~Busy' /\ Durable /\ cur.kind = "hook" =>
       ckpt' = cur.id \/ (cpc' \in {"exited", "down"} /\ ckpt' = ckpt)]_clientVars

\* An event without stream ID costs the target at most 1 + --target-retries requests,
\* whatever stages fail around them.
BudgetHonoured == Durable \/ requests <= MaxAttempts

\* Such an event is given up on a transient failure only when the budget is spent.
GivesUpWhenSpent ==
  [][~Durable /\ TargetFails /\ cpc' = "idle" => requests' = MaxAttempts]_clientVars

\* The command of --exec returns, in success or not.
ExecReturns == WF_clientVars(ExecStep)

\* If the command returns, the client is done with an event without stream ID in the
\* end, and free for the next one or gone.
NonDurableFinishes == ExecReturns => (Busy /\ ~Durable ~> ~Busy)

\* "A non-zero exit code is logged as an error but does not stop processing further
\* events": an event the command was started for is left behind in the end, if the
\* command returns.
ExecFailureMovesOn == ExecReturns => (At("exec") ~> ~Busy)
=============================================================================
