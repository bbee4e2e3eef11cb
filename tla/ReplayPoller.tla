---------------------------- MODULE ReplayPoller ----------------------------
(***************************************************************************)
(* `gosmee replay`: the loop of replayHooks (gosmee/replay.go) that polls  *)
(* GitHub for the deliveries of a hook and posts the new ones to a target. *)
(*                                                                         *)
(* A delivery is the rank of its ID, and at[d] the second GitHub delivered *)
(* it in.  GitHub lists the newest PageSize deliveries, newest first, and  *)
(* may not have the details of a delivery it already lists.  All that      *)
(* GitHub, the target, the disk and the command answer is up to them.      *)
(***************************************************************************)
EXTENDS SavedFiles, Sequences, SequencesExt

CONSTANTS PageSize,       \* deliveries listed at once (100 in the code)
          Save, Exec,     \* whether --saveDir and --exec are given
          TypeOf,         \* delivery |-> its event type
          MaxDeliveries,  \* bound: deliveries of the hook
          MaxTime         \* bound: seconds

ASSUME PollerAssumption ==
  /\ PageSize \in Nat \ {0}
  /\ Save \in BOOLEAN /\ Exec \in BOOLEAN
  /\ MaxDeliveries \in Nat
  /\ MaxTime \in Nat
  /\ DOMAIN TypeOf = 1..MaxDeliveries

VARIABLES
  now,      \* GitHub's clock
  at,       \* delivery |-> its DeliveredAt
  since,    \* sinceTime: what was delivered earlier is old
  began,    \* the first sinceTime (history)
  rpc,      \* where replayHooks is
  batch,    \* deliveries, as chooseDeliveries returns them
  pos,      \* the one in hand
  gets,     \* GETs made of it
  delivery, \* the last GET of it returned a delivery (nil otherwise)
  posts     \* the deliveries posted to the target so far, in order (history)

vars == <<now, at, since, began, rpc, batch, pos, gets, delivery, posts, fileVars>>
githubVars == <<now, at>>

Gets == 3   \* for range []int{1, 2, 3}

Working == rpc \in {"get", "post", "save", "exec"}
Stopped == rpc \in {"failed", "panicked"}

TypeOK ==
  /\ now \in 0..MaxTime
  /\ at \in Seq(0..MaxTime) /\ Len(at) <= MaxDeliveries
  /\ since \in 0..MaxTime + 1 /\ began \in 0..MaxTime + 1
  /\ rpc \in {"list", "get", "post", "save", "exec", "sleep", "failed", "panicked"}
  /\ batch \in Seq(DOMAIN at)
  /\ Working => pos \in DOMAIN batch
  /\ gets \in 0..Gets
  /\ delivery \in BOOLEAN
  /\ posts \in Seq(DOMAIN at)
  /\ saved \subseteq DOMAIN at
  /\ \A n \in DOMAIN payloads : payloads[n] \in [of : DOMAIN at, whole : BOOLEAN]
  /\ \A n \in DOMAIN scripts :
       scripts[n] \in [of : DOMAIN at, whole : BOOLEAN, runs : BOOLEAN]

\* sinceTime is --time-since, or the present without it; the present is never a whole
\* second, so what is delivered in the second of the start is old.
Init ==
  /\ now \in 0..MaxTime
  /\ \E n \in 0..MaxDeliveries :
       /\ at \in [1..n -> 0..now]
       /\ \A d \in 1..n - 1 : at[d] <= at[d + 1]
  /\ since \in 0..now + 1
  /\ began = since
  /\ rpc = "list"
  /\ batch = <<>>
  /\ pos = 1
  /\ gets = 0
  /\ delivery = FALSE
  /\ posts = <<>>
  /\ FilesInit

-----------------------------------------------------------------------------
(* GitHub                                                                  *)

Tick ==
  /\ now < MaxTime
  /\ now' = now + 1
  /\ UNCHANGED <<at, since, began, rpc, batch, pos, gets, delivery, posts, fileVars>>

Deliver ==
  /\ Len(at) < MaxDeliveries
  /\ at' = Append(at, now)
  /\ UNCHANGED <<now, since, began, rpc, batch, pos, gets, delivery, posts, fileVars>>

\* The page: newest first.
Listed ==
  LET n == Len(at) IN [i \in 1..(IF n < PageSize THEN n ELSE PageSize) |-> n + 1 - i]

-----------------------------------------------------------------------------
(* replayHooks                                                             *)

\* Fault: a delivery of the very second of sinceTime is old.
ChooseLater(dlvs) ==
  LET Old(i) == at[dlvs[i]] <= since
      k == CHOOSE k \in 0..Len(dlvs) :
             /\ \A i \in 1..k : ~Old(i)
             /\ k = Len(dlvs) \/ Old(k + 1)
  IN  Reverse(SubSeq(dlvs, 1, k))

\* chooseDeliveries: up to the first old one, and then turned round.
ChooseDeliveries(dlvs) ==
  LET Old(i) == at[dlvs[i]] < since
      k == CHOOSE k \in 0..Len(dlvs) :
             /\ \A i \in 1..k : ~Old(i)
             /\ k = Len(dlvs) \/ Old(k + 1)
  IN  Reverse(SubSeq(dlvs, 1, k))

ListHookDeliveries ==
  /\ rpc = "list"
  /\ batch' = ChooseDeliveries(Listed)
  /\ rpc' = IF batch' = <<>> THEN "sleep" ELSE "get"
  /\ pos' = 1
  /\ gets' = 0
  /\ delivery' = FALSE
  /\ UNCHANGED <<githubVars, since, began, posts, fileVars>>

\* An error of the list ends the command.
ListFails ==
  /\ rpc = "list"
  /\ rpc' = "failed"
  /\ UNCHANGED <<githubVars, since, began, batch, pos, gets, delivery, posts, fileVars>>

\* All three GETs are made, whatever they return, and the last one decides: a 404 is
\* waited out and leaves a nil delivery, which the code behind the loop dereferences.
GetHookDelivery ==
  /\ rpc = "get"
  /\ gets' = gets + 1
  /\ delivery' \in BOOLEAN
  /\ rpc' = IF gets' < Gets THEN "get" ELSE IF delivery' THEN "post" ELSE "panicked"
  /\ UNCHANGED <<githubVars, since, began, batch, pos, posts, fileVars>>

\* Any other error status ends the command; without an answer there is no response
\* whose status could be looked at.
GetFails ==
  /\ rpc = "get"
  /\ rpc' \in {"failed", "panicked"}
  /\ UNCHANGED <<githubVars, since, began, batch, pos, gets, delivery, posts, fileVars>>

\* Fault: the next poll starts at the second of the last delivery.
NextFromSameSecond ==
  IF pos < Len(batch)
  THEN /\ rpc' = "get" /\ pos' = pos + 1 /\ gets' = 0 /\ delivery' = FALSE
       /\ UNCHANGED since
  ELSE /\ since' = at[batch[Len(batch)]]
       /\ rpc' = "sleep"
       /\ UNCHANGED <<pos, gets, delivery>>

\* Fault: one too many.
NextPastTheEnd ==
  IF pos <= Len(batch)
  THEN /\ rpc' = "get" /\ pos' = pos + 1 /\ gets' = 0 /\ delivery' = FALSE
       /\ UNCHANGED since
  ELSE /\ since' = at[batch[Len(batch)]] + 1
       /\ rpc' = "sleep"
       /\ UNCHANGED <<pos, gets, delivery>>

\* On to the next of the batch, or to the next poll, which begins one second after the
\* last delivery of the batch.
NextDelivery ==
  IF pos < Len(batch)
  THEN /\ rpc' = "get" /\ pos' = pos + 1 /\ gets' = 0 /\ delivery' = FALSE
       /\ UNCHANGED since
  ELSE /\ since' = at[batch[Len(batch)]] + 1
       /\ rpc' = "sleep"
       /\ UNCHANGED <<pos, gets, delivery>>

FileOf(d) == FileName(TypeOf[d], at[d])

\* The stages after the POST, in order.
GoTo(stage) == rpc' = stage /\ UNCHANGED <<since, pos, gets, delivery>>
AfterSave == IF Exec THEN GoTo("exec") ELSE NextDelivery
AfterPost == IF Save THEN GoTo("save") ELSE AfterSave

\* replayData.  An answer of any status will do; a request that fails is logged and
\* the delivery is left behind, not saved and not tried again.
ReplayData ==
  /\ rpc = "post"
  /\ posts' = Append(posts, batch[pos])
  /\ AfterPost \/ NextDelivery
  /\ UNCHANGED <<githubVars, began, batch, fileVars>>

\* A save that fails is logged, and the delivery is left behind.
SaveData ==
  /\ rpc = "save"
  /\ \E step \in 0..5 :
       /\ SaveUpTo(step, FileOf(batch[pos]), batch[pos])
       /\ IF step = 5 THEN AfterSave ELSE NextDelivery
  /\ UNCHANGED <<githubVars, began, batch, posts>>

RunExecCommand ==
  /\ rpc = "exec"
  /\ NextDelivery
  /\ UNCHANGED <<githubVars, began, batch, posts, fileVars>>

\* Fault: the loop goes round only as long as there is something to replay.
WakeUpWhenBusy ==
  /\ rpc = "sleep"
  /\ batch # <<>>
  /\ rpc' = "list"
  /\ UNCHANGED <<githubVars, since, began, batch, pos, gets, delivery, posts, fileVars>>

\* Five seconds later.
WakeUp ==
  /\ rpc = "sleep"
  /\ rpc' = "list"
  /\ UNCHANGED <<githubVars, since, began, batch, pos, gets, delivery, posts, fileVars>>

Answered == ListHookDeliveries \/ ListFails \/ GetHookDelivery \/ GetFails \/ RunExecCommand

Own == ReplayData \/ SaveData \/ WakeUp

Next == Tick \/ Deliver \/ Answered \/ Own

(* The target has a deadline and the disk and the sleep come back by       *)
(* themselves; the requests to GitHub and the command have no deadline.    *)
Spec == Init /\ [][Next]_vars /\ WF_vars(Own)

-----------------------------------------------------------------------------
(* Properties                                                              *)

Tried(d) == \E i \in DOMAIN posts : posts[i] = d
InHand(d) == Working /\ \E i \in pos..Len(batch) : batch[i] = d

\* The target gets deliveries in the order GitHub made them, and none twice, over all
\* polls.
OldestFirstOnce == \A i, j \in DOMAIN posts : i < j => posts[i] < posts[j]

\* What will not be chosen any more although it was asked for.
PassedOver ==
  {d \in DOMAIN at : began <= at[d] /\ at[d] < since /\ ~Tried(d) /\ ~InHand(d)}

\* A delivery is passed over for two reasons only: another one of the same second ended
\* an earlier batch, or a full page of newer ones had pushed it off the list.
PassedOverOnlyNearby ==
  \A d \in PassedOver :
    \/ \E e \in DOMAIN at : Tried(e) /\ e < d /\ at[e] = at[d]
    \/ Len(at) - d >= PageSize

\* GitHub answers every request, and the command returns.
Responsive == WF_vars(Answered)

\* It will be on a list yet, unless it is pushed off the page.
Awaited(d) == d \in DOMAIN at /\ at[d] >= since

\* Then nothing that is still to be chosen waits for ever, unless the command ends.
NewOnesAreTried ==
  Responsive =>
    \A d \in 1..MaxDeliveries :
      Awaited(d) ~> Tried(d) \/ ~Awaited(d) \/ Stopped

\* What was saved can be replayed from its script, unless a later delivery of the same
\* type and the same minute was tried, whose files have the same names.
LostOnlyToNamesake ==
  \A d \in saved :
    \/ Replayable(FileOf(d), d)
    \/ \E e \in DOMAIN at : /\ Tried(e) /\ e > d
                           /\ TypeOf[e] = TypeOf[d]
                           /\ at[e] \div Minute = at[d] \div Minute

\* "Replay all events received since a specific time", as long as they fit on a page.
ReplaysAllSince == Len(at) <= PageSize => PassedOver = {}
=============================================================================
