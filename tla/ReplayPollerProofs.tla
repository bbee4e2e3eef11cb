-------------------------- MODULE ReplayPollerProofs --------------------------
(***************************************************************************)
(* What `gosmee replay` guarantees for any number of deliveries, any page  *)
(* and any seconds, whatever GitHub, the target, the disk and the command  *)
(* answer: deliveries are posted in order and once, are passed over for    *)
(* two reasons only, and saved files are lost to a namesake only.          *)
(***************************************************************************)
EXTENDS ReplayPoller, SequenceTheorems, WellFoundedInduction, TLAPS

-----------------------------------------------------------------------------
(* The inductive invariant                                                 *)

\* GitHub's deliveries are in the order of their seconds, none of which is to come.
Clock ==
  /\ \A d, e \in DOMAIN at : d <= e => at[d] <= at[e]
  /\ \A d \in DOMAIN at : at[d] <= now

\* sinceTime is where it began, or one second after a delivery that was tried.
Since ==
  /\ began <= since /\ since <= now + 1
  /\ since = began \/ \E e \in DOMAIN at : Tried(e) /\ at[e] = since - 1

\* The batch is a part of the hook's deliveries without a hole, none of them is old, and
\* what comes before it is old or had been pushed off the page.
Batch ==
  Working =>
    /\ \A i \in DOMAIN batch : batch[i] = batch[1] + (i - 1) /\ since <= at[batch[i]]
    /\ \A d \in DOMAIN at : d < batch[1] => at[d] < since \/ Len(at) - d >= PageSize

\* Fewer than all GETs were made while there is one to make.
Tries == rpc = "get" => gets < Gets

\* What was tried is old for the next poll, and within a batch it is what comes before
\* the delivery in hand, and that one itself once it was posted.
Posted ==
  /\ rpc \in {"list", "sleep"} => \A i \in DOMAIN posts : at[posts[i]] < since
  /\ Working =>
       /\ \A i \in DOMAIN posts :
            posts[i] < batch[pos] \/ (rpc \in {"save", "exec"} /\ posts[i] = batch[pos])
       /\ \A i \in 1..pos : i < pos \/ rpc \in {"save", "exec"} => Tried(batch[i])

\* What was saved was tried, and is never saved again.
Saved ==
  /\ \A d \in saved : Tried(d)
  /\ rpc = "save" => batch[pos] \notin saved

PollerInv ==
  /\ TypeOK
  /\ Clock
  /\ Since
  /\ Batch
  /\ Tries
  /\ Posted
  /\ Saved
  /\ OldestFirstOnce
  /\ PassedOverOnlyNearby
  /\ LostOnlyToNamesake

-----------------------------------------------------------------------------
(* Lemmas on lists and numbers                                             *)

\* Every set of numbers that is not empty has a least one.
LEMMA LeastElement ==
  ASSUME NEW T, T \subseteq Nat, T # {}
  PROVE  \E m \in T : \A n \in T : m <= n
<1> DEFINE R == OpToRel(<, Nat)
<1>1. \E m \in T : \A n \in T : <<n, m>> \notin R
  <2>1. IsWellFoundedOn(R, Nat) BY NatLessThanWellFounded
  <2> HIDE DEF R
  <2> QED BY <2>1, WFMin
<1>2. ASSUME NEW m \in Nat, NEW n \in Nat, <<n, m>> \notin R PROVE m <= n
  BY <1>2 DEF OpToRel
<1> HIDE DEF R
<1> QED BY <1>1, <1>2

\* What is in order from each to the next is in order.
LEMMA SortedByNeighbours ==
  ASSUME NEW n \in Nat, NEW f \in [1..n -> Nat],
         \A d \in 1..n - 1 : f[d] <= f[d + 1]
  PROVE  \A d, e \in 1..n : d <= e => f[d] <= f[e]
<1> SUFFICES ASSUME NEW d \in 1..n, NEW x \in 1..n, d <= x, ~(f[d] <= f[x]) PROVE FALSE
  OBVIOUS
<1> DEFINE T == {e \in d..n : ~(f[d] <= f[e])}
<1>1. T \subseteq Nat /\ x \in T
  OBVIOUS
<1>2. PICK e \in T : \A m \in T : e <= m
  <2> HIDE DEF T
  <2> QED BY <1>1, LeastElement
<1>3. e - 1 \in d..n - 1 /\ (e - 1) + 1 = e
  OBVIOUS
<1>4. e - 1 \notin T
  BY <1>2, <1>3
<1>5. f[d] <= f[e - 1] /\ f[e - 1] <= f[e]
  BY <1>3, <1>4
<1>6. f[d] \in Nat /\ f[e - 1] \in Nat /\ f[e] \in Nat
  BY <1>3
<1> QED BY <1>5, <1>6

\* What is left out below a sorted list's last k: as many as a page are above it, or the
\* first one left out is too small, and all that are below.
LEMMA LeftOut ==
  ASSUME NEW n \in Nat, NEW f \in [1..n -> Nat], NEW k \in 0..n, NEW p \in Nat, NEW s \in Nat,
         \A d, e \in 1..n : d <= e => f[d] <= f[e],
         k = n \/ k = p \/ f[n - k] < s,
         NEW d \in 1..n, d < n - k + 1
  PROVE  f[d] < s \/ n - d >= p
<1>1. n - k \in 1..n /\ d <= n - k OBVIOUS
<1>2. f[d] \in Nat /\ f[n - k] \in Nat /\ f[d] <= f[n - k] BY <1>1
<1>3. CASE k = p BY <1>3
<1>4. CASE f[n - k] < s BY <1>2, <1>4
<1> QED BY <1>1, <1>3, <1>4

\* A number of p in a row is one of them.
LEMMA Offset ==
  ASSUME NEW d \in Nat, NEW b \in Nat, NEW p \in Nat, b <= d, d <= b + (p - 1)
  PROVE  \E i \in 1..p : d = b + (i - 1)
<1>1. (d - b) + 1 \in 1..p /\ d = b + (((d - b) + 1) - 1)
  OBVIOUS
<1> QED BY <1>1

\* The deliveries are numbered.
LEMMA Numbered ==
  ASSUME TypeOK
  PROVE  /\ Len(at) \in Nat /\ DOMAIN at = 1..Len(at)
         /\ \A d \in DOMAIN at : at[d] \in Nat
         /\ now \in Nat /\ since \in Nat /\ began \in Nat /\ PageSize \in Nat \ {0}
         /\ Len(batch) \in Nat /\ DOMAIN batch = 1..Len(batch)
         /\ \A i \in DOMAIN batch : batch[i] \in DOMAIN at
         /\ Len(posts) \in Nat /\ DOMAIN posts = 1..Len(posts)
         /\ \A i \in DOMAIN posts : posts[i] \in DOMAIN at
  BY PollerAssumption, LenProperties, ElementOfSeq DEF TypeOK

\* The delivery in hand is the last of those of the batch that were begun.
LEMMA HandTyped ==
  ASSUME TypeOK, Working
  PROVE  pos \in 1..Len(batch) /\ pos \in 1..pos /\ batch[pos] \in DOMAIN at
<1>1. pos \in 1..Len(batch)
  BY Numbered DEF TypeOK
<1> QED BY <1>1, Numbered

\* What chooseDeliveries makes of the page: the newest deliveries, oldest first, back to
\* the end of the page or to the first old one.
LEMMA Chosen ==
  ASSUME TypeOK
  PROVE  \E k \in 0..Len(at) :
           /\ ChooseDeliveries(Listed) \in Seq(DOMAIN at)
           /\ DOMAIN ChooseDeliveries(Listed) = 1..k
           /\ \A i \in 1..k :
                /\ ChooseDeliveries(Listed)[i] = Len(at) - k + i
                /\ since <= at[Len(at) - k + i]
           /\ k = Len(at) \/ k = PageSize \/ at[Len(at) - k] < since
<1> DEFINE n == Len(at)
           p == IF n < PageSize THEN n ELSE PageSize
           Old(i) == at[Listed[i]] < since
           Cut(k) == /\ \A i \in 1..k : ~Old(i)
                     /\ k = p \/ Old(k + 1)
           c == CHOOSE k \in 0..p : Cut(k)
           T == {i \in 1..p : Old(i)}
<1>0. /\ n \in Nat /\ p \in 0..n /\ DOMAIN at = 1..n /\ since \in Nat
      /\ \A d \in 1..n : at[d] \in Nat
  BY Numbered
<1>1. /\ Listed \in Seq(DOMAIN at) /\ Len(Listed) = p
      /\ \A i \in 1..p : Listed[i] = n + 1 - i
  <2>1. Listed = [i \in 1..p |-> n + 1 - i]
    BY DEF Listed
  <2>2. \A i \in 1..p : n + 1 - i \in DOMAIN at
    BY <1>0
  <2>3. Listed \in [1..p -> DOMAIN at] /\ \A i \in 1..p : Listed[i] = n + 1 - i
    BY <2>1, <2>2
  <2>4. p \in Nat BY <1>0
  <2> HIDE DEF p
  <2>5. Listed \in Seq(DOMAIN at) BY <2>3, <2>4, SeqDef
  <2>6. Len(Listed) = p BY <2>3, <2>4, <2>5, LenProperties
  <2> QED BY <2>3, <2>5, <2>6
<1>2. \E k \in 0..p : Cut(k)
  <2>1. CASE T = {}
    <3>1. Cut(p) BY <2>1, <1>0
    <3>2. p \in 0..p BY <1>0
    <3> HIDE DEF Cut, p
    <3> QED BY <3>1, <3>2
  <2>2. CASE T # {}
    <3>1. T \subseteq Nat BY <1>0
    <3>2. PICK m \in T : \A i \in T : m <= i
      <4> HIDE DEF T
      <4> QED BY <2>2, <3>1, LeastElement
    <3>3. m \in 1..p /\ Old(m) /\ (m - 1) + 1 = m /\ m - 1 \in 0..p
      BY <1>0
    <3>4. \A i \in 1..m - 1 : ~Old(i)
      BY <3>2, <3>3, <1>0
    <3>5. Cut(m - 1)
      BY <3>3, <3>4
    <3> HIDE DEF Cut
    <3> QED BY <3>3, <3>5
  <2> QED BY <2>1, <2>2
<1>3. c \in 0..p /\ Cut(c)
  <2> HIDE DEF Cut
  <2> QED BY <1>2
<1>4. ChooseDeliveries(Listed) = Reverse(SubSeq(Listed, 1, c))
  BY <1>1 DEF ChooseDeliveries
<1> HIDE DEF c, p
<1>5. /\ Len(SubSeq(Listed, 1, c)) = c
      /\ \A i \in 1..c : SubSeq(Listed, 1, c)[i] = Listed[i]
  <2>1. \A i \in 1..c : Listed[i] \in DOMAIN at
    BY <1>0, <1>1, <1>3
  <2>2. /\ Len(SubSeq(Listed, 1, c)) = IF 1 <= c THEN c - 1 + 1 ELSE 0
        /\ \A i \in 1..c - 1 + 1 : SubSeq(Listed, 1, c)[i] = Listed[1 + i - 1]
    BY <1>0, <1>3, <2>1, SubSeqProperties
  <2> QED BY <1>0, <1>3, <2>2
<1>6. ChooseDeliveries(Listed) = [i \in 1..c |-> SubSeq(Listed, 1, c)[(c - i) + 1]]
  BY <1>4, <1>5 DEF Reverse
<1>7. ASSUME NEW i \in 1..c
      PROVE  /\ ChooseDeliveries(Listed)[i] = n - c + i
             /\ n - c + i \in DOMAIN at
             /\ since <= at[n - c + i]
  <2>1. (c - i) + 1 \in 1..c /\ (c - i) + 1 \in 1..p /\ n + 1 - ((c - i) + 1) = n - c + i
    BY <1>0, <1>3
  <2>2. Listed[(c - i) + 1] = n - c + i
    BY <1>1, <2>1
  <2>3. ~Old((c - i) + 1)
    BY <1>3, <2>1
  <2>4. n - c + i \in 1..n
    BY <1>0, <1>3
  <2>5. at[n - c + i] \in Nat
    BY <2>4, <1>0
  <2>6. ChooseDeliveries(Listed)[i] = n - c + i
    BY <1>5, <1>6, <2>1, <2>2
  <2>7. since <= at[n - c + i]
    BY <1>0, <2>2, <2>3, <2>5
  <2> QED BY <1>0, <2>4, <2>6, <2>7
<1>8. ChooseDeliveries(Listed) \in Seq(DOMAIN at) /\ DOMAIN ChooseDeliveries(Listed) = 1..c
  <2>1. DOMAIN ChooseDeliveries(Listed) = 1..c
    BY <1>6
  <2>2. ChooseDeliveries(Listed) \in [1..c -> DOMAIN at]
    BY <1>6, <1>7
  <2>3. c \in Nat BY <1>0, <1>3
  <2> QED BY <2>1, <2>2, <2>3, SeqDef
<1>9. c = n \/ c = PageSize \/ at[n - c] < since
  <2>1. CASE c = p BY <2>1 DEF p
  <2>2. CASE Old(c + 1) /\ c # p
    <3>1. c + 1 \in 1..p /\ n + 1 - (c + 1) = n - c
      <4>1. c \in 0..p /\ c # p BY <1>3, <2>2
      <4> HIDE DEF n, Old
      <4> QED BY <4>1, <1>0
    <3> QED BY <1>1, <2>2, <3>1
  <2> QED BY <1>3, <2>1, <2>2
<1>10. c \in 0..n BY <1>0, <1>3
<1> QED BY <1>7, <1>8, <1>9, <1>10

-----------------------------------------------------------------------------
(* The steps                                                               *)

\* Where the loop goes after each stage: to a later one, or to the next delivery.
LEMMA ReplayDataCases == ReplayData => GoTo("save") \/ GoTo("exec") \/ NextDelivery
  BY DEF ReplayData, AfterPost, AfterSave

LEMMA SaveDataCases ==
  SaveData => \E step \in 0..5 : /\ SaveUpTo(step, FileOf(batch[pos]), batch[pos])
                                 /\ GoTo("exec") \/ NextDelivery
  BY DEF SaveData, AfterSave

\* What a delivery that is worked on leads to: its next stage, the next delivery of the
\* batch, or the next poll.
LEMMA WorkCases ==
  ASSUME ReplayData \/ SaveData \/ RunExecCommand
  PROVE  /\ UNCHANGED <<now, at, began, batch>>
         /\ \/ /\ rpc' \in {"save", "exec"} /\ UNCHANGED <<since, pos, gets, delivery>>
               /\ rpc' = "save" => rpc = "post"
            \/ /\ pos < Len(batch) /\ UNCHANGED since
               /\ rpc' = "get" /\ pos' = pos + 1 /\ gets' = 0 /\ delivery' = FALSE
            \/ /\ ~(pos < Len(batch)) /\ since' = at[batch[Len(batch)]] + 1
               /\ rpc' = "sleep" /\ UNCHANGED <<pos, gets, delivery>>
<1>1. GoTo("save") \/ GoTo("exec") \/ NextDelivery
  BY ReplayDataCases, SaveDataCases DEF RunExecCommand
<1>2. GoTo("save") => ReplayData
  BY SaveDataCases DEF GoTo, SaveData, AfterSave, NextDelivery, RunExecCommand
<1> QED BY <1>1, <1>2 DEF GoTo, NextDelivery, ReplayData, SaveData, RunExecCommand, githubVars

\* All other steps of replayHooks that leave the batch and the history alone.
LEMMA WaitCases ==
  ASSUME ListFails \/ GetHookDelivery \/ GetFails \/ WakeUp
  PROVE  /\ UNCHANGED <<now, at, since, began, batch, pos, posts, fileVars>>
         /\ \/ rpc = "list" /\ rpc' = "failed"
            \/ rpc = "get" /\ rpc' \in {"get", "post", "failed", "panicked"}
            \/ rpc = "sleep" /\ rpc' = "list"
  BY DEF ListFails, GetHookDelivery, GetFails, WakeUp, githubVars

-----------------------------------------------------------------------------
(* Type correctness                                                        *)

LEMMA PollerTypeInit == Init => TypeOK
<1> SUFFICES ASSUME Init PROVE TypeOK OBVIOUS
<1>0. MaxTime \in Nat /\ MaxDeliveries \in Nat /\ now \in 0..MaxTime
  BY PollerAssumption DEF Init
<1>1. PICK n \in 0..MaxDeliveries : at \in [1..n -> 0..now]
  BY DEF Init
<1>2. at \in [1..n -> 0..MaxTime]
  BY <1>0, <1>1
<1>3. n \in Nat
  BY <1>0
<1>4. at \in Seq(0..MaxTime)
  BY <1>2, <1>3, SeqDef
<1>5. Len(at) = n
  BY <1>2, <1>3, <1>4, LenProperties
<1>6. batch \in Seq(DOMAIN at) /\ posts \in Seq(DOMAIN at)
  BY EmptySeq DEF Init
<1>7. since \in 0..MaxTime + 1 /\ began \in 0..MaxTime + 1
  BY <1>0 DEF Init
<1>8. DOMAIN payloads = {} /\ DOMAIN scripts = {} /\ saved = {}
  BY DEF Init, FilesInit
<1>9. ~Working /\ rpc \in {"list", "sleep"} /\ gets \in 0..Gets /\ delivery \in BOOLEAN
  <2>1. delivery \in BOOLEAN BY Zenon DEF Init
  <2> QED BY <2>1 DEF Init, Working, Gets
<1>10. now \in 0..MaxTime /\ Len(at) <= MaxDeliveries
  BY <1>0, <1>5
<1> QED BY <1>4, <1>6, <1>7, <1>8, <1>9, <1>10 DEF TypeOK

\* What the files hold, as TypeOK has it.
FilesOK ==
  /\ saved \subseteq DOMAIN at
  /\ \A n \in DOMAIN payloads : payloads[n] \in [of : DOMAIN at, whole : BOOLEAN]
  /\ \A n \in DOMAIN scripts :
       scripts[n] \in [of : DOMAIN at, whole : BOOLEAN, runs : BOOLEAN]

\* A save, complete or not, writes a payload and a script of the event it is for.
LEMMA SaveUpToType ==
  ASSUME FilesOK, UNCHANGED at, NEW step \in 0..5, NEW name, NEW d \in DOMAIN at,
         SaveUpTo(step, name, d)
  PROVE  FilesOK'
<1>1. ASSUME NEW n \in DOMAIN payloads'
      PROVE  payloads'[n] \in [of : DOMAIN at, whole : BOOLEAN]
  <2>1. CASE n \in DOMAIN payloads /\ payloads'[n] = payloads[n]
    BY <2>1 DEF FilesOK
  <2>2. CASE payloads'[n] = [of |-> d, whole |-> step > 1]
    BY <2>2
  <2> QED BY <1>1, <2>1, <2>2 DEF SaveUpTo, Put
<1>2. ASSUME NEW n \in DOMAIN scripts'
      PROVE  scripts'[n] \in [of : DOMAIN at, whole : BOOLEAN, runs : BOOLEAN]
  <2> DEFINE runs == step = 5 \/ (name \in DOMAIN scripts /\ scripts[name].runs)
  <2>1. CASE n \in DOMAIN scripts /\ scripts'[n] = scripts[n]
    BY <2>1 DEF FilesOK
  <2>2. CASE scripts'[n] = [of |-> d, whole |-> step > 3, runs |-> runs]
    <3>1. runs \in BOOLEAN OBVIOUS
    <3>2. (step > 3) \in BOOLEAN OBVIOUS
    <3> HIDE DEF runs
    <3> QED BY <2>2, <3>1, <3>2
  <2> QED BY <1>2, <2>1, <2>2 DEF SaveUpTo, Put
<1>3. saved' \subseteq DOMAIN at
  BY DEF SaveUpTo, FilesOK
<1> QED BY <1>1, <1>2, <1>3 DEF FilesOK

\* No step leaves the types: a batch is a list of deliveries, and pos a place in it.
LEMMA PollerTypeStep == TypeOK /\ Tries /\ [Next]_vars => TypeOK'
<1> SUFFICES ASSUME TypeOK, Tries, [Next]_vars PROVE TypeOK' OBVIOUS
<1>0. MaxTime \in Nat /\ MaxDeliveries \in Nat
  BY PollerAssumption
<1>1. CASE Tick
  BY <1>0, <1>1 DEF Tick, TypeOK, fileVars, Working
<1>2. CASE Deliver
  <2>1. now \in 0..MaxTime /\ at \in Seq(0..MaxTime) /\ at' = Append(at, now)
    BY <1>2 DEF Deliver, TypeOK
  <2>2. /\ at' \in Seq(0..MaxTime) /\ Len(at') = Len(at) + 1
        /\ DOMAIN at = 1..Len(at) /\ DOMAIN at' = 1..Len(at') /\ Len(at) \in Nat
    BY <2>1, AppendProperties, LenProperties
  <2>3. Len(at') <= MaxDeliveries
    BY <1>0, <1>2, <2>2 DEF Deliver
  <2>4. DOMAIN at \subseteq DOMAIN at'
    BY <2>2
  <2>5. batch' \in Seq(DOMAIN at') /\ posts' \in Seq(DOMAIN at')
    BY <1>2, <2>4, SeqMonotonic DEF Deliver, TypeOK
  <2>6. FilesOK'
    <3>1. UNCHANGED <<payloads, scripts, saved>>
      BY <1>2 DEF Deliver, fileVars
    <3>2. FilesOK BY DEF TypeOK, FilesOK
    <3>3. saved' \subseteq DOMAIN at' BY <2>4, <3>1, <3>2 DEF FilesOK
    <3>4. \A n \in DOMAIN payloads : payloads[n] \in [of : DOMAIN at', whole : BOOLEAN]
      BY <2>4, <3>2 DEF FilesOK
    <3>5. \A n \in DOMAIN scripts :
            scripts[n] \in [of : DOMAIN at', whole : BOOLEAN, runs : BOOLEAN]
      BY <2>4, <3>2 DEF FilesOK
    <3> QED BY <3>1, <3>3, <3>4, <3>5 DEF FilesOK
  <2> QED BY <1>2, <2>2, <2>3, <2>5, <2>6 DEF Deliver, TypeOK, Working, FilesOK
<1>3. CASE ListHookDeliveries
  <2>1. PICK k \in 0..Len(at) : /\ batch' \in Seq(DOMAIN at)
                                /\ DOMAIN batch' = 1..k
    BY <1>3, Chosen DEF ListHookDeliveries
  <2>2. batch' # <<>> => 1 \in DOMAIN batch'
    BY <2>1, EmptySeq, LenProperties
  <2>3. /\ batch' \in Seq(DOMAIN at) /\ gets' \in 0..Gets /\ delivery' \in BOOLEAN
        /\ rpc' \in {"get", "sleep"}
        /\ rpc' = "get" => pos' \in DOMAIN batch'
    <3>1. delivery' \in BOOLEAN BY <1>3, Zenon DEF ListHookDeliveries
    <3>2. gets' \in 0..Gets BY <1>3 DEF ListHookDeliveries, Gets
    <3> QED BY <1>3, <2>1, <2>2, <3>1, <3>2 DEF ListHookDeliveries
  <2>4. UNCHANGED <<now, at, since, began, posts, payloads, scripts, saved>>
    BY <1>3 DEF ListHookDeliveries, githubVars, fileVars
  <2> QED BY <2>3, <2>4 DEF TypeOK, Working
<1>4. CASE ListFails \/ GetFails \/ WakeUp
  BY <1>4 DEF ListFails, GetFails, WakeUp, githubVars, fileVars, TypeOK, Working
<1>5. CASE GetHookDelivery
  <2>1. gets' \in 0..Gets
    BY <1>5 DEF GetHookDelivery, TypeOK, Tries, Gets
  <2> QED BY <1>5, <2>1 DEF GetHookDelivery, githubVars, fileVars, TypeOK, Working
<1>6. CASE ReplayData \/ SaveData \/ RunExecCommand
  <2>0. rpc \in {"post", "save", "exec"} /\ pos \in DOMAIN batch /\ batch[pos] \in DOMAIN at
    BY <1>6, Numbered DEF ReplayData, SaveData, RunExecCommand, TypeOK, Working
  <2>1. posts' \in Seq(DOMAIN at)
    <3>1. posts' = posts \/ posts' = Append(posts, batch[pos])
      BY <1>6 DEF ReplayData, SaveData, RunExecCommand
    <3>2. posts \in Seq(DOMAIN at) BY DEF TypeOK
    <3> QED BY <2>0, <3>1, <3>2, AppendProperties
  <2>2. UNCHANGED <<now, at, began, batch>>
    BY <1>6, WorkCases
  <2>3. FilesOK'
    <3>1. FilesOK BY DEF TypeOK, FilesOK
    <3>2. CASE SaveData
      BY <2>0, <2>2, <3>1, <3>2, SaveUpToType DEF SaveData
    <3>3. CASE ~SaveData
      BY <1>6, <2>2, <3>1, <3>3 DEF ReplayData, RunExecCommand, fileVars, FilesOK
    <3> QED BY <3>2, <3>3
  <2>4. /\ since' \in 0..MaxTime + 1
        /\ rpc' \in {"get", "save", "exec", "sleep"}
        /\ rpc' # "sleep" => pos' \in DOMAIN batch
        /\ gets' \in 0..Gets /\ delivery' \in BOOLEAN
    <3>1. Len(batch) \in DOMAIN batch /\ batch[Len(batch)] \in DOMAIN at
      BY <2>0, Numbered
    <3>2. at[batch[Len(batch)]] \in 0..MaxTime
      <4>1. at \in Seq(0..MaxTime) BY DEF TypeOK
      <4> QED BY <3>1, <4>1, ElementOfSeq, Numbered
    <3>3. pos < Len(batch) => pos + 1 \in DOMAIN batch
      BY <2>0, Numbered
    <3>4. since \in 0..MaxTime + 1 /\ gets \in 0..Gets /\ delivery \in BOOLEAN
      BY DEF TypeOK
    <3>5. 0 \in 0..Gets /\ at[batch[Len(batch)]] + 1 \in 0..MaxTime + 1
      BY <1>0, <3>2 DEF Gets
    <3> QED BY <1>6, <2>0, <3>3, <3>4, <3>5, WorkCases
  <2> QED BY <2>1, <2>2, <2>3, <2>4 DEF TypeOK, FilesOK, Working
<1>7. CASE UNCHANGED vars
  BY <1>7 DEF vars, fileVars, TypeOK, Working
<1> QED BY <1>1, <1>2, <1>3, <1>4, <1>5, <1>6, <1>7 DEF Next, Answered, Own

-----------------------------------------------------------------------------
(* The inductive invariant                                                 *)

LEMMA PollerInit == Init => PollerInv
<1> SUFFICES ASSUME Init PROVE PollerInv OBVIOUS
<1>1. TypeOK
  BY PollerTypeInit
<1>2. Clock
  <2>1. PICK n \in 0..MaxDeliveries : /\ at \in [1..n -> 0..now]
                                      /\ \A d \in 1..n - 1 : at[d] <= at[d + 1]
    BY DEF Init
  <2>2. n \in Nat /\ now \in Nat /\ DOMAIN at = 1..n
    BY <1>1, <2>1, PollerAssumption, Numbered
  <2>3. \A d \in 1..n : at[d] \in 0..now
    BY <2>1
  <2>4. at \in [1..n -> Nat]
    BY <2>1, <2>2
  <2>5. \A d, e \in 1..n : d <= e => at[d] <= at[e]
    BY <2>1, <2>2, <2>4, SortedByNeighbours
  <2> QED BY <2>2, <2>3, <2>5 DEF Clock
<1>3. Since
  BY <1>1, Numbered DEF Init, Since
<1>4. Batch /\ Tries /\ Posted /\ Saved
  BY DEF Init, FilesInit, Batch, Tries, Posted, Saved, Working
<1>5. OldestFirstOnce
  BY DEF Init, OldestFirstOnce
<1>6. PassedOverOnlyNearby
  BY <1>1, Numbered DEF Init, PassedOverOnlyNearby, PassedOver
<1>7. LostOnlyToNamesake
  BY DEF Init, FilesInit, LostOnlyToNamesake
<1> QED BY <1>1, <1>2, <1>3, <1>4, <1>5, <1>6, <1>7 DEF PollerInv

\* What was tried stays tried, and only a POST adds to it.
LEMMA TriedGrows ==
  ASSUME TypeOK, [Next]_vars
  PROVE  /\ \A d : Tried(d) => Tried(d)'
         /\ ~ReplayData => posts' = posts
         /\ ReplayData => /\ posts \in Seq(DOMAIN at) /\ batch[pos] \in DOMAIN at
                          /\ posts' = Append(posts, batch[pos])
                          /\ DOMAIN posts = 1..Len(posts) /\ Len(posts) \in Nat
                          /\ DOMAIN posts' = 1..Len(posts) + 1
                          /\ \A i \in DOMAIN posts : posts'[i] = posts[i]
                          /\ posts'[Len(posts) + 1] = batch[pos]
                          /\ \A d : d = batch[pos] => Tried(d)'
<1>1. ~ReplayData => posts' = posts
  BY DEF Next, Answered, Own, Tick, Deliver, ListHookDeliveries, ListFails, GetHookDelivery,
         GetFails, RunExecCommand, SaveData, WakeUp, vars
<1>2. CASE ReplayData
  <2>1. posts \in Seq(DOMAIN at) /\ batch[pos] \in DOMAIN at
    BY <1>2, Numbered DEF ReplayData, TypeOK, Working
  <2>2. posts' = Append(posts, batch[pos])
    BY <1>2 DEF ReplayData
  <2>3. /\ DOMAIN posts = 1..Len(posts) /\ Len(posts) \in Nat
        /\ DOMAIN posts' = 1..Len(posts) + 1
        /\ \A i \in DOMAIN posts : posts'[i] = posts[i]
        /\ posts'[Len(posts) + 1] = batch[pos]
    BY <2>1, <2>2, AppendProperties, LenProperties
  <2>4. \A d : Tried(d) => Tried(d)'
    BY <2>3 DEF Tried
  <2>5. \E i \in DOMAIN posts' : posts'[i] = batch[pos]
    BY <2>3
  <2>6. \A d : d = batch[pos] => Tried(d)'
    BY <2>5 DEF Tried
  <2> QED BY <1>2, <2>1, <2>2, <2>3, <2>4, <2>6
<1>3. CASE ~ReplayData
  BY <1>1, <1>3 DEF Tried
<1> QED BY <1>2, <1>3

\* A new delivery is not older than those that are there.
LEMMA ClockStep == TypeOK /\ Clock /\ [Next]_vars => Clock'
<1> SUFFICES ASSUME TypeOK, Clock, [Next]_vars PROVE Clock' OBVIOUS
<1>1. CASE Deliver
  <2>1. /\ at' = Append(at, now) /\ now' = now /\ now \in Nat /\ at \in Seq(Nat)
        /\ DOMAIN at = 1..Len(at) /\ Len(at) \in Nat
    <3>1. at \in Seq(0..MaxTime) /\ 0..MaxTime \subseteq Nat
      BY PollerAssumption DEF TypeOK
    <3>2. at \in Seq(Nat) BY <3>1, SeqMonotonic
    <3> QED BY <1>1, <3>2, Numbered DEF Deliver
  <2>2. /\ DOMAIN at' = 1..Len(at) + 1
        /\ \A d \in DOMAIN at : at'[d] = at[d]
        /\ at'[Len(at) + 1] = now
    BY <2>1, AppendProperties, LenProperties
  <2>3. \A d \in DOMAIN at' : at'[d] <= now'
    BY <2>1, <2>2 DEF Clock
  <2>4. ASSUME NEW d \in DOMAIN at', NEW e \in DOMAIN at', d <= e PROVE at'[d] <= at'[e]
    <3>1. CASE e \in DOMAIN at
      BY <2>1, <2>2, <2>4, <3>1 DEF Clock
    <3>2. CASE e = Len(at) + 1
      BY <2>1, <2>2, <2>3, <3>2
    <3> QED BY <2>2, <2>1, <3>1, <3>2
  <2> QED BY <2>3, <2>4 DEF Clock
<1>2. CASE Tick
  BY <1>2, Numbered DEF Tick, Clock
<1>3. CASE ~Deliver /\ ~Tick
  BY <1>3, WorkCases, WaitCases DEF Next, Answered, Own, ListHookDeliveries, githubVars, vars, Clock
<1> QED BY <1>1, <1>2, <1>3

\* Deliveries keep their numbers and their seconds.
LEMMA AtGrows ==
  ASSUME TypeOK, [Next]_vars
  PROVE  /\ DOMAIN at \subseteq DOMAIN at'
         /\ \A d \in DOMAIN at : at'[d] = at[d]
         /\ ~Deliver => at' = at
         /\ Len(at) \in Nat /\ Len(at') \in Nat /\ Len(at) <= Len(at')
<1>0. Len(at) \in Nat /\ DOMAIN at = 1..Len(at) BY Numbered
<1>1. CASE Deliver
  <2>1. at \in Seq(0..MaxTime) /\ now \in 0..MaxTime /\ at' = Append(at, now)
    BY <1>1 DEF Deliver, TypeOK
  <2>2. /\ Len(at') = Len(at) + 1 /\ at' \in Seq(0..MaxTime)
        /\ \A d \in 1..Len(at) : at'[d] = at[d]
    BY <2>1, AppendProperties
  <2>3. DOMAIN at' = 1..Len(at) + 1
    BY <2>2, LenProperties
  <2> QED BY <1>0, <1>1, <2>2, <2>3
<1>2. CASE ~Deliver
  <2>1. at' = at
    BY <1>2, WorkCases, WaitCases
    DEF Next, Answered, Own, Tick, ListHookDeliveries, githubVars, vars
  <2> QED BY <1>0, <1>2, <2>1
<1> QED BY <1>1, <1>2

\* Time goes on, and the first sinceTime is remembered.
LEMMA TimeGrows ==
  ASSUME TypeOK, [Next]_vars
  PROVE  now \in Nat /\ now' \in Nat /\ now <= now' /\ began' = began
<1>1. now \in Nat BY Numbered
<1>2. CASE Tick
  BY <1>1, <1>2 DEF Tick
<1>3. CASE ~Tick
  <2>1. now' = now /\ began' = began
    BY <1>3, WorkCases, WaitCases
    DEF Next, Answered, Own, Deliver, ListHookDeliveries, githubVars, vars
  <2> QED BY <1>1, <2>1
<1> QED BY <1>2, <1>3

\* The next poll begins where the last delivery of the batch was tried.
LEMMA BatchDone ==
  ASSUME TypeOK, Batch, Posted, [Next]_vars, since' # since
  PROVE  \E last \in DOMAIN at :
           /\ ReplayData \/ SaveData \/ RunExecCommand
           /\ UNCHANGED <<now, at, began, batch, pos>> /\ rpc' = "sleep"
           /\ Working /\ pos = Len(batch) /\ pos \in DOMAIN batch /\ last = batch[pos]
           /\ since' = at[last] + 1 /\ since <= at[last]
           /\ Tried(last)'
<1>1. ReplayData \/ SaveData \/ RunExecCommand
  BY WaitCases DEF Next, Answered, Own, Tick, Deliver, ListHookDeliveries, githubVars, vars
<1>2. /\ UNCHANGED <<now, at, began, batch, pos>> /\ rpc' = "sleep"
      /\ ~(pos < Len(batch)) /\ since' = at[batch[Len(batch)]] + 1
  BY <1>1, WorkCases
<1>3. Working /\ rpc \in {"post", "save", "exec"} /\ pos \in DOMAIN batch
  BY <1>1 DEF ReplayData, SaveData, RunExecCommand, TypeOK, Working
<1>4. pos = Len(batch) /\ pos \in 1..pos
  BY <1>2, <1>3, HandTyped, Numbered
<1>5. PICK last \in DOMAIN at : last = batch[pos]
  BY <1>3, HandTyped
<1>6. Tried(last)'
  <2>1. CASE ReplayData
    BY <2>1, <1>5, TriedGrows
  <2>2. CASE ~ReplayData
    <3>1. rpc \in {"save", "exec"}
      BY <1>1, <2>2 DEF SaveData, RunExecCommand
    <3>2. Tried(last)
      BY <1>3, <1>4, <1>5, <3>1 DEF Posted
    <3> QED BY <3>2, TriedGrows
  <2> QED BY <2>1, <2>2
<1>7. since <= at[last]
  BY <1>3, <1>5 DEF Batch
<1> QED BY <1>1, <1>2, <1>3, <1>4, <1>5, <1>6, <1>7

\* Only the end of a batch moves the next poll, to a second after a delivery that was tried.
LEMMA SinceStep == TypeOK /\ Clock /\ Since /\ Batch /\ Posted /\ [Next]_vars => Since'
<1> SUFFICES ASSUME TypeOK, Clock, Since, Batch, Posted, [Next]_vars PROVE Since' OBVIOUS
<1>0. now \in Nat /\ since \in Nat /\ began \in Nat
  BY Numbered
<1>1. now' \in Nat /\ now <= now' /\ began' = began
  BY TimeGrows
<1>2. CASE since' = since
  <2>1. ASSUME NEW e \in DOMAIN at, Tried(e), at[e] = since - 1
        PROVE  \E f \in DOMAIN at' : Tried(f)' /\ at'[f] = since' - 1
    BY <1>2, <2>1, TriedGrows, AtGrows
  <2>2. since' = began' \/ \E f \in DOMAIN at' : Tried(f)' /\ at'[f] = since' - 1
    BY <1>1, <1>2, <2>1 DEF Since
  <2>3. began' <= since' /\ since' <= now' + 1
    <3>1. began <= since /\ since <= now + 1 BY DEF Since
    <3>2. began' <= since' BY <1>1, <1>2, <3>1
    <3>3. \A b \in Nat : now <= b => since <= b + 1 BY <1>0, <3>1
    <3>4. since <= now' + 1 BY <1>1, <3>3, Zenon
    <3>5. since' <= now' + 1 BY <1>2, <3>4, Zenon
    <3> QED BY <3>2, <3>5
  <2> QED BY <2>2, <2>3 DEF Since
<1>3. CASE since' # since
  <2>1. PICK last \in DOMAIN at :
          /\ UNCHANGED <<now, at>> /\ since' = at[last] + 1 /\ since <= at[last]
          /\ Tried(last)'
    BY <1>3, BatchDone
  <2>2. at[last] \in Nat /\ at[last] <= now
    BY Numbered DEF Clock
  <2>3. began' <= since' /\ since' <= now' + 1
    <3>1. began <= since BY DEF Since
    <3> QED BY <1>0, <1>1, <2>1, <2>2, <3>1
  <2>4. last \in DOMAIN at' /\ at'[last] = since' - 1
    BY <2>1, <2>2
  <2> QED BY <2>1, <2>3, <2>4 DEF Since
<1> QED BY <1>2, <1>3

\* A list is one stretch of the deliveries, and stays so while new ones come.
LEMMA BatchStep == TypeOK /\ Clock /\ Batch /\ [Next]_vars => Batch'
<1> SUFFICES ASSUME TypeOK, Clock, Batch, [Next]_vars, Working' PROVE Batch' 
  BY DEF Batch
<1>0. /\ since \in Nat /\ Len(at) \in Nat /\ DOMAIN at = 1..Len(at) /\ PageSize \in Nat
      /\ \A d \in DOMAIN at : at[d] \in Nat
      /\ \A i \in DOMAIN batch : batch[i] \in DOMAIN at
  BY Numbered
<1>1. CASE ListHookDeliveries
  <2>1. PICK k \in 0..Len(at) :
           /\ DOMAIN batch' = 1..k
           /\ \A i \in 1..k : batch'[i] = Len(at) - k + i /\ since <= at[Len(at) - k + i]
           /\ k = Len(at) \/ k = PageSize \/ at[Len(at) - k] < since
    BY <1>1, Chosen DEF ListHookDeliveries
  <2>2. UNCHANGED <<at, since>> /\ pos' = 1 /\ rpc' = "get" /\ batch' # <<>>
    BY <1>1 DEF ListHookDeliveries, githubVars, Working
  <2>3. 1 \in 1..k
    <3>1. k # 0
      <4> SUFFICES ASSUME k = 0 PROVE batch' = <<>> BY <2>2
      <4>1. batch' \in Seq(DOMAIN at)
        BY <1>1, Chosen DEF ListHookDeliveries
      <4>2. Len(batch') = 0 BY <2>1, <4>1, LenProperties
      <4> QED BY <4>1, <4>2, EmptySeq
    <3> QED BY <1>0, <3>1
  <2>4. batch'[1] = Len(at) - k + 1
    BY <2>1, <2>3
  <2>5. ASSUME NEW i \in 1..k
        PROVE  batch'[i] = batch'[1] + (i - 1) /\ since <= at[batch'[i]]
    <3>1. batch'[i] = Len(at) - k + i /\ since <= at[Len(at) - k + i]
      BY <2>1
    <3>2. k \in Int /\ i \in Int /\ Len(at) \in Int
      BY <1>0
    <3>3. batch'[i] = batch'[1] + (i - 1)
      BY <2>4, <3>1, <3>2
    <3> QED BY <3>1, <3>3
  <2>6. ASSUME NEW d \in DOMAIN at, d < batch'[1]
        PROVE  at[d] < since \/ Len(at) - d >= PageSize
    <3>1. at \in [1..Len(at) -> Nat]
      BY <1>0, LenProperties DEF TypeOK
    <3>2. \A e, f \in 1..Len(at) : e <= f => at[e] <= at[f]
      BY <1>0 DEF Clock
    <3>3. d \in 1..Len(at) /\ d < Len(at) - k + 1
      BY <1>0, <2>4, <2>6
    <3>4. k = Len(at) \/ k = PageSize \/ at[Len(at) - k] < since
      BY <2>1
    <3> HIDE DEF Clock
    <3> QED BY <1>0, <3>1, <3>2, <3>3, <3>4, LeftOut
  <2> QED BY <2>1, <2>2, <2>5, <2>6 DEF Batch
<1>2. CASE ~ListHookDeliveries
  <2>1. Working /\ batch' = batch /\ since' = since
    BY <1>2, WorkCases, WaitCases
    DEF Next, Answered, Own, Tick, Deliver, ReplayData, SaveData, RunExecCommand, vars, Working
  <2>2. \A i \in DOMAIN batch :
          batch'[i] = batch'[1] + (i - 1) /\ since' <= at'[batch'[i]]
    BY <1>0, <2>1, AtGrows DEF Batch
  <2>3. 1 \in DOMAIN batch
    BY <2>1, Numbered DEF TypeOK
  <2>4. ASSUME NEW d \in DOMAIN at', d < batch'[1]
        PROVE  at'[d] < since' \/ Len(at') - d >= PageSize
    <3>1. batch[1] \in 1..Len(at) BY <1>0, <2>3
    <3>2. d \in Nat /\ 1 <= d
      <4>1. DOMAIN at' = 1..Len(at')
        BY PollerTypeStep, AtGrows, LenProperties, <2>4
      <4> QED BY <4>1
    <3>3. d \in DOMAIN at /\ at'[d] = at[d]
      BY <1>0, <2>1, <2>4, <3>1, <3>2, AtGrows
    <3>4. Len(at) \in Nat /\ Len(at') \in Nat /\ Len(at) <= Len(at')
      BY AtGrows
    <3> QED BY <1>0, <2>1, <2>4, <3>2, <3>3, <3>4 DEF Batch
  <2> QED BY <2>1, <2>2, <2>4 DEF Batch
<1> QED BY <1>1, <1>2

\* GETs are counted up to the last one.
LEMMA TriesStep == TypeOK /\ Tries /\ [Next]_vars => Tries'
<1> SUFFICES ASSUME TypeOK, Tries, [Next]_vars, rpc' = "get" PROVE gets' < Gets
  BY DEF Tries, Gets
<1>1. CASE GetHookDelivery
  BY <1>1 DEF GetHookDelivery
<1>2. CASE ListHookDeliveries
  <2>1. gets' = 0 BY <1>2 DEF ListHookDeliveries
  <2> QED BY <2>1 DEF Gets
<1>3. CASE ReplayData \/ SaveData \/ RunExecCommand
  <2>1. gets' = 0 BY <1>3, WorkCases
  <2> QED BY <2>1 DEF Gets
<1>4. CASE Tick \/ Deliver \/ UNCHANGED vars
  BY <1>4 DEF Tick, Deliver, vars, Tries
<1> QED BY <1>1, <1>2, <1>3, <1>4
        DEF Next, Answered, Own, ListFails, GetFails, WakeUp

\* A batch is worked on from its first delivery on; all of it comes after what was tried.
LEMMA PostedStep ==
  TypeOK /\ Clock /\ Since /\ Batch /\ Posted /\ [Next]_vars => Posted'
<1> SUFFICES ASSUME TypeOK, Clock, Since, Batch, Posted, [Next]_vars PROVE Posted' OBVIOUS
<1>0. /\ Len(posts) \in Nat /\ DOMAIN posts = 1..Len(posts)
      /\ \A i \in DOMAIN posts : posts[i] \in DOMAIN at
      /\ \A i \in DOMAIN batch : batch[i] \in DOMAIN at
      /\ Len(at) \in Nat /\ DOMAIN at = 1..Len(at) /\ since \in Nat
      /\ \A d \in DOMAIN at : at[d] \in Nat
      /\ Len(batch) \in Nat /\ DOMAIN batch = 1..Len(batch)
  BY Numbered
<1>1. CASE Tick \/ Deliver \/ UNCHANGED vars
  <2>1. UNCHANGED <<rpc, batch, pos, posts, since>>
    BY <1>1 DEF Tick, Deliver, vars
  <2>2. \A i \in DOMAIN posts : at'[posts[i]] = at[posts[i]]
    BY <1>0, AtGrows
  <2>3. \A i \in 1..pos : Tried(batch[i])' <=> Tried(batch[i])
    BY <2>1 DEF Tried
  <2> QED BY <2>1, <2>2, <2>3 DEF Posted, Working
<1>2. CASE ListFails \/ GetHookDelivery \/ GetFails \/ WakeUp
  <2>1. UNCHANGED <<at, batch, pos, posts, since>>
    BY <1>2, WaitCases
  <2>2. \A i \in 1..pos : Tried(batch[i])' <=> Tried(batch[i])
    BY <2>1 DEF Tried
  <2>3. \/ rpc = "list" /\ rpc' = "failed"
        \/ rpc = "get" /\ rpc' \in {"get", "post", "failed", "panicked"}
        \/ rpc = "sleep" /\ rpc' = "list"
    BY <1>2, WaitCases
  <2> QED BY <2>1, <2>2, <2>3 DEF Posted, Working
<1>3. CASE ListHookDeliveries
  <2>1. /\ rpc = "list" /\ UNCHANGED <<at, since, posts>>
        /\ rpc' \in {"get", "sleep"} /\ pos' = 1
    BY <1>3 DEF ListHookDeliveries, githubVars
  <2>2. \A i \in DOMAIN posts : at[posts[i]] < since
    BY <2>1 DEF Posted
  <2>3. ASSUME rpc' = "get"
        PROVE  \A i \in DOMAIN posts : posts[i] < batch'[1]
    <3>1. Working' BY <2>3 DEF Working
    <3>2. 1 \in DOMAIN batch' /\ batch'[1] \in DOMAIN at
      <4>1. batch' \in Seq(DOMAIN at)
        BY <1>3, Chosen DEF ListHookDeliveries
      <4>2. batch' # <<>>
        BY <1>3, <2>3 DEF ListHookDeliveries
      <4> QED BY <4>1, <4>2, EmptySeq, LenProperties, ElementOfSeq
    <3>3. since <= at[batch'[1]]
      <4>1. Batch' BY BatchStep
      <4> QED BY <2>1, <3>1, <3>2, <4>1 DEF Batch
    <3> SUFFICES ASSUME NEW i \in DOMAIN posts, ~(posts[i] < batch'[1]) PROVE FALSE
      OBVIOUS
    <3>4. posts[i] \in DOMAIN at /\ batch'[1] <= posts[i]
      BY <1>0, <3>2
    <3>5. at[batch'[1]] <= at[posts[i]]
      BY <3>2, <3>4 DEF Clock
    <3>6. at[posts[i]] < since
      BY <2>2
    <3>7. at[posts[i]] \in Nat /\ at[batch'[1]] \in Nat
      BY <1>0, <3>2, <3>4
    <3> QED BY <1>0, <3>3, <3>5, <3>6, <3>7
  <2>4. CASE rpc' = "sleep"
    BY <2>1, <2>2, <2>4 DEF Posted, Working
  <2>5. CASE rpc' = "get"
    <3>1. \A i \in DOMAIN posts' : posts'[i] < batch'[pos']
      BY <2>1, <2>3, <2>5
    <3>2. \A i \in 1..pos' : ~(i < pos')
      BY <2>1
    <3> QED BY <2>5, <3>1, <3>2 DEF Posted
  <2> QED BY <2>1, <2>4, <2>5
<1>4. CASE ReplayData \/ SaveData \/ RunExecCommand
  <2>0. /\ Working /\ rpc \in {"post", "save", "exec"} /\ pos \in DOMAIN batch
        /\ batch[pos] \in DOMAIN at /\ UNCHANGED <<at, batch>>
    BY <1>0, <1>4, WorkCases DEF ReplayData, SaveData, RunExecCommand, TypeOK, Working
  <2>1. \A i \in 1..pos : Tried(batch[i])'
    <3>0. UNCHANGED batch BY <2>0
    <3>1. CASE ReplayData
      <4>1. rpc = "post" BY <3>1 DEF ReplayData
      <4>2. \A i \in 1..pos : i < pos => Tried(batch[i])
        BY <2>0 DEF Posted
      <4>3. \A i \in 1..pos : i < pos \/ i = pos
        BY <1>0, <2>0
      <4> QED BY <3>0, <3>1, <4>2, <4>3, TriedGrows
    <3>2. CASE ~ReplayData
      <4>1. rpc \in {"save", "exec"}
        BY <1>4, <3>2 DEF SaveData, RunExecCommand
      <4>2. \A i \in 1..pos : Tried(batch[i])
        BY <2>0, <4>1 DEF Posted
      <4> QED BY <3>0, <4>2, TriedGrows
    <3> QED BY <3>1, <3>2
  <2>2. \A i \in DOMAIN posts' : posts'[i] \in DOMAIN at /\ posts'[i] <= batch[pos]
    <3>1. \A i \in DOMAIN posts : posts[i] \in DOMAIN at /\ posts[i] <= batch[pos]
      BY <1>0, <2>0 DEF Posted
    <3>2. CASE ReplayData
      <4>1. /\ DOMAIN posts' = 1..Len(posts) + 1
            /\ \A i \in DOMAIN posts : posts'[i] = posts[i]
            /\ posts'[Len(posts) + 1] = batch[pos]
        BY <3>2, TriedGrows
      <4>2. batch[pos] <= batch[pos]
        BY <1>0, <2>0
      <4> SUFFICES ASSUME NEW i \in DOMAIN posts'
                   PROVE  posts'[i] \in DOMAIN at /\ posts'[i] <= batch[pos]
        OBVIOUS
      <4>3. i \in DOMAIN posts \/ i = Len(posts) + 1
        BY <1>0, <4>1
      <4> QED BY <2>0, <3>1, <4>1, <4>2, <4>3, Zenon
    <3>3. CASE ~ReplayData
      BY <3>1, <3>3, TriedGrows
    <3> QED BY <3>2, <3>3
  <2>3. CASE rpc' \in {"save", "exec"} /\ UNCHANGED <<since, pos>>
    <3>1. \A i \in DOMAIN posts' : posts'[i] < batch[pos] \/ posts'[i] = batch[pos]
      BY <1>0, <2>0, <2>2
    <3> QED BY <2>0, <2>1, <2>3, <3>1 DEF Posted
  <2>4. CASE pos < Len(batch) /\ rpc' = "get" /\ pos' = pos + 1
    <3>1. batch[pos] < batch[pos + 1] /\ pos \in Nat
      <4>1. pos + 1 \in DOMAIN batch /\ pos \in Nat BY <1>0, <2>0, <2>4
      <4>2. /\ batch[pos] = batch[1] + (pos - 1)
            /\ batch[pos + 1] = batch[1] + ((pos + 1) - 1)
            /\ 1 \in DOMAIN batch
        BY <1>0, <2>0, <4>1 DEF Batch
      <4>3. batch[1] \in Nat BY <1>0, <4>2
      <4> QED BY <4>1, <4>2, <4>3
    <3>2. \A i \in DOMAIN posts' : posts'[i] < batch[pos + 1]
      <4>1. batch[pos + 1] \in Nat /\ batch[pos] \in Nat
        BY <1>0, <2>0, <2>4
      <4>2. \A i \in DOMAIN posts' : posts'[i] \in Nat
        BY <1>0, <2>2
      <4> QED BY <2>2, <3>1, <4>1, <4>2
    <3>3. \A i \in 1..pos + 1 : i < pos + 1 => i \in 1..pos
      BY <3>1
    <3> QED BY <2>0, <2>1, <2>4, <3>2, <3>3 DEF Posted
  <2>5. CASE rpc' = "sleep" /\ since' # since
    <3>1. PICK last \in DOMAIN at : last = batch[pos] /\ since' = at[last] + 1
      BY <2>5, BatchDone
    <3>2. ASSUME NEW i \in DOMAIN posts' PROVE at'[posts'[i]] < since'
      <4>1. posts'[i] \in DOMAIN at /\ posts'[i] <= last
        BY <2>2, <3>1
      <4>2. at[posts'[i]] <= at[last] BY <4>1 DEF Clock
      <4>3. at[posts'[i]] \in Nat /\ at[last] \in Nat BY <1>0, <4>1
      <4> QED BY <2>0, <3>1, <4>2, <4>3
    <3> QED BY <2>5, <3>2 DEF Posted, Working
  <2>6. ASSUME rpc' = "sleep" PROVE since' # since
    <3>1. ~(pos < Len(batch)) /\ since' = at[batch[Len(batch)]] + 1
      BY <1>4, <2>6, WorkCases
    <3>2. Len(batch) = pos BY <1>0, <2>0, <3>1
    <3>3. since <= at[batch[pos]] /\ at[batch[pos]] \in Nat
      BY <1>0, <2>0 DEF Batch
    <3> QED BY <1>0, <3>1, <3>2, <3>3
  <2>7. \/ rpc' \in {"save", "exec"} /\ UNCHANGED <<since, pos>>
        \/ pos < Len(batch) /\ rpc' = "get" /\ pos' = pos + 1
        \/ rpc' = "sleep"
    BY <1>4, WorkCases
  <2> QED BY <2>3, <2>4, <2>5, <2>6, <2>7
<1> QED BY <1>1, <1>2, <1>3, <1>4 DEF Next, Answered, Own

\* What is saved was posted, and the delivery in hand is saved once.
LEMMA SavedStep ==
  TypeOK /\ Posted /\ Saved /\ [Next]_vars => Saved'
<1> SUFFICES ASSUME TypeOK, Posted, Saved, [Next]_vars PROVE Saved' OBVIOUS
<1>1. \A d \in saved : Tried(d)'
  BY TriedGrows DEF Saved
<1>2. CASE SaveData
  <2>1. /\ rpc = "save" /\ batch[pos] \in DOMAIN at
        /\ \E step \in 0..5 : SaveUpTo(step, FileOf(batch[pos]), batch[pos])
    BY <1>2, SaveDataCases, Numbered DEF SaveData, TypeOK, Working
  <2>2. saved' = saved \/ saved' = saved \cup {batch[pos]}
    BY <2>1 DEF SaveUpTo
  <2>3. Tried(batch[pos])
    <3>1. Working /\ pos \in 1..pos
      BY <2>1, HandTyped DEF Working
    <3> QED BY <2>1, <3>1 DEF Posted
  <2>4. PICK b : b = batch[pos] OBVIOUS
  <2>5. Tried(b)' BY <2>3, <2>4, TriedGrows
  <2>6. rpc' # "save"
    BY <1>2, <2>1, WorkCases
  <2> QED BY <1>1, <2>2, <2>4, <2>5, <2>6 DEF Saved
<1>3. CASE ReplayData
  <2>1. saved' = saved /\ rpc = "post" /\ Working /\ batch' = batch
    BY <1>3 DEF ReplayData, fileVars, Working
  <2>2. rpc' = "save" => pos' = pos
    BY <1>3, WorkCases
  <2>3. batch[pos] \notin saved
    <3> SUFFICES ASSUME Tried(batch[pos]) PROVE FALSE BY DEF Saved
    <3>1. PICK i \in DOMAIN posts : posts[i] = batch[pos] BY DEF Tried
    <3>2. posts[i] < batch[pos] BY <2>1 DEF Posted
    <3>3. batch[pos] \in Nat BY <3>1, Numbered
    <3> QED BY <3>1, <3>2, <3>3
  <2> QED BY <1>1, <2>1, <2>2, <2>3 DEF Saved
<1>4. CASE ~SaveData /\ ~ReplayData
  <2>1. saved' = saved
    BY <1>4, WaitCases
    DEF Next, Answered, Own, Tick, Deliver, ListHookDeliveries, RunExecCommand, fileVars, vars
  <2>2. rpc' = "save" => rpc = "save" /\ batch' = batch /\ pos' = pos
    BY <1>4, WaitCases, WorkCases
    DEF Next, Answered, Own, Tick, Deliver, ListHookDeliveries, RunExecCommand, vars
  <2> QED BY <1>1, <2>1, <2>2 DEF Saved
<1> QED BY <1>2, <1>3, <1>4

\* A POST is for a delivery that comes after all that were posted.
LEMMA OrderStep ==
  TypeOK /\ Posted /\ OldestFirstOnce /\ [Next]_vars => OldestFirstOnce'
<1> SUFFICES ASSUME TypeOK, Posted, OldestFirstOnce, [Next]_vars PROVE OldestFirstOnce'
  OBVIOUS
<1>1. CASE ReplayData
  <2>1. /\ DOMAIN posts = 1..Len(posts) /\ Len(posts) \in Nat
        /\ DOMAIN posts' = 1..Len(posts) + 1
        /\ \A i \in DOMAIN posts : posts'[i] = posts[i]
        /\ posts'[Len(posts) + 1] = batch[pos]
    BY <1>1, TriedGrows
  <2>2. \A i \in DOMAIN posts : posts[i] < batch[pos]
    BY <1>1 DEF ReplayData, Posted, Working
  <2> SUFFICES ASSUME NEW i \in DOMAIN posts', NEW j \in DOMAIN posts', i < j
               PROVE  posts'[i] < posts'[j]
    BY DEF OldestFirstOnce
  <2>3. i \in DOMAIN posts /\ (j \in DOMAIN posts \/ j = Len(posts) + 1)
    BY <2>1
  <2>4. CASE j \in DOMAIN posts
    BY <2>1, <2>3, <2>4 DEF OldestFirstOnce
  <2>5. CASE j = Len(posts) + 1
    BY <2>1, <2>2, <2>3, <2>5
  <2> QED BY <2>3, <2>4, <2>5
<1>2. CASE ~ReplayData
  BY <1>2, TriedGrows DEF OldestFirstOnce
<1> QED BY <1>1, <1>2

\* The delivery in hand and those behind it are not old.
LEMMA InHandIsLater ==
  ASSUME TypeOK, Batch, NEW d, InHand(d)
  PROVE  d \in DOMAIN at /\ since <= at[d]
<1>1. PICK i \in pos..Len(batch) : batch[i] = d
  BY DEF InHand
<1>2. Working /\ pos \in 1..Len(batch) /\ Len(batch) \in Nat /\ DOMAIN batch = 1..Len(batch)
  BY Numbered DEF InHand, TypeOK
<1>3. i \in DOMAIN batch
  BY <1>2
<1>4. since <= at[batch[i]]
  BY <1>2, <1>3 DEF Batch
<1> QED BY <1>1, <1>3, <1>4, Numbered

\* A delivery becomes old untried as one of the second that ended the last batch, or one
\* that was pushed off the page the batch was taken from.
LEMMA PassedStep ==
  TypeOK /\ Clock /\ Since /\ Batch /\ Posted /\ PassedOverOnlyNearby /\ [Next]_vars
  => PassedOverOnlyNearby'
<1> DEFINE Nearby(d) == \/ \E e \in DOMAIN at : Tried(e) /\ e < d /\ at[e] = at[d]
                        \/ Len(at) - d >= PageSize
<1> SUFFICES ASSUME TypeOK, Clock, Since, Batch, Posted, PassedOverOnlyNearby, [Next]_vars,
                    NEW d \in PassedOver'
             PROVE  \/ \E e \in DOMAIN at' : Tried(e)' /\ e < d /\ at'[e] = at'[d]
                    \/ Len(at') - d >= PageSize
  BY DEF PassedOverOnlyNearby
<1>0. /\ Len(at) \in Nat /\ DOMAIN at = 1..Len(at) /\ since \in Nat /\ began \in Nat
      /\ \A e \in DOMAIN at : at[e] \in Nat
      /\ PageSize \in Nat /\ now \in Nat
      /\ Len(batch) \in Nat /\ DOMAIN batch = 1..Len(batch)
      /\ \A i \in DOMAIN batch : batch[i] \in DOMAIN at
  BY Numbered
<1>1. /\ d \in DOMAIN at' /\ began <= at'[d] /\ at'[d] < since' /\ ~Tried(d)' /\ ~Tried(d)
  <2>1. d \in DOMAIN at' /\ began' <= at'[d] /\ at'[d] < since' /\ ~Tried(d)'
    BY DEF PassedOver
  <2>2. began' = began BY TimeGrows
  <2>3. ~Tried(d) BY <2>1, TriedGrows
  <2> QED BY <2>1, <2>2, <2>3
<1>2. CASE d \in PassedOver
  <2>1. d \in DOMAIN at /\ at'[d] = at[d]
    BY <1>2, AtGrows DEF PassedOver
  <2>2. Nearby(d)
    BY <1>2 DEF PassedOverOnlyNearby
  <2>3. CASE Len(at) - d >= PageSize
    <3>1. Len(at) \in Nat /\ Len(at') \in Nat /\ Len(at) <= Len(at') BY AtGrows
    <3> QED BY <1>0, <2>1, <2>3, <3>1
  <2>4. CASE \E e \in DOMAIN at : Tried(e) /\ e < d /\ at[e] = at[d]
    <3>1. PICK e \in DOMAIN at : Tried(e) /\ e < d /\ at[e] = at[d] BY <2>4
    <3>2. e \in DOMAIN at' /\ Tried(e)' /\ at'[e] = at[e] BY <3>1, AtGrows, TriedGrows
    <3> QED BY <2>1, <3>1, <3>2
  <2> QED BY <2>2, <2>3, <2>4
<1>3. ASSUME d \in DOMAIN at, d \notin PassedOver, at'[d] = at[d] PROVE since <= at[d]
  <2> SUFFICES ASSUME at[d] < since PROVE FALSE
    BY <1>0, <1>3
  <2>1. began <= at[d] BY <1>1, <1>3
  <2>2. InHand(d)
    BY <1>1, <1>3, <2>1 DEF PassedOver
  <2>3. since <= at[d] BY <2>2, InHandIsLater
  <2> QED BY <1>0, <1>3, <2>3
<1>4. CASE d \notin PassedOver /\ since' = since
  <2>1. d \notin DOMAIN at
    <3> SUFFICES ASSUME d \in DOMAIN at PROVE FALSE OBVIOUS
    <3>1. at'[d] = at[d] BY AtGrows
    <3>2. since <= at[d] BY <1>3, <1>4, <3>1
    <3>3. at[d] < since BY <1>1, <1>4, <3>1
    <3> QED BY <1>0, <3>2, <3>3
  <2>2. Deliver BY <1>1, <2>1, AtGrows
  <2>3. at'[d] = now
    <3>1. at \in Seq(0..MaxTime) /\ now \in 0..MaxTime /\ at' = Append(at, now)
      BY <2>2 DEF Deliver, TypeOK
    <3>2. /\ at' \in Seq(0..MaxTime) /\ Len(at') = Len(at) + 1
          /\ at'[Len(at) + 1] = now
      BY <3>1, AppendProperties
    <3>3. d = Len(at) + 1
      BY <1>0, <1>1, <2>1, <3>2, LenProperties
    <3> QED BY <3>2, <3>3
  <2>4. began <= now /\ now < since /\ since <= now + 1
    BY <1>1, <1>4, <2>3 DEF Since
  <2>5. since # began /\ since - 1 = now
    BY <1>0, <2>4
  <2>6. PICK e \in DOMAIN at : Tried(e) /\ at[e] = now
    BY <2>5 DEF Since
  <2>7. e \in DOMAIN at' /\ Tried(e)' /\ at'[e] = at'[d]
    BY <2>3, <2>6, AtGrows, TriedGrows
  <2>8. e < d
    <3>1. DOMAIN at' = 1..Len(at') /\ Len(at') \in Nat
      BY <2>2, AtGrows, LenProperties, AppendProperties DEF Deliver, TypeOK
    <3> QED BY <1>0, <1>1, <2>1, <2>6, <3>1
  <2> QED BY <2>7, <2>8
<1>5. CASE d \notin PassedOver /\ since' # since
  <2>1. PICK last \in DOMAIN at :
          /\ UNCHANGED at /\ Working /\ pos = Len(batch) /\ pos \in DOMAIN batch
          /\ last = batch[pos] /\ since' = at[last] + 1 /\ Tried(last)'
          /\ ReplayData \/ SaveData \/ RunExecCommand
    BY <1>5, BatchDone
  <2>2. /\ d \in 1..Len(at) /\ at[d] \in Nat /\ at[last] \in Nat /\ at[d] <= at[last]
        /\ since <= at[d] /\ last \in 1..Len(at)
    <3>1. d \in DOMAIN at /\ at'[d] = at[d] BY <1>1, <2>1
    <3>2. at[d] < at[last] + 1 BY <1>1, <2>1, <3>1
    <3>3. since <= at[d] BY <1>3, <1>5, <3>1
    <3> QED BY <1>0, <3>1, <3>2, <3>3
  <2>3. CASE d > last
    <3>0. d \in DOMAIN at /\ last <= d BY <1>0, <2>2, <2>3
    <3>1. at[last] <= at[d] BY <3>0 DEF Clock
    <3>2. at[last] = at[d] /\ last < d BY <2>2, <2>3, <3>1
    <3> QED BY <2>1, <3>2
  <2>4. CASE d < batch[1]
    <3>1. Len(at) - d >= PageSize
      <4>1. at[d] < since \/ Len(at) - d >= PageSize
        BY <1>0, <2>1, <2>2, <2>4 DEF Batch
      <4> QED BY <1>0, <2>2, <4>1
    <3> QED BY <2>1, <3>1
  <2>5. CASE ~(d > last) /\ ~(d < batch[1])
    <3>1. batch[1] \in Nat /\ last = batch[1] + (pos - 1) /\ pos \in Nat /\ 1 <= pos
      <4>1. 1 \in DOMAIN batch /\ pos \in 1..Len(batch) BY <1>0, <2>1
      <4>2. last = batch[1] + (pos - 1) BY <2>1 DEF Batch
      <4> QED BY <1>0, <4>1, <4>2
    <3>2. PICK i \in 1..pos : d = batch[1] + (i - 1)
      <4>1. batch[1] <= d /\ d <= batch[1] + (pos - 1) /\ d \in Nat
        BY <2>2, <2>5, <3>1
      <4> QED BY <3>1, <4>1, Offset
    <3>3. batch[i] = d
      <4>1. i \in DOMAIN batch BY <1>0, <2>1
      <4> QED BY <2>1, <3>2, <4>1 DEF Batch
    <3>4. d # last BY <1>1, <2>1
    <3>5. i # pos BY <2>1, <3>3, <3>4
    <3>6. i < pos BY <3>1, <3>5
    <3>7. Tried(d) BY <2>1, <3>3, <3>6 DEF Posted
    <3> QED BY <1>1, <3>7
  <2> QED BY <2>3, <2>4, <2>5
<1> QED BY <1>2, <1>4, <1>5

\* A save overwrites the files of that name only, and these are of a delivery that was
\* tried before.
LEMMA LostStep ==
  TypeOK /\ Posted /\ Saved /\ LostOnlyToNamesake /\ [Next]_vars => LostOnlyToNamesake'
<1> DEFINE Namesake(d, e) == /\ Tried(e) /\ e > d
                             /\ TypeOf[e] = TypeOf[d]
                             /\ at[e] \div Minute = at[d] \div Minute
<1> SUFFICES ASSUME TypeOK, Posted, Saved, LostOnlyToNamesake, [Next]_vars, NEW d \in saved'
             PROVE  \/ Replayable(FileOf(d), d)'
                    \/ \E e \in DOMAIN at' : Namesake(d, e)'
  BY DEF LostOnlyToNamesake
<1>1. ASSUME NEW e \in DOMAIN at, d \in saved, Namesake(d, e)
      PROVE  \E f \in DOMAIN at' : Namesake(d, f)'
  <2>1. d \in DOMAIN at BY <1>1 DEF TypeOK
  <2>2. at'[e] = at[e] /\ at'[d] = at[d] /\ e \in DOMAIN at' /\ Tried(e)'
    BY <1>1, <2>1, AtGrows, TriedGrows
  <2> QED BY <1>1, <2>2
<1>2. d \in saved => Replayable(FileOf(d), d) \/ \E e \in DOMAIN at : Namesake(d, e)
  BY DEF LostOnlyToNamesake
<1>3. CASE SaveData
  <2>1. PICK e \in DOMAIN at, step \in 0..5 : e = batch[pos] /\ SaveUpTo(step, FileOf(e), e)
    BY <1>3, SaveDataCases, Numbered DEF SaveData, TypeOK, Working
  <2>2. at' = at /\ rpc = "save" /\ Working
    BY <1>3, WorkCases DEF SaveData, Working
  <2>3. FileOf(d)' = FileOf(d) /\ d \in DOMAIN at
    <3>1. d \in DOMAIN at BY <2>1 DEF SaveUpTo, TypeOK
    <3> QED BY <2>2, <3>1 DEF FileOf
  <2>4. CASE d \notin saved
    <3>1. step = 5 /\ d = e
      BY <2>1, <2>4 DEF SaveUpTo
    <3>2. /\ payloads' = Put(payloads, FileOf(e), [of |-> e, whole |-> TRUE])
          /\ scripts' = Put(scripts, FileOf(e), [of |-> e, whole |-> TRUE, runs |-> TRUE])
      <4>1. (step > 1) = TRUE /\ (step > 3) = TRUE BY <3>1
      <4>2. (step = 5 \/ (FileOf(e) \in DOMAIN scripts /\ scripts[FileOf(e)].runs)) = TRUE
        BY <3>1, Zenon
      <4>3. ~(step < 1) /\ ~(step < 3) BY <3>1
      <4> QED BY <2>1, <4>1, <4>2, <4>3, Zenon DEF SaveUpTo
    <3>3. Replayable(FileOf(e), e)'
      <4>1. FileOf(e)' = FileOf(e) BY <2>3, <3>1
      <4>2. /\ FileOf(e) \in DOMAIN payloads' /\ FileOf(e) \in DOMAIN scripts'
            /\ payloads'[FileOf(e)] = [of |-> e, whole |-> TRUE]
            /\ scripts'[FileOf(e)] = [of |-> e, whole |-> TRUE, runs |-> TRUE]
        BY <3>2 DEF Put
      <4> QED BY <4>1, <4>2, Zenon DEF Replayable
    <3> QED BY <3>1, <3>3
  <2>5. CASE d \in saved /\ FileOf(d) # FileOf(e)
    <3>1. ASSUME Replayable(FileOf(d), d) PROVE Replayable(FileOf(d), d)'
      <4>1. payloads' = payloads \/ \E c : payloads' = Put(payloads, FileOf(e), c)
        BY <2>1 DEF SaveUpTo
      <4>2. scripts' = scripts \/ \E c : scripts' = Put(scripts, FileOf(e), c)
        BY <2>1 DEF SaveUpTo
      <4>3. /\ FileOf(d) \in DOMAIN payloads'
            /\ payloads'[FileOf(d)] = payloads[FileOf(d)]
        BY <2>5, <3>1, <4>1 DEF Put, Replayable
      <4>4. /\ FileOf(d) \in DOMAIN scripts'
            /\ scripts'[FileOf(d)] = scripts[FileOf(d)]
        BY <2>5, <3>1, <4>2 DEF Put, Replayable
      <4> QED BY <2>3, <3>1, <4>3, <4>4 DEF Replayable
    <3> QED BY <1>1, <1>2, <2>5, <3>1
  <2>6. CASE d \in saved /\ FileOf(d) = FileOf(e)
    <3>1. TypeOf[e] = TypeOf[d] /\ at[e] \div Minute = at[d] \div Minute
      BY <2>6 DEF FileOf, FileName
    <3>2. d # e
      BY <2>1, <2>2, <2>6 DEF Saved
    <3>3. Tried(e)
      <4>1. pos \in 1..pos BY <2>2, HandTyped
      <4> QED BY <2>1, <2>2, <4>1 DEF Posted
    <3>4. d < e
      <4>1. PICK i \in DOMAIN posts : posts[i] = d BY <2>6 DEF Saved, Tried
      <4>2. posts[i] < e \/ posts[i] = e BY <2>1, <2>2 DEF Posted
      <4> QED BY <3>2, <4>1, <4>2
    <3>5. e > d
      BY <2>1, <2>3, <3>4, Numbered
    <3> QED BY <1>1, <2>6, <3>1, <3>3, <3>5
  <2> QED BY <2>4, <2>5, <2>6
<1>4. CASE ~SaveData
  <2>1. UNCHANGED fileVars
    BY <1>4, WaitCases
    DEF Next, Answered, Own, Tick, Deliver, ListHookDeliveries, ReplayData, RunExecCommand, vars
  <2>2. d \in saved /\ d \in DOMAIN at /\ at'[d] = at[d]
    BY <2>1, AtGrows DEF fileVars, TypeOK
  <2>3. Replayable(FileOf(d), d) => Replayable(FileOf(d), d)'
    BY <2>1, <2>2 DEF FileOf, fileVars, Replayable
  <2> QED BY <1>1, <1>2, <2>2, <2>3
<1> QED BY <1>3, <1>4

\* Every step keeps the invariant.
LEMMA PollerStep == PollerInv /\ [Next]_vars => PollerInv'
  BY PollerTypeStep, ClockStep, SinceStep, BatchStep, TriesStep, PostedStep, SavedStep,
     OrderStep, PassedStep, LostStep DEF PollerInv

\* The inductive invariant holds for ever.
LEMMA PollerInvariant == Spec => []PollerInv
<1>1. Init => PollerInv
  BY PollerInit
<1>2. PollerInv /\ [Next]_vars => PollerInv'
  BY PollerStep
<1> QED BY <1>1, <1>2, PTL DEF Spec

-----------------------------------------------------------------------------
(* The theorems                                                            *)

\* Every variable of the poller keeps its type; in particular no step leaves the batch.
THEOREM TypeCorrect == Spec => []TypeOK
<1>1. PollerInv => TypeOK BY DEF PollerInv
<1> QED BY <1>1, PollerInvariant, PTL

\* The target gets deliveries in the order GitHub made them and none twice, however the
\* polls and new deliveries interleave.
THEOREM OrderCorrect == Spec => []OldestFirstOnce
<1>1. PollerInv => OldestFirstOnce BY DEF PollerInv
<1> QED BY <1>1, PollerInvariant, PTL

\* Only a delivery of the second that ended a batch, or one that a full page had pushed
\* off the list, is passed over.
THEOREM PassedOverCorrect == Spec => []PassedOverOnlyNearby
<1>1. PollerInv => PassedOverOnlyNearby BY DEF PollerInv
<1> QED BY <1>1, PollerInvariant, PTL

\* The files of a saved delivery are lost only to a later one of its type and minute.
THEOREM SavedCorrect == Spec => []LostOnlyToNamesake
<1>1. PollerInv => LostOnlyToNamesake BY DEF PollerInv
<1> QED BY <1>1, PollerInvariant, PTL
=============================================================================
