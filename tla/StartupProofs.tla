--------------------------- MODULE StartupProofs ---------------------------
(***************************************************************************)
(* What a start of gosmee guarantees for any set of invocations, secrets,  *)
(* addresses and requests: which source an option has its value from, that *)
(* a mistake stops every command, and what the server lets through.        *)
(***************************************************************************)
EXTENDS Startup, TLAPS

-----------------------------------------------------------------------------
(* The configuration                                                       *)

\* A section is not the top level, and its name is no flag.
LEMMA SectionNames ==
  /\ Sections = {"client", "replay", "server", "keygen"}
  /\ "top" \notin Sections
  /\ \A c \in Sections : FlagsOf(c) \cap Sections = {}
  BY DEF Sections, commandFlags, FlagsOf, commonKeys, Positional

\* What the merged configuration holds for a key: the section's entry, or the top
\* level's when the section has none.
LEMMA EntryOfKey ==
  ASSUME inv \in Invocations, loaded = inv.config, NEW k
  PROVE  /\ k \in Keys(Merged(inv.config)) =>
              /\ EntryOf(k) \in inv.config /\ EntryOf(k).key = k
              /\ \/ EntryOf(k).in = inv.cmd
                 \/ /\ EntryOf(k).in = "top"
                    /\ \A e \in inv.config : ~(e.in = inv.cmd /\ e.key = k)
         /\ \A e \in inv.config : e.key = k /\ k \notin Sections =>
              /\ e.in = inv.cmd => k \in Keys(Merged(inv.config)) /\ EntryOf(k) = e
              /\ e.in = "top" /\ (\A d \in inv.config : ~(d.in = inv.cmd /\ d.key = k))
                   => k \in Keys(Merged(inv.config)) /\ EntryOf(k) = e
<1> DEFINE M == Merged(inv.config)
<1>1. \A d, e \in inv.config : d.in = e.in /\ d.key = e.key => d = e
  BY InvocationAssumption
<1>2. inv.cmd # "top" BY InvocationAssumption, SectionNames
<1>3. \A e : e \in M <=> e \in inv.config /\
        \/ e.in = inv.cmd
        \/ /\ e.in = "top" /\ e.key \notin Sections
           /\ \A s \in inv.config : ~(s.in = inv.cmd /\ s.key = e.key)
  BY DEF Merged
<1>4. \A d, e \in M : d.key = e.key => d = e BY <1>1, <1>3
<1>5. k \in Keys(M) => EntryOf(k) \in M /\ EntryOf(k).key = k
  BY DEF Keys, EntryOf
<1>6. \A e \in M : e.key = k => k \in Keys(M) /\ EntryOf(k) = e
  BY <1>4, <1>5 DEF Keys
<1> HIDE DEF M
<1>7. Keys(M) = Keys(Merged(inv.config)) BY DEF M
<1> QED BY <1>3, <1>5, <1>6, <1>7

\* Where the value of a flag comes from, at any moment of the loop: a key that is
\* still pending has not changed its flag.
FlagRight(k) ==
  flag[k] = IF k \in inv.cli THEN "cli"
            ELSE IF k \in inv.env THEN "env"
            ELSE IF /\ Readable /\ k \in Keys(Merged(inv.config)) \ pending
                    /\ EntryOf(k).val = "value"
            THEN IF EntryOf(k).in = "top" THEN "top" ELSE "section"
            ELSE "default"

\* The loop is past loading.
Loaded == pc \notin {"load", "failed"}

\* Precedence is inductive only with what every turn of the loop has achieved so far,
\* and with what LoadConfig found when it let the loop begin.
ConfigInv ==
  /\ inv \in Invocations
  /\ flag \in [FlagsOf(inv.cmd) -> Sources]
  /\ pc = "load" => flag = ParsedFlags(inv) /\ loaded = {}
  /\ pc = "apply" => Readable
  /\ Loaded /\ ~Readable => ~inv.explicit /\ inv.file # "broken" /\ loaded = {}
  /\ Loaded /\ Readable =>
       /\ loaded = inv.config /\ \A e \in inv.config : ValidEntry(e)
       /\ pending \subseteq Keys(Merged(inv.config))
       /\ \A k \in FlagsOf(inv.cmd) \ (inv.cli \cup inv.env) :
            k \in Keys(Merged(inv.config)) \ pending => EntryOf(k).val # "bad"
       /\ Begun => pending = {}
  /\ Loaded => \A k \in FlagsOf(inv.cmd) : FlagRight(k)

LEMMA ConfigInitial == ConfigInit => ConfigInv
<1> SUFFICES ASSUME ConfigInit PROVE ConfigInv OBVIOUS
<1>1. ParsedFlags(inv) \in [FlagsOf(inv.cmd) -> Sources]
  BY DEF ParsedFlags, Sources
<1> QED BY <1>1 DEF ConfigInit, ConfigInv, Loaded, Begun

\* Nothing but the Before hook touches the configuration, and no command begins
\* before it is done.
LEMMA CommandsKeepConfig ==
  ASSUME ArgumentStep \/ ReaderStep \/ AdmissionStep
  PROVE  /\ UNCHANGED <<inv, loaded, pending, flag>>
         /\ pc' = pc \/ (Begun /\ pc' \notin {"load", "apply"})
  BY DEF ArgumentStep, LoggerFails, NewURL, ClientRefuses, ClientStarts, Lists, Known,
         ReplayRefuses, ReplayStarts, Keygen, ReaderStep, ServeFails, Serves, Subscribes,
         ShowsPage, HandsOut, TurnsAway, Answers, Answered, AdmissionStep, Arrives,
         PassAddress, RefuseAddress, Check, Refuse, PublishPayload, Returns, configVars, Begun

LEMMA ConfigInvStep == ConfigInv /\ [Next]_vars => ConfigInv'
<1> SUFFICES ASSUME ConfigInv, [Next]_vars PROVE ConfigInv'
  OBVIOUS
<1> DEFINE Flags == FlagsOf(inv.cmd)
           M     == Keys(Merged(inv.config))
<1>0. inv \in Invocations /\ inv.cmd \in Sections
  BY InvocationAssumption DEF ConfigInv
\* A step that leaves the configuration as it is.
<1>1. ASSUME UNCHANGED <<inv, loaded, pending, flag>>,
             pc' = pc \/ (Begun /\ pc' \notin {"load", "apply"})
      PROVE  ConfigInv'
  <2>1. \A k : FlagRight(k)' <=> FlagRight(k)
    BY <1>1 DEF FlagRight, EntryOf, Merged, Keys, Readable
  <2>2. \A k : EntryOf(k)' = EntryOf(k) BY <1>1 DEF EntryOf, Merged
  <2>3. Readable' = Readable /\ (\A e : ValidEntry(e)' <=> ValidEntry(e))
        /\ Keys(Merged(inv.config))' = Keys(Merged(inv.config))
    BY <1>1 DEF Readable, ValidEntry, Keys, Merged
  <2>4. /\ Loaded' => Loaded
        /\ Begun' => Begun
        /\ pc' = "load" => pc = "load"
        /\ pc' = "apply" => pc = "apply"
    BY <1>1 DEF Loaded, Begun
  <2> QED BY <1>1, <2>1, <2>2, <2>3, <2>4 DEF ConfigInv
<1>2. CASE UNCHANGED vars BY <1>2, <1>1 DEF vars, configVars
<1>3. CASE ArgumentStep \/ ReaderStep \/ AdmissionStep BY <1>3, <1>1, CommandsKeepConfig
<1>4. CASE NoConfig
  <2>1. /\ pc = "load" /\ ~Readable /\ ~inv.explicit /\ inv.file # "broken"
        /\ UNCHANGED <<inv, loaded, pending, flag>> /\ pc' = inv.cmd
    BY <1>4 DEF NoConfig, Readable
  <2>2. flag = ParsedFlags(inv) /\ loaded = {} BY <2>1 DEF ConfigInv
  <2>3. \A k \in Flags : FlagRight(k)'
    BY <2>1, <2>2 DEF FlagRight, ParsedFlags, Readable
  <2>4. pc' \notin {"load", "apply", "failed"} BY <2>1, <1>0, SectionNames
  <2> QED BY <2>1, <2>2, <2>3, <2>4 DEF ConfigInv, Readable, Loaded
<1>5. CASE BadConfig
  BY <1>5 DEF BadConfig, ConfigInv, Loaded, Begun
<1>6. CASE LoadConfig
  <2>1. /\ pc = "load" /\ Readable /\ \A e \in inv.config : ValidEntry(e)
        /\ loaded' = inv.config /\ pending' = M /\ pc' = "apply" /\ UNCHANGED <<inv, flag>>
    BY <1>6 DEF LoadConfig, Readable
  <2>2. flag = ParsedFlags(inv) BY <2>1 DEF ConfigInv
  <2>3. \A k \in Flags : FlagRight(k)'
    BY <2>1, <2>2 DEF FlagRight, ParsedFlags, Keys, Merged
  <2>4. (\A e \in inv.config : ValidEntry(e)') /\ M' = M /\ Readable'
    BY <2>1 DEF ValidEntry, Keys, Merged, Readable
  <2>5. Loaded' /\ ~Begun' BY <2>1 DEF Loaded, Begun
  <2> QED BY <2>1, <2>3, <2>4, <2>5 DEF ConfigInv
<1>7. CASE Applied
  <2>1. /\ pc = "apply" /\ pending = {} /\ pc' = inv.cmd
        /\ UNCHANGED <<inv, loaded, pending, flag>>
    BY <1>7 DEF Applied
  <2>2. pc' \notin {"load", "apply", "failed"} BY <2>1, <1>0, SectionNames
  <2>3. /\ \A k : FlagRight(k)' <=> FlagRight(k)
        /\ \A k : EntryOf(k)' = EntryOf(k)
        /\ \A e : ValidEntry(e)' <=> ValidEntry(e)
        /\ M' = M /\ Readable' = Readable
    BY <2>1 DEF FlagRight, EntryOf, Merged, Keys, Readable, ValidEntry
  <2> QED BY <2>1, <2>2, <2>3 DEF ConfigInv, Loaded, Begun
<1>8. ASSUME NEW k \in pending, Skip(k) \/ Set(k) \/ SetFails(k) PROVE ConfigInv'
  <2>1. pc = "apply" /\ UNCHANGED <<inv, loaded>> BY <1>8 DEF Skip, Set, SetFails
  <2>2. Loaded /\ Readable BY <2>1 DEF Loaded, ConfigInv
  <2>3. /\ loaded = inv.config /\ k \in M /\ pending \subseteq M
        /\ \A e \in inv.config : ValidEntry(e)
        /\ \A j \in Flags : FlagRight(j)
        /\ \A j \in Flags \ (inv.cli \cup inv.env) : j \in M \ pending => EntryOf(j).val # "bad"
        /\ flag \in [Flags -> Sources]
    BY <2>2, <1>8 DEF ConfigInv
  <2>4. /\ \A j : EntryOf(j)' = EntryOf(j)
        /\ \A e : ValidEntry(e)' <=> ValidEntry(e)
        /\ M' = M /\ Readable' /\ Flags' = Flags
    BY <2>1, <2>2 DEF EntryOf, Merged, Keys, Readable, ValidEntry, FlagsOf
  <2>5. CASE SetFails(k)
    BY <2>5, <2>1, <2>3 DEF SetFails, ConfigInv, Loaded, Begun
  <2>6. CASE Skip(k) \/ Set(k)
    <3>1. /\ pc' = pc /\ pending' = pending \ {k}
          /\ \A j \in Flags \ {k} : flag'[j] = flag[j]
          /\ flag' \in [Flags -> Sources]
      BY <2>6, <2>3 DEF Skip, Set, Sources
    <3>2. \A j \in Flags \ {k} : FlagRight(j)'
      BY <3>1, <2>1, <2>3, <2>4 DEF FlagRight, Readable
    <3>3. ASSUME k \in Flags
          PROVE  FlagRight(k)' /\ (k \notin inv.cli \cup inv.env => EntryOf(k).val # "bad")
      <4>1. flag[k] = IF k \in inv.cli THEN "cli" ELSE IF k \in inv.env THEN "env" ELSE "default"
        BY <3>3, <2>3, <1>8 DEF FlagRight
      <4>2. CASE Skip(k)
        <5>1. flag'[k] = flag[k] /\ (flag[k] # "default" \/ EntryOf(k).val = "null")
          BY <4>2, <3>3 DEF Skip, PassedOver, IsSet, Given
        <5> QED BY <5>1, <4>1, <3>1, <2>1, <2>3, <2>4 DEF FlagRight
      <4>3. CASE Set(k)
        <5>1. /\ flag[k] = "default" /\ EntryOf(k).val = "value"
              /\ flag'[k] = IF EntryOf(k).in = "top" THEN "top" ELSE "section"
          BY <4>3, <3>3, <2>3 DEF Set, PassedOver, IsSet, Given
        <5>2. k \notin inv.cli /\ k \notin inv.env BY <5>1, <4>1
        <5> QED BY <5>1, <5>2, <3>1, <2>1, <2>2, <2>3, <2>4 DEF FlagRight, Readable
      <4> QED BY <2>6, <4>2, <4>3
    <3>4. ~Begun' /\ pc' = "apply" BY <3>1, <2>1 DEF Begun
    <3> QED BY <3>1, <3>2, <3>3, <3>4, <2>1, <2>3, <2>4 DEF ConfigInv
  <2> QED BY <1>8, <2>5, <2>6
<1> QED BY <1>2, <1>3, <1>4, <1>5, <1>6, <1>7, <1>8 DEF Next, ConfigStep

LEMMA PrecedenceHolds == ConfigInv => Precedence
<1> SUFFICES ASSUME ConfigInv, Begun, NEW k \in FlagsOf(inv.cmd)
             PROVE  /\ flag[k] = "cli" <=> k \in inv.cli
                    /\ flag[k] = "env" <=> k \in inv.env \ inv.cli
                    /\ flag[k] = "section" =>
                         Readable /\ [in |-> inv.cmd, key |-> k, val |-> "value"] \in inv.config
                    /\ flag[k] = "top" =>
                         /\ Readable /\ [in |-> "top", key |-> k, val |-> "value"] \in inv.config
                         /\ ~Says(inv.cmd, k)
                    /\ flag[k] = "default" => \A v \in {"value", "bad"} :
                         Readable => /\ [in |-> inv.cmd, key |-> k, val |-> v] \notin inv.config
                                     /\ [in |-> "top", key |-> k, val |-> v] \in inv.config
                                          => Says(inv.cmd, k)
  BY DEF Precedence
<1>1. inv \in Invocations /\ inv.cmd \in Sections /\ inv.config \subseteq Entry
  BY InvocationAssumption DEF ConfigInv
<1>2. FlagRight(k) BY DEF ConfigInv, Loaded, Begun
<1>3. CASE ~Readable BY <1>2, <1>3 DEF FlagRight
<1>4. CASE Readable
  <2>1. /\ loaded = inv.config /\ pending = {}
        /\ k \notin inv.cli \cup inv.env /\ k \in Keys(Merged(inv.config)) => EntryOf(k).val # "bad"
    BY <1>4 DEF ConfigInv, Loaded, Begun
  <2>2. k \notin Sections BY <1>1, SectionNames
  <2> DEFINE e == EntryOf(k)
             In == k \in Keys(Merged(inv.config))
  <2>3. /\ In => /\ e \in inv.config /\ e.key = k
                 /\ \/ e.in = inv.cmd
                    \/ e.in = "top" /\ ~Says(inv.cmd, k)
        /\ \A d \in inv.config : d.key = k =>
             /\ d.in = inv.cmd => In /\ e = d
             /\ d.in = "top" /\ ~Says(inv.cmd, k) => In /\ e = d
    BY <1>1, <1>4, <2>1, <2>2, EntryOfKey DEF Says
  <2>4. In => e = [in |-> e.in, key |-> k, val |-> e.val] BY <1>1, <2>3 DEF Entry
  <2>5. inv.cmd # "top" BY <1>1, SectionNames
  <2>6. flag[k] = IF k \in inv.cli THEN "cli" ELSE IF k \in inv.env THEN "env"
                  ELSE IF In /\ e.val = "value"
                  THEN IF e.in = "top" THEN "top" ELSE "section" ELSE "default"
    BY <1>2, <1>4, <2>1 DEF FlagRight
  <2> HIDE DEF e, In
  <2>7. flag[k] = "section" \/ flag[k] = "top" =>
          In /\ e.val = "value" /\ (flag[k] = "top" <=> e.in = "top")
    BY <2>6
  <2>8. ASSUME flag[k] = "default", NEW v \in {"value", "bad"}
        PROVE  /\ [in |-> inv.cmd, key |-> k, val |-> v] \notin inv.config
               /\ [in |-> "top", key |-> k, val |-> v] \in inv.config => Says(inv.cmd, k)
    <3>1. ~(In /\ e.val \in {"value", "bad"}) BY <2>8, <2>6, <2>1 DEF In, e
    <3>2. [in |-> inv.cmd, key |-> k, val |-> v] \notin inv.config BY <2>3, <3>1
    <3>3. [in |-> "top", key |-> k, val |-> v] \in inv.config => Says(inv.cmd, k)
      BY <2>3, <3>1
    <3> QED BY <3>2, <3>3
  <2>9. flag[k] = "section" => [in |-> inv.cmd, key |-> k, val |-> "value"] \in inv.config
    BY <2>3, <2>4, <2>7
  <2>10. flag[k] = "top" =>
           [in |-> "top", key |-> k, val |-> "value"] \in inv.config /\ ~Says(inv.cmd, k)
    BY <2>3, <2>4, <2>5, <2>7
  <2> QED BY <1>4, <2>6, <2>8, <2>9, <2>10
<1> QED BY <1>3, <1>4

\* For every set of invocations: each flag of a command that runs has its value from
\* the first source that speaks of it, in whatever order ApplyConfigToContext ranged.
THEOREM PrecedenceCorrect == Spec => []Precedence
<1>1. Init => ConfigInv BY ConfigInitial DEF Init
<1> QED BY <1>1, ConfigInvStep, PrecedenceHolds, PTL DEF Spec

\* For every set of invocations: with a mistake anywhere in the file, or without the file
\* that was asked for, no command begins.
THEOREM MistakeCorrect == Spec => []MistakeStopsAll
<1>1. Init => ConfigInv BY ConfigInitial DEF Init
<1>2. ConfigInv => MistakeStopsAll
  <2> SUFFICES ASSUME ConfigInv, Begun
               PROVE  /\ inv.explicit => Readable
                      /\ inv.file # "broken"
                      /\ Readable => \A e \in inv.config :
                           \/ e.in \in Sections /\ e.key \in commandFlags[e.in]
                           \/ e.in = "top" /\ e.key \in commonKeys \cup {"config"}
                           \/ e.in = "top" /\ e.key \in Sections /\ e.val = "null"
    BY DEF MistakeStopsAll
  <2>1. Loaded BY DEF Loaded, Begun
  <2>2. inv.file = "broken" => ~Readable BY DEF Readable
  <2>3. Readable => \A e \in inv.config : ValidEntry(e) BY <2>1 DEF ConfigInv
  <2> QED BY <2>1, <2>2, <2>3 DEF ConfigInv, ValidEntry, globalValidKeys
<1> QED BY <1>1, <1>2, ConfigInvStep, PTL DEF Spec

-----------------------------------------------------------------------------
(* The arguments                                                           *)

\* What resolveClientURLs and replay found when they let their command begin; the
\* flags they looked at are the same ever after.
ArgumentInv ==
  /\ pc \in Sections => pc = inv.cmd
  /\ pc = "receiving" =>
       /\ inv.cmd = "client" /\ Enough
       /\ arg = [k \in Positional |->
                   IF k \in {"smee-url", "target-url"} THEN ClientURL(k) ELSE "none"]
       /\ noReplay => Given("noReplay") \/ inv.args = 1 \/ ClientURL("target-url") = "none"
       /\ ~noReplay => ClientURL("target-url") # "none"
  /\ pc = "replaying" =>
       /\ inv.cmd = "replay"
       /\ arg["org-repo"] = Org /\ arg["hook-id"] = Hook /\ arg["smee-url"] = "none"
       /\ arg["target-url"] = ReplayTarget

LEMMA ArgumentKeeps == ConfigInv /\ ArgumentInv /\ [Next]_vars => ArgumentInv'
<1> SUFFICES ASSUME ConfigInv, ArgumentInv, [Next]_vars PROVE ArgumentInv'
  OBVIOUS
<1>0. inv.cmd \in Sections /\ Sections = {"client", "replay", "server", "keygen"}
  BY InvocationAssumption, SectionNames DEF ConfigInv
<1>1. ASSUME pc' \notin {"receiving", "replaying"}, inv' = inv,
             pc' \in Sections => pc' = inv.cmd
      PROVE  ArgumentInv'
  BY <1>1 DEF ArgumentInv
<1>2. ASSUME UNCHANGED <<inv, loaded, flag>>
      PROVE  /\ \A k : Given(k)' <=> Given(k)
             /\ \A k : ClientURL(k)' = ClientURL(k)
             /\ Enough' <=> Enough
             /\ Org' = Org /\ Hook' = Hook /\ ReplayTarget' = ReplayTarget
  BY <1>2 DEF Given, ClientURL, Enough, Org, Hook, ReplayTarget, FirstOf, FromEnv, GetConfigString, ByArgument,
              EntryOf, Merged, Keys
<1>3. CASE UNCHANGED <<inv, loaded, flag, pc, arg, noReplay>>
  BY <1>2, <1>3 DEF ArgumentInv
<1>4. CASE UNCHANGED vars
  BY <1>3, <1>4 DEF vars, configVars, argumentVars
<1>5. CASE ConfigStep /\ UNCHANGED <<argumentVars, readerVars, admissionVars>>
  <2>1. CASE pc' = pc /\ UNCHANGED <<inv, arg, noReplay>> /\ pc \in {"load", "apply"}
    BY <2>1, <1>0, <1>1
  <2>2. /\ pc \in {"load", "apply"} /\ inv' = inv
        /\ pc' \in {"load", "apply", "failed", inv.cmd}
    BY <1>5 DEF ConfigStep, NoConfig, BadConfig, LoadConfig, Applied, Skip, Set, SetFails
  <2> QED BY <2>2, <1>0, <1>1
<1>6. CASE (ReaderStep \/ AdmissionStep) /\ UNCHANGED argumentVars
  <2>1. CASE UNCHANGED configVars
    BY <2>1, <1>3, <1>6 DEF configVars, argumentVars
  <2>2. CASE ServeFails \/ Serves
    BY <2>2, <1>0, <1>1 DEF ServeFails, Serves
  <2> QED BY <1>6, <2>1, <2>2
          DEF ReaderStep, Subscribes, ShowsPage, HandsOut, TurnsAway, Answers, Answered,
              AdmissionStep, Arrives, PassAddress, RefuseAddress, Check, Refuse,
              PublishPayload, Returns
<1>7. CASE LoggerFails \/ NewURL \/ ClientRefuses \/ Lists \/ ReplayRefuses \/ Keygen
  <2>1. pc' \in {"done", "failed"} /\ inv' = inv
    BY <1>7 DEF LoggerFails, NewURL, ClientRefuses, Lists, ReplayRefuses, Keygen
  <2> QED BY <2>1, <1>0, <1>1
<1>8. CASE ClientStarts
  <2>1. /\ pc = "client" /\ Enough /\ UNCHANGED <<inv, loaded, flag>> /\ pc' = "receiving"
        /\ arg' = [k \in Positional |->
                     IF k \in {"smee-url", "target-url"} THEN ClientURL(k) ELSE "none"]
        /\ noReplay' <=> \/ Given("noReplay") \/ inv.args = 1
                         \/ ClientURL("target-url") = "none"
    BY <1>8 DEF ClientStarts
  <2>2. inv.cmd = "client" BY <2>1, <1>0 DEF ArgumentInv
  <2> QED BY <2>1, <2>2, <1>0, <1>2 DEF ArgumentInv
<1>9. CASE ReplayStarts
  <2>1. /\ pc = "replay" /\ UNCHANGED <<inv, loaded, flag>> /\ pc' = "replaying"
        /\ arg'["org-repo"] = Org /\ arg'["hook-id"] = Hook /\ arg'["smee-url"] = "none"
        /\ arg'["target-url"] = ReplayTarget
    BY <1>9 DEF ReplayStarts, Known, Positional
  <2>2. inv.cmd = "replay" BY <2>1, <1>0 DEF ArgumentInv
  <2> QED BY <2>1, <2>2, <1>0, <1>2 DEF ArgumentInv
<1> QED BY <1>4, <1>5, <1>6, <1>7, <1>8, <1>9 DEF Next, ArgumentStep

LEMMA ArgumentInvariant == Spec => [](ConfigInv /\ ArgumentInv)
<1>1. Init => ConfigInv BY ConfigInitial DEF Init
<1>2. Init => ArgumentInv BY SectionNames DEF Init, ConfigInit, ArgumentInv
<1> QED BY <1>1, <1>2, ConfigInvStep, ArgumentKeeps, PTL DEF Spec

\* What the configuration says of an argument, it says in the section of the command,
\* and what it says there is found.
LEMMA ConfigString ==
  ASSUME ConfigInv, Begun, NEW k \in Positional
  PROVE  LET v == GetConfigString(k)
         IN  /\ v \notin {"cli", "env"}
             /\ v = "none" => ~Says(inv.cmd, k)
             /\ v # "none" =>
                  /\ Readable
                  /\ [in |-> inv.cmd, key |-> k,
                      val |-> IF v = "section" THEN "value" ELSE v] \in inv.config
<1>1. inv \in Invocations /\ inv.cmd \in Sections /\ inv.config \subseteq Entry
  BY InvocationAssumption DEF ConfigInv
<1>2. CASE ~Readable
  <2>1. loaded = {} BY <1>2 DEF ConfigInv, Loaded, Begun
  <2>2. GetConfigString(k) = "none" BY <2>1 DEF GetConfigString, Keys, Merged
  <2> QED BY <2>2, <1>2 DEF Says
<1>3. CASE Readable
  <2>1. loaded = inv.config /\ \A e \in inv.config : ValidEntry(e)
    BY <1>3 DEF ConfigInv, Loaded, Begun
  <2>2. CASE k \in Keys(Merged(inv.config))
    <3> DEFINE e == EntryOf(k)
    <3>1. e \in inv.config /\ e.key = k /\ (e.in = inv.cmd \/ e.in = "top")
      BY <2>1, <2>2, <1>1, EntryOfKey
    <3>2. k \notin globalValidKeys
      BY SectionNames DEF Positional, globalValidKeys, commonKeys
    <3>3. e.in = inv.cmd /\ e.in # "top" /\ e.val \in {"value", "bad", "null"}
      BY <3>1, <3>2, <2>1, <1>1, SectionNames DEF ValidEntry, Entry
    <3>4. e = [in |-> inv.cmd, key |-> k, val |-> e.val] BY <3>1, <3>3, <1>1 DEF Entry
    <3>5. GetConfigString(k) = IF e.val = "value" THEN "section" ELSE e.val
      BY <3>3, <2>1, <2>2 DEF GetConfigString
    <3> HIDE DEF e
    <3> QED BY <3>1, <3>3, <3>4, <3>5, <1>3
  <2>3. CASE k \notin Keys(Merged(inv.config))
    <3>1. GetConfigString(k) = "none" BY <2>1, <2>3 DEF GetConfigString
    <3>2. k \notin Sections BY <1>1, SectionNames DEF Positional
    <3>3. \A e \in inv.config : ~(e.in = inv.cmd /\ e.key = k)
      BY <2>1, <2>3, <3>2, <1>1, EntryOfKey
    <3> QED BY <3>1, <3>3 DEF Says
  <2> QED BY <2>2, <2>3
<1> QED BY <1>2, <1>3

\* The places of the arguments, counted out.
LEMMA TypedPlaces ==
  ASSUME ConfigInv, NEW k \in Positional
  PROVE  /\ inv.cmd = "client" =>
              (Typed(k) <=> \/ k = "smee-url" /\ inv.args >= 1
                            \/ k = "target-url" /\ inv.args >= 2)
         /\ inv.cmd = "replay" =>
              (Typed(k) <=> \/ k = "org-repo" /\ inv.args >= 1
                            \/ k = "hook-id" /\ inv.args >= 2
                            \/ k = "target-url" /\ inv.args >= 3)
<1>1. inv.args \in 0..3 BY InvocationAssumption DEF ConfigInv
<1>2. Typed(k) <=> \/ inv.cmd = "client" /\ k = "smee-url" /\ inv.args >= 1
                   \/ inv.cmd = "client" /\ k = "target-url" /\ inv.args >= 2
                   \/ inv.cmd = "replay" /\ k = "org-repo" /\ inv.args >= 1
                   \/ inv.cmd = "replay" /\ k = "hook-id" /\ inv.args >= 2
                   \/ inv.cmd = "replay" /\ k = "target-url" /\ inv.args >= 3
  BY <1>1 DEF Typed, ArgumentPlaces
<1> QED BY <1>2

\* For every set of invocations: what a client receives from and posts to, and what a
\* replay replays and where, is from the first of arguments, environment and the
\* command's section that speaks of it, with the environment first for a replay's target.
THEOREM ArgumentsCorrect == Spec => []ArgumentPrecedence
<1>1. ConfigInv /\ ArgumentInv => ArgumentPrecedence
  <2> SUFFICES ASSUME ConfigInv, ArgumentInv, Working,
                      NEW k \in Positional \cap commandFlags[inv.cmd]
               PROVE  /\ arg[k] = "cli" <=> Typed(k) /\ ~(EnvironmentFirst(k) /\ k \in inv.urls)
                      /\ arg[k] = "env" <=> k \in inv.urls /\ (EnvironmentFirst(k) \/ ~Typed(k))
                      /\ arg[k] = "none" => ~Says(inv.cmd, k)
                      /\ arg[k] \notin {"cli", "env", "none"} =>
                           /\ Readable
                           /\ [in |-> inv.cmd, key |-> k,
                               val |-> IF arg[k] = "section" THEN "value" ELSE arg[k]] \in inv.config
    BY DEF ArgumentPrecedence
  <2> DEFINE v == GetConfigString(k)
             Speaks == [in |-> inv.cmd, key |-> k, val |-> IF v = "section" THEN "value" ELSE v]
                         \in inv.config
  <2>1. /\ v \notin {"cli", "env"}
        /\ v = "none" => ~Says(inv.cmd, k)
        /\ v # "none" => Readable /\ Speaks
    BY ConfigString DEF Working, Begun
  <2>2. inv.urls \subseteq {"smee-url", "target-url"} /\ inv.args \in 0..3
    BY InvocationAssumption DEF ConfigInv
  \* What has to be shown, once the choice among the three is known.
  <2>3. ASSUME arg[k] = IF Typed(k) /\ ~(EnvironmentFirst(k) /\ k \in inv.urls) THEN "cli"
                        ELSE IF k \in inv.urls THEN "env" ELSE v
        PROVE  /\ arg[k] = "cli" <=> Typed(k) /\ ~(EnvironmentFirst(k) /\ k \in inv.urls)
               /\ arg[k] = "env" <=> k \in inv.urls /\ (EnvironmentFirst(k) \/ ~Typed(k))
               /\ arg[k] = "none" => ~Says(inv.cmd, k)
               /\ arg[k] \notin {"cli", "env", "none"} =>
                    /\ Readable
                    /\ [in |-> inv.cmd, key |-> k,
                        val |-> IF arg[k] = "section" THEN "value" ELSE arg[k]] \in inv.config
    <3> HIDE DEF v
    <3> QED BY <2>1, <2>3
  <2>4. CASE pc = "receiving"
    <3>1. inv.cmd = "client" /\ Enough BY <2>4 DEF ArgumentInv
    <3>2. k \in {"smee-url", "target-url"}
      BY <3>1 DEF commandFlags, commonKeys, Positional
    <3>3. arg[k] = ClientURL(k) BY <2>4, <3>2 DEF ArgumentInv
    <3>4. ByArgument(k) <=> Typed(k)
      BY <2>2, <3>1, <3>2, TypedPlaces DEF ByArgument, Enough
    <3>5. ~EnvironmentFirst(k) BY <3>1 DEF EnvironmentFirst
    <3>6. arg[k] = IF Typed(k) THEN "cli" ELSE IF k \in inv.urls THEN "env" ELSE v
      BY <3>3, <3>4 DEF ClientURL, FirstOf, FromEnv
    <3> QED BY <2>3, <3>5, <3>6
  <2>5. CASE pc = "replaying"
    <3>1. inv.cmd = "replay" BY <2>5 DEF ArgumentInv
    <3>2. k \in {"org-repo", "hook-id", "target-url"}
      BY <3>1 DEF commandFlags, commonKeys, Positional
    <3>3. CASE k = "org-repo"
      <4>1. arg[k] = Org /\ ~EnvironmentFirst(k) /\ k \notin inv.urls
        BY <2>2, <2>5, <3>3 DEF ArgumentInv, EnvironmentFirst
      <4>2. Typed(k) <=> inv.args >= 1 BY <3>1, <3>3, TypedPlaces
      <4> QED BY <2>3, <4>1, <4>2, <3>3 DEF Org, FirstOf
    <3>4. CASE k = "hook-id"
      <4>1. arg[k] = Hook /\ ~EnvironmentFirst(k) /\ k \notin inv.urls
        BY <2>2, <2>5, <3>4 DEF ArgumentInv, EnvironmentFirst
      <4>2. Typed(k) <=> inv.args >= 2 BY <3>1, <3>4, TypedPlaces
      <4> QED BY <2>3, <4>1, <4>2, <3>4 DEF Hook, FirstOf
    <3>5. CASE k = "target-url"
      <4>1. arg[k] = ReplayTarget /\ EnvironmentFirst(k)
        BY <2>5, <3>1, <3>5 DEF ArgumentInv, EnvironmentFirst
      <4>2. Typed(k) <=> inv.args = 3 BY <2>2, <3>1, <3>5, TypedPlaces
      <4>3. arg[k] = IF k \in inv.urls THEN "env" ELSE IF inv.args = 3 THEN "cli" ELSE v
        BY <4>1, <3>5 DEF ReplayTarget, FirstOf, FromEnv
      <4> QED BY <2>3, <4>1, <4>2, <4>3
    <3> QED BY <3>2, <3>3, <3>4, <3>5
  <2> QED BY <2>4, <2>5 DEF Working
<1> QED BY <1>1, ArgumentInvariant, PTL

\* For every set of invocations: a client that begins has a source, a target if it
\* posts, and a reason not to if it does not.
THEOREM ClientsHaveWork == Spec => []ClientHasWork
<1>1. ConfigInv /\ ArgumentInv => ClientHasWork
  <2> SUFFICES ASSUME ConfigInv, ArgumentInv, pc = "receiving"
               PROVE  /\ arg["smee-url"] # "none"
                      /\ noReplay \/ arg["target-url"] # "none"
                      /\ noReplay => "exec" \in inv.cli \cup inv.env \/ Says("client", "exec")
                                       \/ Says("top", "exec") \/ Given("noReplay")
    BY DEF ClientHasWork
  <2>1. /\ inv.cmd = "client" /\ Enough
        /\ arg["smee-url"] = ClientURL("smee-url") /\ arg["target-url"] = ClientURL("target-url")
        /\ noReplay => Given("noReplay") \/ inv.args = 1 \/ ClientURL("target-url") = "none"
        /\ ~noReplay => ClientURL("target-url") # "none"
    BY DEF ArgumentInv, Positional
  <2>2. noReplay => Given("noReplay") \/ Given("exec") BY <2>1 DEF Enough
  <2>3. ASSUME Given("exec")
        PROVE  "exec" \in inv.cli \cup inv.env \/ Says("client", "exec") \/ Says("top", "exec")
    <3>1. "exec" \in FlagsOf(inv.cmd)
      BY <2>1 DEF FlagsOf, commandFlags, commonKeys, Positional
    <3>2. flag["exec"] \in Sources BY <3>1 DEF ConfigInv
    <3>3. /\ flag["exec"] = "cli" => "exec" \in inv.cli
          /\ flag["exec"] = "env" => "exec" \in inv.env
          /\ flag["exec"] = "section" =>
               Readable /\ [in |-> inv.cmd, key |-> "exec", val |-> "value"] \in inv.config
          /\ flag["exec"] = "top" =>
               Readable /\ [in |-> "top", key |-> "exec", val |-> "value"] \in inv.config
      BY <3>1, PrecedenceHolds DEF Precedence, Begun
    <3> QED BY <3>2, <3>3, <2>3, <2>1 DEF Given, Sources, Says
  <2> QED BY <2>1, <2>2, <2>3 DEF Enough
<1> QED BY <1>1, ArgumentInvariant, PTL

-----------------------------------------------------------------------------
(* The server                                                              *)

\* A value that is not there by default was given where it counts.
LEMMA GivenIsAsked ==
  ASSUME ConfigInv, Begun, inv.cmd = "server",
         NEW k \in FlagsOf("server") \ globalValidKeys
  PROVE  Given(k) <=> Asked(k)
<1>1. Precedence BY PrecedenceHolds
<1>2. flag[k] \in Sources BY DEF ConfigInv
<1>3. flag[k] = "top" => Readable /\ [in |-> "top", key |-> k, val |-> "value"] \in inv.config
  BY <1>1 DEF Precedence
<1>4. Readable => \A e \in inv.config : ValidEntry(e)
  BY DEF ConfigInv, Loaded, Begun
<1>5. flag[k] # "top"
  <2>1. ~ValidEntry([in |-> "top", key |-> k, val |-> "value"])
    BY SectionNames DEF ValidEntry
  <2> QED BY <2>1, <1>3, <1>4
<1>6. /\ flag[k] = "cli" <=> k \in inv.cli
      /\ flag[k] = "env" <=> k \in inv.env \ inv.cli
      /\ flag[k] = "section" =>
           Readable /\ [in |-> "server", key |-> k, val |-> "value"] \in inv.config
      /\ flag[k] = "default" =>
           (Readable => [in |-> "server", key |-> k, val |-> "value"] \notin inv.config)
  BY <1>1 DEF Precedence
<1> QED BY <1>2, <1>5, <1>6 DEF Given, Asked, Sources

\* The options that decide who is let in are the server's own.
LEMMA ServerOnly ==
  \A k \in {"webhook-signature", "replay-token", "allowed-ips", "trust-proxy",
            "encrypted-channels-file"} :
    k \in FlagsOf("server") \ globalValidKeys
  BY SectionNames DEF FlagsOf, commandFlags, Positional, globalValidKeys, commonKeys

\* A request that got somewhere passed what comes before, by a server that runs.
AdmissionInv ==
  /\ pc \in Sections => pc = inv.cmd
  /\ pc = "serving" => inv.cmd = "server"
  /\ stage # "none" => pc = "serving" /\ request \in Requests
  /\ stage \in {"none", "arrived", "passed", "valid", "answered"}
  /\ published \in Nat
  /\ stage # "answered" => published = 0 /\ status = "none"
  /\ stage \in {"passed", "valid"} \/ published > 0 => AddressAllowed(request)
  /\ stage = "valid" \/ published > 0 => Valid(request)
  /\ status = "refused" =>
       published = 0 /\ ~(AddressAllowed(request) /\ Valid(request))

LEMMA AdmissionInitial == Init => AdmissionInv
<1> SUFFICES ASSUME Init PROVE AdmissionInv OBVIOUS
<1>1. pc = "load" /\ stage = "none" /\ published = 0 /\ status = "none"
  BY DEF Init, ConfigInit, AdmissionInit
<1>2. "load" \notin Sections BY SectionNames
<1> QED BY <1>1, <1>2 DEF AdmissionInv

LEMMA AdmissionStepKeeps == ConfigInv /\ AdmissionInv /\ [Next]_vars => AdmissionInv'
<1> SUFFICES ASSUME ConfigInv, AdmissionInv, [Next]_vars PROVE AdmissionInv'
  OBVIOUS
<1>0. inv.cmd \in Sections /\ Sections = {"client", "replay", "server", "keygen"}
  BY InvocationAssumption, SectionNames DEF ConfigInv
<1>1. CASE UNCHANGED vars
  BY <1>1 DEF vars, configVars, admissionVars, AdmissionInv, AddressAllowed,
              Valid, SignatureValid, TokenValid, Given, ClientIP, Present
\* The process is not a server yet.
<1>2. ASSUME UNCHANGED admissionVars, inv' = inv, pc # "serving",
             pc' # "serving" \/ (inv.cmd = "server" /\ stage = "none"),
             pc' \in Sections => pc' = inv.cmd
      PROVE  AdmissionInv'
  <2>1. stage = "none" /\ published = 0 /\ status = "none" BY <1>2 DEF AdmissionInv
  <2>2. stage' = "none" /\ published' = 0 /\ status' = "none" BY <2>1, <1>2 DEF admissionVars
  <2> QED BY <2>2, <1>2 DEF AdmissionInv
<1>3. CASE ConfigStep /\ UNCHANGED <<argumentVars, readerVars, admissionVars>>
  <2>1. /\ pc \in {"load", "apply"} /\ inv' = inv
        /\ pc' \in {"load", "apply", "failed", inv.cmd}
    BY <1>3 DEF ConfigStep, NoConfig, BadConfig, LoadConfig, Applied, Skip, Set, SetFails
  <2> QED BY <2>1, <1>0, <1>2, <1>3
<1>4. CASE ArgumentStep /\ UNCHANGED <<readerVars, admissionVars>>
  <2>1. /\ pc \in Sections /\ inv' = inv
        /\ pc' \in {"done", "failed", "receiving", "replaying"}
    BY <1>0, <1>4 DEF ArgumentStep, LoggerFails, NewURL, ClientRefuses, ClientStarts, Lists,
                      Known, ReplayRefuses, ReplayStarts, Keygen
  <2> QED BY <2>1, <1>0, <1>2, <1>4
<1>5. CASE (ServeFails \/ Serves) /\ UNCHANGED <<argumentVars, admissionVars>>
  <2>1. /\ pc = "server" /\ pc' \in {"failed", "serving"} /\ inv' = inv
    BY <1>5 DEF ServeFails, Serves
  <2>2. inv.cmd = "server" /\ stage = "none" BY <2>1, <1>0 DEF AdmissionInv
  <2> QED BY <2>1, <2>2, <1>0, <1>2, <1>5
<1>6. ASSUME UNCHANGED configVars
      PROVE  /\ pc' = pc /\ inv' = inv
             /\ \A k : Given(k)' <=> Given(k)
             /\ \A r : AddressAllowed(r)' <=> AddressAllowed(r)
             /\ \A r : Valid(r)' <=> Valid(r)
  BY <1>6 DEF configVars, Given, AddressAllowed, ClientIP, Valid, SignatureValid, TokenValid,
              Present
<1>7. ASSUME NEW r \in Requests, Arrives(r) PROVE AdmissionInv'
  BY <1>7, <1>6 DEF Arrives, AdmissionInv
<1>8. CASE PassAddress BY <1>8, <1>6 DEF PassAddress, AdmissionInv
<1>9. CASE RefuseAddress BY <1>9, <1>6 DEF RefuseAddress, Answer, AdmissionInv
<1>10. CASE Check BY <1>10, <1>6 DEF Check, AdmissionInv
<1>11. CASE Refuse BY <1>11, <1>6 DEF Refuse, Answer, AdmissionInv
<1>12. CASE PublishPayload BY <1>12, <1>6 DEF PublishPayload, Answer, AdmissionInv
<1>13. CASE Returns BY <1>13, <1>6 DEF Returns, AdmissionInv
\* Who reads does not touch what is posted.
<1>14. CASE UNCHANGED <<configVars, admissionVars>>
  BY <1>14, <1>6 DEF admissionVars, AdmissionInv
<1>15. CASE ReaderStep /\ UNCHANGED <<argumentVars, admissionVars>>
  BY <1>5, <1>14, <1>15 DEF ReaderStep, Subscribes, ShowsPage, HandsOut, TurnsAway, Answers, Answered
<1> QED BY <1>1, <1>3, <1>4, <1>7, <1>8, <1>9, <1>10, <1>11, <1>12, <1>13, <1>15
        DEF Next, AdmissionStep

LEMMA StartupInvariant == Spec => [](ConfigInv /\ AdmissionInv)
<1>1. Init => ConfigInv BY ConfigInitial DEF Init
<1> QED BY <1>1, ConfigInvStep, AdmissionInitial, AdmissionStepKeeps, PTL DEF Spec

\* For any secrets, tokens, addresses and requests, and wherever the options came from:
\* what reaches the relay was signed, carried the token and came from an allowed address.
THEOREM GenuineOnly == Spec => []OnlyGenuine
<1>1. ConfigInv /\ AdmissionInv => OnlyGenuine
  <2> SUFFICES ASSUME ConfigInv, AdmissionInv, published > 0
               PROVE  /\ request.to = "webhook" /\ Asked("webhook-signature") =>
                           \E h \in Headers : request.signed[h] \in Secrets[flag["webhook-signature"]]
                      /\ request.to = "replay" /\ Asked("replay-token") =>
                           request.bearer = flag["replay-token"]
                      /\ Asked("allowed-ips") =>
                           \/ request.peer \in Allowed[flag["allowed-ips"]]
                           \/ /\ Asked("trust-proxy")
                              /\ {request.forwarded, request.realIP}
                                   \cap Allowed[flag["allowed-ips"]] # {}
    BY DEF OnlyGenuine
  <2>1. pc = "serving" /\ inv.cmd = "server" /\ AddressAllowed(request) /\ Valid(request)
    BY DEF AdmissionInv
  <2>2. Begun BY <2>1 DEF Begun
  <2>3. \A k \in {"webhook-signature", "replay-token", "allowed-ips", "trust-proxy"} :
          Given(k) <=> Asked(k)
    BY <2>1, <2>2, GivenIsAsked, ServerOnly
  <2>4. request.to = "webhook" /\ Given("webhook-signature") =>
          \E h \in Headers : request.signed[h] \in Secrets[flag["webhook-signature"]]
    BY <2>1 DEF Valid, SignatureValid, Present
  <2>5. request.to = "replay" /\ Given("replay-token") => request.bearer = flag["replay-token"]
    BY <2>1 DEF Valid, TokenValid
  <2>6. Given("allowed-ips") =>
          \/ request.peer \in Allowed[flag["allowed-ips"]]
          \/ Given("trust-proxy") /\ request.forwarded \in Allowed[flag["allowed-ips"]]
          \/ Given("trust-proxy") /\ request.realIP \in Allowed[flag["allowed-ips"]]
    BY <2>1 DEF AddressAllowed, ClientIP
  <2> QED BY <2>3, <2>4, <2>5, <2>6
<1> QED BY <1>1, StartupInvariant, PTL

\* For any secrets, addresses and requests: a webhook all of whose signatures are
\* right, from an allowed client, is not turned away.
THEOREM GenuineNotRefused == Spec => []GenuineTaken
<1>1. ConfigInv /\ AdmissionInv => GenuineTaken
  <2> SUFFICES ASSUME ConfigInv, AdmissionInv, status = "refused",
                      request.to = "webhook", request.typed, request.body = "json",
                      Given("webhook-signature") =>
                        /\ Present(request) # {}
                        /\ \A h \in Present(request) :
                             request.signed[h] \in Secrets[flag["webhook-signature"]],
                      Given("allowed-ips") =>
                        (IF ~Given("trust-proxy") THEN request.peer
                         ELSE IF request.forwarded # "none" THEN request.forwarded
                         ELSE IF request.realIP # "none" THEN request.realIP
                         ELSE request.peer) \in Allowed[flag["allowed-ips"]]
               PROVE  FALSE
    BY DEF GenuineTaken
  <2>1. /\ ~(AddressAllowed(request) /\ Valid(request)) /\ pc = "serving"
        /\ inv.cmd = "server" /\ request \in Requests
    BY DEF AdmissionInv
  <2>2. Begun BY <2>1 DEF Begun
  <2>3. flag["allowed-ips"] \in Sources BY <2>1, ServerOnly DEF ConfigInv
  <2>4. Allowed[flag["allowed-ips"]] \subseteq Addresses /\ "none" \notin Addresses
    BY <2>3, AdmissionAssumption
  <2>5. AddressAllowed(request) BY <2>4 DEF AddressAllowed, ClientIP
  <2>6. SignatureValid(request)
    <3>1. Present(request) \subseteq 1..4 BY DEF Present, Headers
    <3>2. ASSUME Present(request) # {}
          PROVE  \E h \in Present(request) : \A g \in Present(request) : h <= g
      <4>1. CASE 1 \in Present(request) BY <4>1, <3>1
      <4>2. CASE 1 \notin Present(request) /\ 2 \in Present(request) BY <4>2, <3>1
      <4>3. CASE 1 \notin Present(request) /\ 2 \notin Present(request)
        BY <4>3, <3>1, <3>2
      <4> QED BY <4>1, <4>2, <4>3
    <3> QED BY <3>2 DEF SignatureValid
  <2> QED BY <2>1, <2>5, <2>6 DEF Valid
<1> QED BY <1>1, StartupInvariant, PTL

-----------------------------------------------------------------------------
(* The readers                                                             *)

\* What was loaded is what the file says, each text turned into its key; every answer
\* was given by it.
ReadersInv ==
  /\ ReadersTypeOK
  /\ protected = LoadProtectedChannels(listed)
  /\ \A c \in DOMAIN listed : \A t \in listed[c] : t \in KeyTexts /\ KeyOf[t] # "bad"
  /\ pc \in Sections => pc = inv.cmd
  /\ pc = "serving" =>
       inv.cmd = "server" /\ (Given("encrypted-channels-file") => DOMAIN listed # {})
  /\ answer # "none" => pc = "serving"
  /\ answer = "stream" /\ reader.channel \in DOMAIN listed => Opens(reader)
  /\ answer \in {"page", "url"} => reader.channel \notin DOMAIN listed
  /\ answer = "refused" /\ reader.channel \in Channels =>
       /\ reader.channel \in DOMAIN listed
       /\ reader.to = "events" => ~Opens(reader)

LEMMA ReadersInitial == Init => ReadersInv
<1> SUFFICES ASSUME Init PROVE ReadersInv OBVIOUS
<1>1. /\ pc = "load" /\ "load" \notin Sections /\ "none" \in KeyTexts
      /\ protected = Nobody /\ listed = Nobody /\ reader = NoReader /\ answer = "none"
  BY SectionNames, ChannelsAssumption DEF Init, ConfigInit, ReadersInit
<1>2. DOMAIN Nobody = {} /\ LoadProtectedChannels(Nobody) = Nobody
  BY DEF Nobody, LoadProtectedChannels
<1> QED BY <1>1, <1>2 DEF ReadersInv, ReadersTypeOK, NoReader

\* What serve makes of a file it accepts.
LEMMA FileLoaded ==
  ASSUME NEW file \in Files, WellFormed(file)
  PROVE  /\ DOMAIN LoadProtectedChannels(file.lists) = DOMAIN file.lists
         /\ DOMAIN file.lists # {} /\ DOMAIN file.lists \subseteq Channels
         /\ \A c \in DOMAIN file.lists :
              /\ LoadProtectedChannels(file.lists)[c] \subseteq {KeyOf[t] : t \in KeyTexts}
              /\ \A t \in file.lists[c] : t \in KeyTexts /\ KeyOf[t] # "bad"
<1>1. \A c \in DOMAIN file.lists : \A t \in file.lists[c] : t \in KeyTexts
  BY ChannelsAssumption DEF WellFormed
<1> QED BY <1>1 DEF WellFormed, LoadProtectedChannels

\* A key the server lets in is one the file lists in some text.
LEMMA AllowedIsListed ==
  ASSUME ReadersInv, NEW g, g.channel \in DOMAIN listed
  PROVE  Has(g.channel) /\ (IsAllowed(g.channel, KeyOf[g.pubkey]) <=> Opens(g))
<1>1. /\ DOMAIN protected = DOMAIN listed
      /\ protected[g.channel] = {KeyOf[t] : t \in listed[g.channel]}
      /\ \A t \in listed[g.channel] : KeyOf[t] # "bad"
  BY DEF ReadersInv, LoadProtectedChannels
<1> QED BY <1>1 DEF Has, IsAllowed, Opens

LEMMA ReadersKeep == ConfigInv /\ ReadersInv /\ [Next]_vars => ReadersInv'
<1> SUFFICES ASSUME ConfigInv, ReadersInv, [Next]_vars PROVE ReadersInv'
  OBVIOUS
<1>0. /\ inv.cmd \in Sections /\ Sections = {"client", "replay", "server", "keygen"}
      /\ ReadersTypeOK /\ DOMAIN protected = DOMAIN listed
  BY InvocationAssumption, SectionNames DEF ConfigInv, ReadersInv, ReadersTypeOK
\* A step that answers no reader.
<1>1. ASSUME UNCHANGED readerVars, inv' = inv, pc' \in Sections => pc' = inv.cmd,
             pc' = "serving" => pc = "serving" /\ flag' = flag,
             pc = "serving" => pc' = "serving"
      PROVE  ReadersInv'
  BY <1>1 DEF readerVars, ReadersInv, ReadersTypeOK, LoadProtectedChannels, Opens, Given
<1>2. CASE UNCHANGED <<configVars, readerVars>>
  BY <1>1, <1>2 DEF configVars, ReadersInv
<1>3. CASE UNCHANGED vars BY <1>2, <1>3 DEF vars
<1>4. CASE ConfigStep /\ UNCHANGED readerVars
  <2>1. /\ pc \in {"load", "apply"} /\ inv' = inv
        /\ pc' \in {"load", "apply", "failed", inv.cmd}
    BY <1>4 DEF ConfigStep, NoConfig, BadConfig, LoadConfig, Applied, Skip, Set, SetFails
  <2> QED BY <2>1, <1>0, <1>1, <1>4
<1>5. CASE ArgumentStep /\ UNCHANGED readerVars
  <2>1. /\ pc \in Sections /\ inv' = inv
        /\ pc' \in {"done", "failed", "receiving", "replaying"}
    BY <1>0, <1>5 DEF ArgumentStep, LoggerFails, NewURL, ClientRefuses, ClientStarts, Lists,
                      Known, ReplayRefuses, ReplayStarts, Keygen
  <2> QED BY <2>1, <1>0, <1>1, <1>5
<1>6. CASE AdmissionStep /\ UNCHANGED readerVars
  BY <1>2, <1>6 DEF AdmissionStep, Arrives, PassAddress, RefuseAddress, Check, Refuse,
                    PublishPayload, Returns
<1>7. CASE ServeFails
  BY <1>0, <1>1, <1>7 DEF ServeFails
<1>8. CASE Serves
  <2>1. /\ pc = "server" /\ pc' = "serving" /\ inv' = inv /\ flag' = flag
        /\ UNCHANGED <<reader, answer>> /\ protected' = LoadProtectedChannels(listed')
    BY <1>8 DEF Serves
  <2>2. inv.cmd = "server" BY <2>1, <1>0 DEF ReadersInv
  <2>3. answer = "none"
    BY <2>1 DEF ReadersInv
  <2>4. CASE Given("encrypted-channels-file")
    <3>1. PICK file \in Files : WellFormed(file) /\ listed' = file.lists
      BY <1>8, <2>4 DEF Serves
    <3>2. /\ DOMAIN protected' = DOMAIN listed' /\ DOMAIN listed' # {}
          /\ DOMAIN listed' \subseteq Channels
          /\ \A c \in DOMAIN listed' :
               /\ protected'[c] \subseteq {KeyOf[t] : t \in KeyTexts}
               /\ \A t \in listed'[c] : t \in KeyTexts /\ KeyOf[t] # "bad"
      BY <3>1, <2>1, FileLoaded
    <3>3. ReadersTypeOK'
      BY <3>2, <2>1, <1>0 DEF ReadersTypeOK
    <3>4. protected' = LoadProtectedChannels(listed)'
      BY <2>1 DEF LoadProtectedChannels
    <3> QED BY <1>0, <2>1, <2>2, <2>3, <3>2, <3>3, <3>4 DEF ReadersInv
  <2>5. CASE ~Given("encrypted-channels-file")
    <3>1. /\ DOMAIN protected' = DOMAIN listed' /\ DOMAIN listed' = {}
          /\ ~Given("encrypted-channels-file")'
      BY <1>8, <2>5, <2>1 DEF Serves, Nobody, LoadProtectedChannels, Given
    <3>2. ReadersTypeOK'
      BY <3>1, <2>1, <1>0 DEF ReadersTypeOK
    <3>3. protected' = LoadProtectedChannels(listed)'
      BY <2>1 DEF LoadProtectedChannels
    <3> QED BY <1>0, <2>1, <2>2, <2>3, <3>1, <3>2, <3>3 DEF ReadersInv
  <2> QED BY <2>4, <2>5
\* An answer that is true of the file keeps the invariant.
<1>9. ASSUME NEW g, NEW a \in {"stream", "page", "url", "refused"}, Answers(g, a),
             g.to \in {"new", "index", "events"}, g.channel \in Channels \cup {"bad"},
             g.pubkey \in KeyTexts,
             a = "stream" /\ g.channel \in DOMAIN listed => Opens(g),
             a \in {"page", "url"} => g.channel \notin DOMAIN listed,
             a = "refused" /\ g.channel \in Channels =>
               g.channel \in DOMAIN listed /\ (g.to = "events" => ~Opens(g))
      PROVE  ReadersInv'
  <2>1. /\ reader' = g /\ answer' = a /\ pc = "serving"
        /\ UNCHANGED <<inv, pc, flag, protected, listed>>
    BY <1>9 DEF Answers, configVars
  <2>2. ReadersTypeOK'
    BY <2>1, <1>0, <1>9 DEF ReadersTypeOK
  <2>3. Opens(reader)' <=> Opens(g)
    BY <2>1 DEF Opens
  <2>4. protected' = LoadProtectedChannels(listed)'
    BY <2>1 DEF ReadersInv, LoadProtectedChannels
  <2> QED BY <2>1, <2>2, <2>3, <2>4, <1>9 DEF ReadersInv, Given
<1>10. ASSUME NEW g \in Gets, Subscribes(g) \/ ShowsPage(g) \/ TurnsAway(g) PROVE ReadersInv'
  <2>1. /\ g.to \in {"new", "index", "events"} /\ g.channel \in Channels \cup {"bad"}
        /\ g.pubkey \in KeyTexts
    BY ChannelsAssumption
  <2>2. g.channel \in DOMAIN listed <=> Has(g.channel)
    BY <1>0 DEF Has
  <2>3. g.channel \in DOMAIN listed => (IsAllowed(g.channel, KeyOf[g.pubkey]) <=> Opens(g))
    BY AllowedIsListed
  <2>4. CASE Subscribes(g)
    BY <2>1, <2>2, <2>3, <2>4, <1>9 DEF Subscribes
  <2>5. CASE ShowsPage(g)
    BY <2>1, <2>2, <2>5, <1>9 DEF ShowsPage
  <2>6. CASE TurnsAway(g)
    BY <2>1, <2>2, <2>3, <2>6, <1>9 DEF TurnsAway
  <2> QED BY <1>10, <2>4, <2>5, <2>6
<1>11. ASSUME NEW g \in Gets, NEW c \in Channels, HandsOut(g, c) PROVE ReadersInv'
  <2> DEFINE u == [to |-> "new", channel |-> c, pubkey |-> g.pubkey]
  <2>1. Answers(u, "url") /\ c \notin DOMAIN listed
    BY <1>0, <1>11 DEF HandsOut, Has
  <2>2. u.to = "new" /\ u.channel = c /\ u.pubkey = g.pubkey /\ g.pubkey \in KeyTexts
    BY ChannelsAssumption
  <2> HIDE DEF u
  <2> QED BY <2>1, <2>2, <1>9
<1>12. CASE Answered
  <2>1. /\ reader' = NoReader /\ answer' = "none" /\ "none" \in KeyTexts
        /\ UNCHANGED <<inv, pc, flag, protected, listed>>
    BY <1>12, ChannelsAssumption DEF Answered, configVars
  <2>2. ReadersTypeOK'
    BY <2>1, <1>0 DEF ReadersTypeOK, NoReader
  <2>3. protected' = LoadProtectedChannels(listed)'
    BY <2>1 DEF ReadersInv, LoadProtectedChannels
  <2> QED BY <2>1, <2>2, <2>3 DEF ReadersInv, Given
<1>13. CASE ReaderStep
  BY <1>7, <1>8, <1>10, <1>11, <1>12, <1>13 DEF ReaderStep
<1> QED BY <1>3, <1>4, <1>5, <1>6, <1>13 DEF Next

LEMMA ReadersInvariant == Spec => [](ConfigInv /\ ReadersInv)
<1>1. Init => ConfigInv BY ConfigInitial DEF Init
<1> QED BY <1>1, ConfigInvStep, ReadersInitial, ReadersKeep, PTL DEF Spec

\* For any files, keys, texts of them and requests, and wherever the path came from: the
\* events of a channel in the file go to those the file names and to nobody else.
THEOREM ReadersCorrect == Spec => []ReadersAreNamed
<1>1. ConfigInv /\ ReadersInv => ReadersAreNamed
  <2> SUFFICES ASSUME ConfigInv, ReadersInv PROVE ReadersAreNamed
    OBVIOUS
  <2>1. pc = "serving" /\ Asked("encrypted-channels-file") => DOMAIN listed # {}
    <3> SUFFICES ASSUME pc = "serving", Asked("encrypted-channels-file") PROVE DOMAIN listed # {}
      OBVIOUS
    <3>1. Begun /\ inv.cmd = "server"
      BY DEF Begun, ReadersInv
    <3>2. Given("encrypted-channels-file")
      BY <3>1, GivenIsAsked, ServerOnly
    <3> QED BY <3>2 DEF ReadersInv
  <2> QED BY <2>1 DEF ReadersInv, ReadersAreNamed
<1> QED BY <1>1, ReadersInvariant, PTL

-----------------------------------------------------------------------------
(* Types                                                                   *)

\* With the invariants of the configuration and of the readers, the types are inductive.
TypeInv == TypeOK /\ ConfigInv /\ ReadersInv

LEMMA TypeInitial == Init => TypeInv
<1> SUFFICES ASSUME Init PROVE TypeOK
  BY ConfigInitial, ReadersInitial DEF Init, TypeInv
<1>1. ConfigInv BY ConfigInitial DEF Init
<1>2. ConfigTypeOK
  BY <1>1, InvocationAssumption DEF Init, ConfigInit, ConfigTypeOK, ConfigInv
<1>3. ArgumentsTypeOK BY DEF Init, ArgumentsInit, ArgumentsTypeOK, Found
<1>5. ReadersTypeOK BY ReadersInitial DEF ReadersInv
<1>4. AdmissionTypeOK
  <2>1. request \in Requests BY AdmissionAssumption DEF Init, AdmissionInit, Idle
  <2> QED BY <2>1, AdmissionAssumption DEF Init, AdmissionInit, AdmissionTypeOK
<1> QED BY <1>2, <1>3, <1>4, <1>5 DEF TypeOK, Init, ConfigInit

LEMMA GetConfigStringType ==
  ASSUME ConfigInv, Begun, NEW k PROVE GetConfigString(k) \in Found
<1>1. inv \in Invocations /\ inv.config \subseteq Entry
  BY InvocationAssumption DEF ConfigInv
<1>2. CASE Readable
  <2>1. loaded = inv.config BY <1>2 DEF ConfigInv, Loaded, Begun
  <2>2. k \in Keys(Merged(inv.config)) => EntryOf(k) \in Entry
    BY <2>1, <1>1, EntryOfKey
  <2>3. k \in Keys(Merged(inv.config)) => EntryOf(k).val \in {"value", "bad", "null"}
    BY <2>2 DEF Entry
  <2> QED BY <2>1, <2>3 DEF GetConfigString, Found, Sources
<1>3. CASE ~Readable
  <2>1. loaded = {} BY <1>3 DEF ConfigInv, Loaded, Begun
  <2> QED BY <2>1 DEF GetConfigString, Found, Keys, Merged
<1> QED BY <1>2, <1>3

LEMMA TypeStep == TypeInv /\ [Next]_vars => TypeInv'
<1> SUFFICES ASSUME TypeInv, [Next]_vars PROVE TypeOK'
  BY ConfigInvStep, ReadersKeep DEF TypeInv
<1> DEFINE PcOK == pc \in Sections \cup {"load", "apply", "failed", "done", "receiving",
                                        "replaying", "serving"}
<1>0. /\ ConfigInv /\ ConfigInv' /\ ConfigTypeOK /\ ArgumentsTypeOK /\ AdmissionTypeOK /\ PcOK
      /\ ReadersTypeOK'
      /\ Sections = {"client", "replay", "server", "keygen"}
  BY ConfigInvStep, ReadersKeep, SectionNames DEF TypeInv, TypeOK, ReadersInv
<1>1. UNCHANGED configVars => ConfigTypeOK' /\ PcOK'
  BY <1>0 DEF configVars, ConfigTypeOK, FlagsOf
<1>2. UNCHANGED <<inv, loaded, pending, flag>> => ConfigTypeOK'
  BY <1>0 DEF ConfigTypeOK, FlagsOf
<1>3. UNCHANGED argumentVars => ArgumentsTypeOK'
  BY <1>0 DEF argumentVars, ArgumentsTypeOK
<1>4. UNCHANGED admissionVars => AdmissionTypeOK'
  BY <1>0 DEF admissionVars, AdmissionTypeOK
<1>5. CASE UNCHANGED vars
  BY <1>0, <1>1, <1>3, <1>4, <1>5 DEF vars, TypeOK
<1>6. CASE ConfigStep /\ UNCHANGED <<argumentVars, readerVars, admissionVars>>
  <2>1. PcOK' /\ inv' = inv
    BY <1>0, <1>6 DEF ConfigStep, NoConfig, BadConfig, LoadConfig, Applied, Skip, Set,
                      SetFails, ConfigTypeOK
  <2>2. loaded' \in {{}, inv'.config} /\ pending' \subseteq Key
    <3>1. CASE LoadConfig
      <4>1. /\ loaded' = inv.config /\ pending' = Keys(Merged(inv.config)) /\ inv' = inv
            /\ \A e \in inv.config : ValidEntry(e)
        BY <3>1 DEF LoadConfig
      <4>2. \A e \in inv.config : e.key \in Key
        <5>1. \A c \in Sections : \A k \in commandFlags[c] : k \in Key
          BY Zenon DEF Key
        <5>2. \A k \in globalValidKeys : k \in Key BY Zenon DEF Key
        <5>3. \A e \in inv.config :
                e.key \in globalValidKeys \/ (e.in \in Sections /\ e.key \in commandFlags[e.in])
          BY <4>1 DEF ValidEntry
        <5> QED BY <5>1, <5>2, <5>3
      <4>3. \A e \in Merged(inv.config) : e \in inv.config BY DEF Merged
      <4> QED BY <4>1, <4>2, <4>3 DEF Keys
    <3>2. CASE ~LoadConfig
      BY <3>2, <1>0, <1>6 DEF ConfigStep, NoConfig, BadConfig, Applied, Skip, Set, SetFails,
                              ConfigTypeOK
    <3> QED BY <3>1, <3>2
  <2>3. ConfigTypeOK'
    BY <2>1, <2>2, <1>0 DEF ConfigTypeOK, ConfigInv
  <2> QED BY <1>0, <2>1, <2>3, <1>3, <1>4, <1>6 DEF TypeOK
<1>7. CASE ArgumentStep /\ UNCHANGED <<readerVars, admissionVars>>
  <2>1. UNCHANGED <<inv, loaded, pending, flag>> /\ PcOK'
    BY <1>7, <1>0 DEF ArgumentStep, LoggerFails, NewURL, ClientRefuses, ClientStarts, Lists,
                      Known, ReplayRefuses, ReplayStarts, Keygen
  <2>2. CASE UNCHANGED argumentVars
    BY <1>0, <2>1, <2>2, <1>2, <1>3, <1>4, <1>7 DEF TypeOK
  <2>3. CASE ClientStarts \/ ReplayStarts
    <3>1. Begun BY <2>3 DEF ClientStarts, ReplayStarts, Known, Begun
    <3>2. \A k : GetConfigString(k) \in Found BY <1>0, <3>1, GetConfigStringType
    <3>3. \A k : ClientURL(k) \in Found
      BY <3>2 DEF ClientURL, FirstOf, FromEnv, Found, Sources
    <3>4. Org \in Found /\ Hook \in Found /\ ReplayTarget \in Found
      BY <3>2 DEF Org, Hook, ReplayTarget, FirstOf, FromEnv, Found, Sources
    <3>5. "none" \in Found BY DEF Found
    <3>6. CASE ClientStarts
      <4>1. arg' \in [Positional -> Found] BY <3>3, <3>5, <3>6 DEF ClientStarts
      <4>2. noReplay' \in BOOLEAN BY <3>6 DEF ClientStarts
      <4> QED BY <1>0, <4>1, <4>2, <2>1, <1>2, <1>4, <1>7 DEF TypeOK, ArgumentsTypeOK
    <3>7. CASE ReplayStarts
      <4>1. arg' \in [Positional -> Found] BY <3>4, <3>5, <3>7 DEF ReplayStarts
      <4>2. noReplay' = noReplay BY <3>7 DEF ReplayStarts
      <4> QED BY <4>1, <4>2, <2>1, <1>0, <1>2, <1>4, <1>7 DEF TypeOK, ArgumentsTypeOK
    <3> QED BY <2>3, <3>6, <3>7
  <2> QED BY <1>7, <2>2, <2>3
          DEF ArgumentStep, LoggerFails, NewURL, ClientRefuses, Lists, ReplayRefuses, Keygen
<1>8. CASE AdmissionStep /\ UNCHANGED <<argumentVars, readerVars>>
  <2>1. ConfigTypeOK' /\ PcOK'
    BY <1>1, <1>8 DEF AdmissionStep, Arrives, PassAddress, RefuseAddress, Check, Refuse,
                PublishPayload, Returns
  <2>2. AdmissionTypeOK'
    <3>1. \A r \in Requests : r.to \in {"webhook", "replay"} BY AdmissionAssumption
    <3>2. Idle \in Requests BY AdmissionAssumption DEF Idle
    <3>3. MaxAttempts \in Nat \ {0} BY AdmissionAssumption
    <3>4. CASE PublishPayload
      <4>1. published' \in 0..MaxAttempts BY <3>3, <3>4 DEF PublishPayload
      <4>2. request' = request /\ stage' = "answered" /\ status' \in {"accepted", "error"}
        BY <3>4 DEF PublishPayload, Answer
      <4> QED BY <4>1, <4>2, <1>0 DEF AdmissionTypeOK
    <3>5. CASE Returns BY <3>1, <3>2, <3>3, <3>5, <1>0 DEF Returns, AdmissionTypeOK
    <3>6. CASE ~PublishPayload /\ ~Returns
      BY <3>1, <3>6, <1>0, <1>8
      DEF AdmissionStep, Arrives, PassAddress, RefuseAddress, Check, Refuse,
          Answer, AdmissionTypeOK, admissionVars
    <3> QED BY <3>4, <3>5, <3>6
  <2> QED BY <1>0, <2>1, <2>2, <1>3, <1>8 DEF TypeOK
<1>9. CASE ReaderStep /\ UNCHANGED <<argumentVars, admissionVars>>
  <2>1. ConfigTypeOK' /\ PcOK'
    <3>1. CASE UNCHANGED configVars BY <3>1, <1>1
    <3>2. CASE ServeFails \/ Serves BY <3>2, <1>0, <1>2 DEF ServeFails, Serves
    <3> QED BY <1>9, <3>1, <3>2
            DEF ReaderStep, Subscribes, ShowsPage, HandsOut, TurnsAway, Answers, Answered
  <2> QED BY <1>0, <2>1, <1>3, <1>4, <1>9 DEF TypeOK
<1> QED BY <1>5, <1>6, <1>7, <1>8, <1>9 DEF Next

\* Every variable of a starting process has its type, for any set of invocations.
THEOREM TypeCorrect == Spec => []TypeOK
<1>1. TypeInv => TypeOK BY DEF TypeInv
<1> QED BY <1>1, TypeInitial, TypeStep, PTL DEF Spec

=============================================================================
