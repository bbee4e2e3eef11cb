----------------------------- MODULE Arguments -----------------------------
(***************************************************************************)
(* The arguments of `gosmee client` and `gosmee replay`: URLs, repository  *)
(* and hook, which may also come from GOSMEE_URL, GOSMEE_TARGET_URL and    *)
(* the configuration (resolveClientURLs in gosmee/app.go, the beginning    *)
(* of replay in gosmee/replay.go).  As with the flags, an argument is      *)
(* worth the place it was found in, or "none".  An argument or variable    *)
(* that is given is not empty, and a switch that is given is on.           *)
(***************************************************************************)
EXTENDS Configuration

VARIABLES
  arg,      \* argument |-> where its value comes from
  noReplay  \* what the client will do: only run commands, or post too

argumentVars == <<arg, noReplay>>

Found == Sources \cup {"none", "bad", "null"}

ArgumentsTypeOK ==
  /\ arg \in [Positional -> Found]
  /\ noReplay \in BOOLEAN

ArgumentsInit ==
  /\ arg = [k \in Positional |-> "none"]
  /\ noReplay = FALSE

\* What GetConfigString finds in the configuration.  A null is printed as "<nil>", and
\* is a text like another.
GetConfigString(k) ==
  IF k \notin Keys(Merged(loaded)) THEN "none"
  ELSE IF EntryOf(k).val # "value" THEN EntryOf(k).val
  ELSE IF EntryOf(k).in = "top" THEN "top" ELSE "section"

FirstOf(a, b) == IF a # "none" THEN a ELSE b

FromEnv(k) == IF k \in inv.urls THEN "env" ELSE "none"

\* getLogger refuses an output or a level it does not know.
LoggerFails ==
  /\ \/ pc = "client"
     \/ pc = "replay" /\ Given("github-token")
  /\ Given("output") \/ Given("log-level")
  /\ pc' = "failed"
  /\ UNCHANGED <<inv, loaded, pending, flag, argumentVars>>

-----------------------------------------------------------------------------
(* gosmee client                                                           *)

\* Two arguments, or one with a command to run.
ByArgument(k) ==
  \/ inv.args = 2
  \/ inv.args = 1 /\ Given("exec") /\ k = "smee-url"

\* Fault: the environment is asked before the arguments.
ClientURLFromEnv(k) ==
  FirstOf(FromEnv(k), FirstOf(IF ByArgument(k) THEN "cli" ELSE "none", GetConfigString(k)))

ClientURL(k) ==
  FirstOf(IF ByArgument(k) THEN "cli" ELSE "none", FirstOf(FromEnv(k), GetConfigString(k)))

\* Fault: a target that is missing is always forgiven.
EnoughWithoutTarget ==
  /\ inv.args \in {0, 2} \/ (inv.args = 1 /\ Given("exec"))
  /\ ClientURL("smee-url") # "none"

\* A source, and a target unless there is a command to run.
Enough ==
  /\ inv.args \in {0, 2} \/ (inv.args = 1 /\ Given("exec"))
  /\ ClientURL("smee-url") # "none"
  /\ ClientURL("target-url") # "none" \/ Given("exec")

NewURL ==
  /\ pc = "client"
  /\ Given("new-url")
  /\ pc' \in {"done", "failed"}
  /\ UNCHANGED <<inv, loaded, pending, flag, argumentVars>>

ClientRefuses ==
  /\ pc = "client"
  /\ ~Given("new-url")
  /\ ~Enough \/ \E k \in {"smee-url", "target-url"} : ClientURL(k) = "bad"
  /\ pc' = "failed"
  /\ UNCHANGED <<inv, loaded, pending, flag, argumentVars>>

ClientStarts ==
  /\ pc = "client"
  /\ ~Given("new-url")
  /\ Enough
  /\ \A k \in {"smee-url", "target-url"} : ClientURL(k) # "bad"
  /\ arg' = [k \in Positional |->
               IF k \in {"smee-url", "target-url"} THEN ClientURL(k) ELSE "none"]
  /\ noReplay' = \/ Given("noReplay")
                 \/ inv.args = 1
                 \/ ClientURL("target-url") = "none"
  /\ pc' = "receiving"
  /\ UNCHANGED <<inv, loaded, pending, flag>>

-----------------------------------------------------------------------------
(* gosmee replay                                                           *)

Org == FirstOf(IF inv.args >= 1 THEN "cli" ELSE "none", GetConfigString("org-repo"))

Hook == FirstOf(IF inv.args >= 2 THEN "cli" ELSE "none", GetConfigString("hook-id"))

\* The variable comes first here, and the target is the third argument of three.
ReplayTarget ==
  FirstOf(FromEnv("target-url"),
          FirstOf(IF inv.args = 3 THEN "cli" ELSE "none", GetConfigString("target-url")))

Known == pc = "replay" /\ Given("github-token") /\ Org # "none"

\* A hook's ID that is not a number is none.
HookKnown == Hook \notin {"none", "bad", "null"}

Lists ==
  /\ Known
  /\ \/ Given("list-hooks")
     \/ HookKnown /\ Given("list-deliveries")
  /\ pc' \in {"done", "failed"}
  /\ UNCHANGED <<inv, loaded, pending, flag, argumentVars>>

\* --time-since may not be a time, and a target from anywhere may not be a URL.
ReplayRefuses ==
  /\ pc = "replay"
  /\ \/ ~Given("github-token")
     \/ Org = "none"
     \/ ~Given("list-hooks") /\ ~HookKnown
     \/ /\ ~Given("list-hooks") /\ ~Given("list-deliveries")
        /\ ReplayTarget \in {"none", "bad"} \/ Given("time-since")
  /\ pc' = "failed"
  /\ UNCHANGED <<inv, loaded, pending, flag, argumentVars>>

ReplayStarts ==
  /\ Known
  /\ HookKnown
  /\ ~Given("list-hooks") /\ ~Given("list-deliveries")
  /\ ReplayTarget \notin {"none", "bad"}
  /\ arg' = [k \in Positional |-> CASE k = "org-repo" -> Org
                                    [] k = "hook-id" -> Hook
                                    [] k = "target-url" -> ReplayTarget
                                    [] OTHER -> "none"]
  /\ pc' = "replaying"
  /\ UNCHANGED <<inv, loaded, pending, flag, noReplay>>

\* gosmee keygen wants a file, and writes it.
Keygen ==
  /\ pc = "keygen"
  /\ pc' \in (IF Given("key-file") THEN {"done", "failed"} ELSE {"failed"})
  /\ UNCHANGED <<inv, loaded, pending, flag, argumentVars>>

ArgumentStep ==
  \/ LoggerFails
  \/ NewURL \/ ClientRefuses \/ ClientStarts
  \/ Lists \/ ReplayRefuses \/ ReplayStarts
  \/ Keygen

-----------------------------------------------------------------------------
(* Properties                                                              *)

\* What a command may be told by arguments, each at its place.
ArgumentPlaces ==
  {<<"client", "smee-url", 1>>, <<"client", "target-url", 2>>,
   <<"replay", "org-repo", 1>>, <<"replay", "hook-id", 2>>, <<"replay", "target-url", 3>>}

Typed(k) == \E n \in 1..inv.args : <<inv.cmd, k, n>> \in ArgumentPlaces

\* What replay looks for in the environment first: its target.
EnvironmentFirst(k) == inv.cmd = "replay" /\ k = "target-url"

\* A client that receives or a replay that runs has what it needs from its arguments.
Working == pc \in {"receiving", "replaying"}

\* resolveClientURLs and replay look at the arguments, then at the environment, then at
\* the command's section of the configuration, each of the two in code of its own, and
\* for the target of a replay the first two change places: what the command works with
\* is from the first of these that speaks of it, and nothing else is used or passed over.
ArgumentPrecedence ==
  Working =>
    \A k \in Positional \cap commandFlags[inv.cmd] :
      /\ arg[k] = "cli" <=> Typed(k) /\ ~(EnvironmentFirst(k) /\ k \in inv.urls)
      /\ arg[k] = "env" <=> k \in inv.urls /\ (EnvironmentFirst(k) \/ ~Typed(k))
      /\ arg[k] = "none" => ~Says(inv.cmd, k)
      /\ arg[k] \notin {"cli", "env", "none"} =>
           /\ Readable
           /\ [in |-> inv.cmd, key |-> k,
               val |-> IF arg[k] = "section" THEN "value" ELSE arg[k]] \in inv.config

\* "need a targetURL or an exec command": a client that receives events has a source,
\* posts them to a target it knows, and if it does not post it was told so or has a
\* command to run.
ClientHasWork ==
  pc = "receiving" =>
    /\ arg["smee-url"] # "none"
    /\ noReplay \/ arg["target-url"] # "none"
    /\ noReplay => "exec" \in inv.cli \cup inv.env \/ Says("client", "exec")
                     \/ Says("top", "exec") \/ Given("noReplay")
=============================================================================
