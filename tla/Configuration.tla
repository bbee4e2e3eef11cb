--------------------------- MODULE Configuration ---------------------------
(***************************************************************************)
(* Where the options of a gosmee command come from: its command line, the  *)
(* environment and the YAML configuration file (gosmee/config.go), which   *)
(* the Before hook of every command loads and applies (makeBeforeHook in   *)
(* gosmee/app.go) after urfave/cli has taken the first two.                *)
(*                                                                         *)
(* What an option is worth is modelled by where its value was found, so    *)
(* two sources never agree by accident.  A configuration is a set of       *)
(* entries [in, key, val]: "in" is "top" or the map that holds the entry,  *)
(* and val tells apart what the code tells apart: a value, one of the      *)
(* wrong type for its flag ("bad"), and null.                              *)
(***************************************************************************)
EXTENDS Naturals

CONSTANT Invocations   \* the ways gosmee is started

\* The options every command but server and keygen has.
commonKeys ==
  {"output", "log-level", "ignore-event", "saveDir", "target-connection-timeout",
   "target-retries", "noReplay", "nocolor", "insecure-skip-tls-verify", "exec",
   "exec-on-events", "exec-env-vars"}

\* The keys of a command, in its own section of the file and as its flags.
commandFlags ==
  [client |-> commonKeys \cup
     {"smee-url", "target-url", "new-url", "httpie", "channel", "local-debug-url",
      "health-port", "sse-buffer-size", "encryption-key-file", "resume-state-file"},
   replay |-> commonKeys \cup
     {"org-repo", "hook-id", "target-url", "github-token", "list-hooks",
      "list-deliveries", "time-since"},
   server |->
     {"public-url", "port", "allowed-ips", "trust-proxy", "auto-cert", "footer",
      "footer-file", "address", "tls-cert", "tls-key", "webhook-signature",
      "replay-token", "max-body-size", "encrypted-channels-file", "cors-origin",
      "redis-url", "redis-stream-maxlen"},
   keygen |-> {"key-file"}]

Sections == DOMAIN commandFlags

globalValidKeys == commonKeys \cup {"config"} \cup Sections

\* Keys that name arguments and not flags.
Positional == {"smee-url", "target-url", "org-repo", "hook-id"}

FlagsOf(cmd) == commandFlags[cmd] \ Positional

\* The flags an environment variable stands in for.
envKeys ==
  {"log-level", "saveDir", "target-connection-timeout", "target-retries", "nocolor",
   "exec", "exec-env-vars", "key-file", "health-port", "sse-buffer-size",
   "encryption-key-file", "resume-state-file", "allowed-ips", "trust-proxy",
   "tls-cert", "tls-key", "webhook-signature", "replay-token", "max-body-size",
   "encrypted-channels-file", "cors-origin", "redis-url", "redis-stream-maxlen"}

Sources == {"cli", "env", "section", "top", "default"}

Key == globalValidKeys \cup UNION {commandFlags[c] : c \in Sections}

Entry == [in : STRING, key : STRING, val : {"value", "bad", "null"}]

\* cli and env are the flags given there, args the number of arguments, urls the keys
\* given by GOSMEE_URL and GOSMEE_TARGET_URL; explicit: --config or GOSMEE_CONFIG.
ASSUME InvocationAssumption ==
  \A i \in Invocations :
    /\ i.cmd \in Sections
    /\ i.cli \subseteq FlagsOf(i.cmd)
    /\ i.env \subseteq FlagsOf(i.cmd) \cap envKeys
    /\ i.args \in 0..3
    /\ i.urls \subseteq {"smee-url", "target-url"}
    /\ i.explicit \in BOOLEAN
    /\ i.file \in {"absent", "unreadable", "broken", "yaml"}
    /\ i.config \subseteq Entry
    /\ \A d, e \in i.config : d.in = e.in /\ d.key = e.key => d = e

VARIABLES
  inv,      \* the invocation
  pc,       \* "load", "apply", then what the command does
  loaded,   \* loadedConfig
  pending,  \* the keys of merged that the loop has not visited
  flag      \* flag |-> where its value comes from

configVars == <<inv, pc, loaded, pending, flag>>

Given(k) == flag[k] # "default"

-----------------------------------------------------------------------------
\* What urfave/cli has put into the flags: the command line, else the environment.
ParsedFlags(i) ==
  [k \in FlagsOf(i.cmd) |->
     IF k \in i.cli THEN "cli" ELSE IF k \in i.env THEN "env" ELSE "default"]

ConfigInit ==
  /\ inv \in Invocations
  /\ pc = "load"
  /\ loaded = {}
  /\ pending = {}
  /\ flag = ParsedFlags(inv)

ConfigTypeOK ==
  /\ inv.cmd \in Sections
  /\ loaded \in {{}, inv.config}
  /\ pending \subseteq Key
  /\ flag \in [FlagsOf(inv.cmd) -> Sources]

\* Fault: only the section of the command that runs is looked at.
ValidOwnEntry(e) ==
  \/ e.in = "top" /\ e.key \in globalValidKeys /\ (e.key \in Sections => e.val = "null")
  \/ e.in \in Sections /\ (e.in = inv.cmd => e.key \in commandFlags[e.in])

\* A key is known where it stands, and a section is a map or null.
ValidEntry(e) ==
  \/ e.in = "top" /\ e.key \in globalValidKeys /\ (e.key \in Sections => e.val = "null")
  \/ e.in \in Sections /\ e.key \in commandFlags[e.in]

\* Fault: what the section sets does not replace what the top level sets.
MergedTopFirst(config) ==
  LET Top == {e \in config : e.in = "top" /\ e.key \notin Sections}
  IN  Top \cup {e \in config : e.in = inv.cmd /\ \A t \in Top : t.key # e.key}

\* The top level of the file, and over it the section of the command.
Merged(config) ==
  LET Section == {e \in config : e.in = inv.cmd}
  IN  Section \cup {e \in config : /\ e.in = "top" /\ e.key \notin Sections
                                   /\ \A s \in Section : s.key # e.key}

Keys(entries) == {e.key : e \in entries}

EntryOf(k) == CHOOSE e \in Merged(loaded) : e.key = k

\* No file to load, and nobody asked for one.
NoConfig ==
  /\ pc = "load"
  /\ inv.file \in {"absent", "unreadable"}
  /\ ~inv.explicit
  /\ pc' = inv.cmd
  /\ UNCHANGED <<inv, loaded, pending, flag>>

\* A file that was asked for and cannot be read, or one that is not a valid configuration.
BadConfig ==
  /\ pc = "load"
  /\ \/ inv.explicit /\ inv.file \in {"absent", "unreadable"}
     \/ inv.file = "broken"
     \/ inv.file = "yaml" /\ \E e \in inv.config : ~ValidEntry(e)
  /\ pc' = "failed"
  /\ UNCHANGED <<inv, loaded, pending, flag>>

\* Fault: only what concerns the command in a section is kept.
LoadConfigOfCommand ==
  /\ pc = "load"
  /\ inv.file = "yaml"
  /\ \A e \in inv.config : ValidEntry(e)
  /\ loaded' = {e \in inv.config : e.in = inv.cmd}
  /\ pending' = Keys(loaded')
  /\ pc' = "apply"
  /\ UNCHANGED <<inv, flag>>

LoadConfig ==
  /\ pc = "load"
  /\ inv.file = "yaml"
  /\ \A e \in inv.config : ValidEntry(e)
  /\ loaded' = inv.config
  /\ pending' = Keys(Merged(inv.config))
  /\ pc' = "apply"
  /\ UNCHANGED <<inv, flag>>

-----------------------------------------------------------------------------
(* ApplyConfigToContext: Go ranges over merged in any order.               *)

\* Fault: a flag that has its value from the environment counts as unset.
IsSetByArgs(k) == flag[k] \in {"cli", "section", "top"}

IsSet(k) == Given(k)

\* An argument or a key the command does not have, a flag that is set, or a null.
PassedOver(k) == k \in FlagsOf(inv.cmd) => IsSet(k) \/ EntryOf(k).val = "null"

Skip(k) ==
  /\ pc = "apply"
  /\ PassedOver(k)
  /\ pending' = pending \ {k}
  /\ UNCHANGED <<inv, pc, loaded, flag>>

Set(k) ==
  /\ pc = "apply"
  /\ ~PassedOver(k)
  /\ EntryOf(k).val = "value"
  /\ flag' = [flag EXCEPT ![k] = IF EntryOf(k).in = "top" THEN "top" ELSE "section"]
  /\ pending' = pending \ {k}
  /\ UNCHANGED <<inv, pc, loaded>>

\* The flag cannot parse the value, and the command does not run.
SetFails(k) ==
  /\ pc = "apply"
  /\ ~PassedOver(k)
  /\ EntryOf(k).val = "bad"
  /\ pc' = "failed"
  /\ UNCHANGED <<inv, loaded, pending, flag>>

\* The Before hook is done, and the command's Action begins.
Applied ==
  /\ pc = "apply"
  /\ pending = {}
  /\ pc' = inv.cmd
  /\ UNCHANGED <<inv, loaded, pending, flag>>

ConfigStep ==
  \/ NoConfig \/ BadConfig \/ LoadConfig \/ Applied
  \/ \E k \in pending : Skip(k) \/ Set(k) \/ SetFails(k)

-----------------------------------------------------------------------------
(* Properties                                                              *)

\* The command runs: its flags are what they will be.
Begun == pc \notin {"load", "apply", "failed"}

Readable == inv.file = "yaml"

\* An option of the server was given somewhere it counts.
Asked(k) ==
  \/ k \in inv.cli \cup inv.env
  \/ Readable /\ [in |-> "server", key |-> k, val |-> "value"] \in inv.config

\* The file speaks of k in this place.
Says(place, k) == Readable /\ \E e \in inv.config : e.in = place /\ e.key = k

\* "CLI flags beat environment variables, which beat the config file", a section
\* overrides the top level, and a flag nobody mentions, or mentions as null, keeps its
\* default: whatever order the loop took, every flag of a command that runs has its
\* value from the first of these sources that speaks of it.
Precedence ==
  Begun => \A k \in FlagsOf(inv.cmd) :
    /\ flag[k] = "cli" <=> k \in inv.cli
    /\ flag[k] = "env" <=> k \in inv.env \ inv.cli
    /\ flag[k] = "section" =>
         Readable /\ [in |-> inv.cmd, key |-> k, val |-> "value"] \in inv.config
    /\ flag[k] = "top" =>
         /\ Readable /\ [in |-> "top", key |-> k, val |-> "value"] \in inv.config
         /\ ~Says(inv.cmd, k)
    /\ flag[k] = "default" => \A v \in {"value", "bad"} :
         Readable => /\ [in |-> inv.cmd, key |-> k, val |-> v] \notin inv.config
                     /\ [in |-> "top", key |-> k, val |-> v] \in inv.config
                          => Says(inv.cmd, k)

\* A mistake anywhere in the file, in another command's section too, stops every
\* command, and so does a file that was asked for and is not there.
MistakeStopsAll ==
  Begun =>
    /\ inv.explicit => Readable
    /\ inv.file # "broken"
    /\ Readable => \A e \in inv.config :
         \/ e.in \in Sections /\ e.key \in commandFlags[e.in]
         \/ e.in = "top" /\ e.key \in commonKeys \cup {"config"}
         \/ e.in = "top" /\ e.key \in Sections /\ e.val = "null"
=============================================================================
