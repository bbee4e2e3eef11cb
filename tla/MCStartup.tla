----------------------------- MODULE MCStartup -----------------------------
(***************************************************************************)
(* The ways to start gosmee that TLC looks at: families of invocations,    *)
(* each of which varies what one part of the code tells apart.             *)
(***************************************************************************)
EXTENDS Startup

Started(cmd, cli, env, args, urls, explicit, file, config) ==
  [cmd |-> cmd, cli |-> cli, env |-> env, args |-> args, urls |-> urls,
   explicit |-> explicit, file |-> file, config |-> config]

\* The key is not there, or has one of these values.
May(place, k, vals) == {{}} \cup {{[in |-> place, key |-> k, val |-> v]} : v \in vals}

AnyVal == {"value", "bad", "null"}

\* The four sources of two flags, one with a variable and both at the top level too.
Flags ==
  {Started("client", cli, env, 2, {}, FALSE, "yaml", a \cup b \cup c \cup d) :
     cli \in SUBSET {"target-retries", "output"}, env \in SUBSET {"target-retries"},
     a \in May("client", "target-retries", AnyVal), b \in May("top", "target-retries", AnyVal),
     c \in May("client", "output", {"value", "null"}), d \in May("top", "output", {"value"})}

\* A client's URLs and what it does without a target.
Clients ==
  {Started("client", cli, env, args, urls, FALSE, "yaml", a \cup b \cup c) :
     cli \in {{}, {"noReplay"}, {"exec"}, {"new-url"}}, env \in SUBSET {"exec"}, args \in 0..3,
     urls \in SUBSET {"smee-url", "target-url"},
     a \in May("client", "smee-url", AnyVal), b \in May("client", "target-url", {"value"}),
     c \in May("top", "exec", {"value", "null"})}

Replays ==
  {Started("replay", cli, {}, args, urls, TRUE, "yaml", a \cup b \cup c \cup d \cup e) :
     cli \in {{}, {"github-token"}, {"github-token", "list-hooks"}, {"github-token", "time-since"}},
     args \in 0..3, urls \in SUBSET {"target-url"},
     a \in May("replay", "github-token", {"value"}), b \in May("replay", "org-repo", {"value"}),
     c \in May("replay", "hook-id", AnyVal), d \in May("replay", "target-url", {"value", "bad"}),
     e \in May("replay", "list-deliveries", {"value"})}

\* Mistakes in the file, where they concern the command and where they do not.
Mistakes ==
  {Started(cmd, {}, {}, 2, {}, explicit, file, {[in |-> place, key |-> k, val |-> v]}) :
     cmd \in {"client", "server"}, explicit \in BOOLEAN,
     file \in {"absent", "unreadable", "broken", "yaml"},
     place \in {"top", "client", "server", "output"},
     k \in {"port", "exec", "config", "client", "typo"}, v \in {"value", "null"}}

Keygens ==
  {Started("keygen", cli, env, 0, {}, FALSE, "yaml", a) :
     cli \in SUBSET {"key-file"}, env \in SUBSET {"key-file"}, a \in May("keygen", "key-file", {"value"})}

Admitting == {"webhook-signature", "replay-token", "allowed-ips", "trust-proxy", "redis-url"}

Servers ==
  {Started("server", cli, env, 0, {}, FALSE, "yaml",
           {[in |-> "server", key |-> k, val |-> "value"] : k \in section}) :
     cli \in SUBSET {"webhook-signature", "allowed-ips"},
     env \in {{}, {"webhook-signature", "trust-proxy"}},
     section \in SUBSET Admitting}

\* The file of protected channels, and what else may stop a server.
Guarding ==
  {Started("server", cli, env, 0, {}, FALSE, "yaml", a \cup b \cup c) :
     cli \in SUBSET {"encrypted-channels-file", "footer"}, env \in SUBSET {"encrypted-channels-file"},
     a \in May("server", "encrypted-channels-file", {"value", "null"}),
     b \in May("server", "footer-file", {"value"}), c \in May("server", "allowed-ips", {"value"})}

MCInvocations == Guarding \cup Flags \cup Clients \cup Replays \cup Mistakes \cup Keygens \cup Servers

MCAddresses == {"office", "elsewhere"}

\* Two secrets on the command line; the other sources have one each.
MCSecrets ==
  [s \in Sources |-> CASE s = "cli" -> {"new", "old"} [] s = "env" -> {"old"}
                       [] s = "section" -> {"new"} [] OTHER -> {}]

MCAllowed ==
  [s \in Sources |-> IF s \in {"cli", "env", "section"} THEN {"office"} ELSE {}]

Unsigned == [h \in Headers |-> "none"]

Posted(to, peer, forwarded, realIP, signed, bearer, body, typed, channel) ==
  [to |-> to, peer |-> peer, forwarded |-> forwarded, realIP |-> realIP, signed |-> signed,
   bearer |-> bearer, body |-> body, typed |-> typed, channel |-> channel]

\* Whose request it is.
FromAnywhere ==
  {Posted(to, peer, forwarded, realIP, [Unsigned EXCEPT ![2] = "new"], "section", "json", TRUE, TRUE) :
     to \in {"webhook", "replay"}, peer \in MCAddresses \cup {"bad"},
     forwarded \in MCAddresses \cup {"none", "bad"}, realIP \in MCAddresses \cup {"none", "bad"}}

\* How it is signed, in each header and in two at once.
Signed ==
  {Posted("webhook", "office", "none", "none", [Unsigned EXCEPT ![h] = a, ![g] = b], "none", body, typed, TRUE) :
     h \in Headers, g \in Headers, a \in {"none", "new", "old", "forged"},
     b \in {"new", "forged"}, body \in {"json", "text", "unread"}, typed \in BOOLEAN}

Replayed ==
  {Posted("replay", "office", "none", "none", Unsigned, bearer, body, FALSE, channel) :
     bearer \in {"none", "forged", "cli", "section"}, body \in {"json", "text", "unread"},
     channel \in BOOLEAN}

MCRequests ==
  FromAnywhere \cup Replayed \cup
  {r \in Signed : \/ r.typed /\ r.body = "json"
                  \/ r.signed = [Unsigned EXCEPT ![2] = "new"]}
  \cup {Posted("webhook", "office", "none", "none", Unsigned, "none", "json", TRUE, TRUE)}

\* Two texts of one key, one of another, and one of none.
MCKeyOf == [t \in {"none", "ada", "ada again", "bob", "scribble"} |->
              CASE t \in {"ada", "ada again"} -> "A" [] t = "bob" -> "B" [] OTHER -> "bad"]

MCFiles ==
  {[json |-> json, lists |-> lists] :
     json \in BOOLEAN,
     lists \in {[c \in {} |-> {}], [c \in {"bad"} |-> {"ada"}], [c \in {"one"} |-> {}],
               [c \in {"one"} |-> {"ada", "scribble"}], [c \in {"one"} |-> {"ada"}],
               [c \in {"one", "two"} |-> IF c = "one" THEN {"ada again"} ELSE {"bob"}]}}

MCGets ==
  {[to |-> to, channel |-> c, pubkey |-> t] :
     to \in {"new", "index", "events"}, c \in {"one", "two", "three", "bad"}, t \in DOMAIN MCKeyOf}
=============================================================================
